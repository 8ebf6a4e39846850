------------------------- MODULE PartialLock_proofs -------------------------
(***************************************************************************)
(* Theorems about PartialLock for every finite tree and any number of      *)
(* sessions, blocks, slots and ids, with their proofs.                     *)
(***************************************************************************)
EXTENDS PartialLock, FiniteSetTheorems, WellFoundedInduction, TLAPS

-----------------------------------------------------------------------------
(* The tree.                                                               *)

UpTo(n) == {n} \cup Above(n)

(* Being at or above a node, in terms of subtrees.                         *)
LEMMA UpToDef ==
    ASSUME NEW n \in Nodes
    PROVE  /\ UpTo(n) \subseteq Nodes
           /\ \A a \in Nodes : a \in UpTo(n) <=> n \in Subtree[a]
           /\ \A a \in Nodes : a \in Above(n) <=> a # n /\ n \in Subtree[a]
           /\ n \in UpTo(n)
BY TreeAssumption DEF UpTo, Above

LEMMA SubtreeNodes ==
    ASSUME NEW n \in Nodes
    PROVE  Subtree[n] \subseteq Nodes /\ n \in Subtree[n]
BY TreeAssumption

LEMMA UpToTrans ==
    ASSUME NEW n \in Nodes, NEW a \in UpTo(n), NEW b \in UpTo(a)
    PROVE  b \in UpTo(n) /\ b \in Nodes /\ a \in Nodes
<1>1. a \in Nodes /\ n \in Subtree[a]
  BY UpToDef
<1>2. b \in Nodes /\ a \in Subtree[b]
  BY <1>1, UpToDef
<1>3. n \in Subtree[b]
  BY <1>1, <1>2, TreeAssumption
<1> QED
  BY <1>1, <1>2, <1>3, UpToDef

LEMMA AboveTrans ==
    ASSUME NEW n \in Nodes, NEW a \in Above(n), NEW b \in UpTo(a)
    PROVE  b \in Above(n) /\ b \in Nodes /\ a \in Nodes
<1>1. a \in Nodes /\ n \in Subtree[a] /\ a # n
  BY UpToDef DEF Above
<1>2. b \in Nodes /\ a \in Subtree[b]
  BY <1>1, UpToDef
<1>3. n \in Subtree[b]
  BY <1>1, <1>2, TreeAssumption
<1>4. b # n
  BY <1>1, <1>2, TreeAssumption
<1> QED
  BY <1>1, <1>2, <1>3, <1>4, UpToDef

(* Two nodes above one node are one above the other.                       *)
LEMMA Comparable ==
    ASSUME NEW n \in Nodes, NEW a \in UpTo(n), NEW b \in UpTo(n)
    PROVE  a \in UpTo(b) \/ b \in Above(a)
<1>1. a \in Nodes /\ b \in Nodes /\ n \in Subtree[a] /\ n \in Subtree[b]
  BY UpToDef
<1>2. a \in Subtree[b] \/ b \in Subtree[a]
  BY <1>1, TreeAssumption
<1> QED
  BY <1>1, <1>2, UpToDef

(* A set of numbers that is not empty has a least one.                     *)
LEMMA Least ==
    ASSUME NEW T, T \subseteq Nat, T # {}
    PROVE  \E x \in T : \A y \in T : x <= y
<1>1. \E x \in T : \A y \in T : ~ (<<y, x>> \in OpToRel(<, Nat))
  BY NatLessThanWellFounded, WFMin
<1>2. PICK x \in T : \A y \in T : ~ (<<y, x>> \in OpToRel(<, Nat))
  BY <1>1
<1>3. ASSUME NEW y \in T, y < x PROVE FALSE
  <2>1. <<y, x>> \in Nat \X Nat /\ <<y, x>>[1] < <<y, x>>[2]
    BY <1>3
  <2> QED
    BY <2>1, <1>2, Zenon DEF OpToRel
<1>4. \A y \in T : ~(y < x)
  BY <1>3
<1>5. \A y \in T : x <= y
  <2> TAKE y \in T
  <2>1. x \in Nat /\ y \in Nat /\ ~(y < x)
    BY <1>4
  <2> QED
    BY <2>1
<1> QED
  BY <1>5

(* Of nodes on one path, one is the topmost.                               *)
LEMMA Topmost ==
    ASSUME NEW n \in Nodes, NEW A, A \subseteq UpTo(n), A # {}
    PROVE  \E t \in A : A \cap Above(t) = {}
<1> DEFINE T == {Cardinality(Above(a)) : a \in A}
<1>1. A \subseteq Nodes
  BY UpToDef
<1>2. \A a \in A : IsFiniteSet(Above(a)) /\ Cardinality(Above(a)) \in Nat
  BY <1>1, TreeAssumption, FS_Subset, FS_CardinalityType DEF Above
<1>3. T \subseteq Nat /\ T # {}
  BY <1>2
<1>4. PICK x \in T : \A y \in T : x <= y
  BY <1>3, Least
<1>5. PICK t \in A : x = Cardinality(Above(t))
  BY <1>4
<1>6. SUFFICES ASSUME NEW b \in A \cap Above(t) PROVE FALSE
  BY <1>5
<1>7. Above(b) \subseteq Above(t) /\ b \in Above(t) /\ b \notin Above(b)
  <2>1. \A c \in Above(b) : c \in UpTo(b)
    BY DEF UpTo
  <2>2. \A c \in Above(b) : c \in Above(t)
    BY <2>1, <1>1, AboveTrans
  <2> QED
    BY <2>2 DEF Above
<1>8. Cardinality(Above(b)) <= Cardinality(Above(t))
  BY <1>7, <1>2, FS_Subset
<1>9. Cardinality(Above(b)) # Cardinality(Above(t))
  BY <1>7, <1>2, FS_Subset
<1>10. Cardinality(Above(t)) <= Cardinality(Above(b))
  BY <1>4, <1>5
<1> QED
  BY <1>8, <1>9, <1>10, <1>2

(* And one is the nearest.                                                 *)
LEMMA Nearest ==
    ASSUME NEW n \in Nodes, NEW A, A \subseteq UpTo(n), A # {}
    PROVE  \E t \in A : A \subseteq UpTo(t)
<1> DEFINE T == {Cardinality(Subtree[a]) : a \in A}
<1>1. A \subseteq Nodes
  BY UpToDef
<1>2. \A a \in A : IsFiniteSet(Subtree[a]) /\ Cardinality(Subtree[a]) \in Nat
  BY <1>1, TreeAssumption, SubtreeNodes, FS_Subset, FS_CardinalityType
<1>3. T \subseteq Nat /\ T # {}
  BY <1>2
<1>4. PICK x \in T : \A y \in T : x <= y
  BY <1>3, Least
<1>5. PICK t \in A : x = Cardinality(Subtree[t])
  BY <1>4
<1>6. SUFFICES ASSUME NEW b \in A, b \notin UpTo(t) PROVE FALSE
  BY <1>5
<1>7. t \in Above(b)
  BY <1>6, Comparable
<1>8. b \in Subtree[t] /\ t # b
  BY <1>7, <1>1, UpToDef
<1>9. Subtree[b] \subseteq Subtree[t] /\ t \in Subtree[t] /\ t \notin Subtree[b]
  BY <1>8, <1>1, TreeAssumption
<1>10. Cardinality(Subtree[b]) <= Cardinality(Subtree[t])
  BY <1>9, <1>2, FS_Subset
<1>11. Cardinality(Subtree[b]) # Cardinality(Subtree[t])
  BY <1>9, <1>2, FS_Subset
<1>12. Cardinality(Subtree[t]) <= Cardinality(Subtree[b])
  BY <1>4, <1>5
<1> QED
  BY <1>10, <1>11, <1>12, <1>2

-----------------------------------------------------------------------------
(* The invariant.                                                          *)

(* A node of <candidate> without an operation, on it or above it, is there *)
(* in <running>, with the same value unless it is a leaf that is flagged.  *)
(* This is UnmarkedAgree without the flags of containers, which a commit   *)
(* may leave behind and a delete may change.                               *)
MarksAgree ==
    \A n \in Present(candidate) :
        (\A a \in UpTo(n) : editop[a] = "none")
            => /\ running[n] # Absent
               /\ n \in Leaves \cap dirty \/ candidate[n] = running[n]

(* A node of <candidate> has no more slots than one of <running>.          *)
SlotSizes ==
    /\ \A n \in Nodes : IsFiniteSet(plock[n]) /\ IsFiniteSet(cplock[n])
    /\ \A n \in Nodes : Cardinality(cplock[n]) <= MaxSlots

(* The ids of the locks are behind the counter.                            *)
IdsCounted == \A b \in plockQ : plock_id[b] \in 1 .. last_id

PlockInv ==
    /\ TypeOK
    /\ SlotSizes
    /\ MarksAgree
    /\ IdsCounted
    /\ LocksTracked
    /\ ReportedLocked

(* A node on the path of one that is there is there.                       *)
LEMMA AboveIsThere ==
    ASSUME NEW c \in Config, NEW n \in Nodes, NEW a \in UpTo(n), c[n] # Absent
    PROVE  a \in Nodes /\ c[a] # Absent
<1>1. a \in Nodes /\ n \in Subtree[a]
  BY UpToDef
<1> QED
  BY <1>1 DEF Config, IsTree

LEMMA InConfig ==
    ASSUME NEW c \in Config, NEW n \in Nodes
    PROVE  c[n] \in Values[n] \cup {Absent} /\ c[n] \in Contents
BY DEF Config

(* A container that is there in two configurations has one value.          *)
LEMMA SameContainer ==
    ASSUME NEW c \in Config, NEW d \in Config, NEW n \in Nodes \ Leaves,
           c[n] # Absent, d[n] # Absent
    PROVE  c[n] = d[n]
BY InConfig, TreeAssumption

(* The invariant that a reader of the marks relies on follows.             *)
LEMMA AgreeFollows ==
    ASSUME TypeOK, MarksAgree
    PROVE  UnmarkedAgree
<1> SUFFICES ASSUME NEW n \in Present(candidate),
                    \A a \in UpTo(n) : editop[a] = "none" /\ a \notin dirty
             PROVE  candidate[n] = running[n]
  BY DEF UnmarkedAgree, UpTo
<1>1. n \in Nodes
  BY DEF Present
<1>2. n \in UpTo(n)
  BY <1>1, UpToDef
<1> QED
  BY <1>2 DEF MarksAgree

-----------------------------------------------------------------------------
(* The walk of a commit.                                                   *)

(* The operation in effect is "commit" just where no node of the path has  *)
(* an operation.                                                           *)
LEMMA CurEditopIs ==
    ASSUME TypeOK, NEW n \in Nodes
    PROVE  \/ CurEditop(n) = "commit" /\ \A a \in UpTo(n) : editop[a] = "none"
           \/ /\ CurEditop(n) \in {"merge", "replace"}
              /\ \E a \in UpTo(n) : editop[a] # "none"
<1> DEFINE own == {a \in {n} \cup Above(n) : editop[a] # "none"}
           near == {a \in own : own \subseteq {a} \cup Above(a)}
<1>1. CurEditop(n) = IF own = {} THEN "commit"
                     ELSE editop[CHOOSE a \in near : TRUE]
  BY DEF CurEditop
<1>2. CASE own = {}
  BY <1>1, <1>2 DEF UpTo
<1>3. CASE own # {}
  <2>1. own \subseteq UpTo(n)
    BY DEF UpTo
  <2>2. PICK t \in own : own \subseteq UpTo(t)
    <3> HIDE DEF own
    <3> QED
      BY <2>1, <1>3, Nearest
  <2>3. near # {}
    BY <2>2 DEF UpTo
  <2> DEFINE a == CHOOSE a \in near : TRUE
  <2>4. a \in near
    BY <2>3
  <2>5. a \in UpTo(n) /\ a \in Nodes /\ editop[a] # "none"
    BY <2>4, <2>1, UpToDef
  <2>6. editop[a] \in {"merge", "replace"}
    BY <2>5 DEF TypeOK, EditOp
  <2> QED
    BY <1>1, <1>3, <2>5, <2>6
<1> QED
  BY <1>2, <1>3

(* The walk visits a node only by way of those above it.                   *)
LEMMA VisitedAbove ==
    ASSUME TypeOK, NEW n \in Visited, NEW a \in UpTo(n)
    PROVE  a \in Visited /\ a \in Nodes /\ n \in Nodes
<1>1. n \in Nodes /\ candidate[n] # Absent
  BY DEF Visited, Present
<1>2. a \in Nodes /\ candidate[a] # Absent
  BY <1>1, AboveIsThere DEF TypeOK
<1>3. \A b \in UpTo(a) : b \in UpTo(n)
  BY <1>1, UpToTrans
<1> QED
  BY <1>1, <1>2, <1>3 DEF Visited, Present, UpTo

(* A node where the walk finds an edit is applied with the topmost such    *)
(* node of its path.                                                       *)
LEMMA AppliedAbove ==
    ASSUME TypeOK, NEW n \in Visited, ApplyHere(n)
    PROVE  \E e \in Edits : e \in UpTo(n)
<1> DEFINE A == {a \in UpTo(n) : ApplyHere(a)}
<1>1. n \in Nodes
  BY DEF Visited, Present
<1>2. A \subseteq UpTo(n) /\ n \in A
  BY <1>1, UpToDef
<1>3. PICK t \in A : A \cap Above(t) = {}
  BY <1>1, <1>2, Topmost
<1>4. t \in Visited /\ t \in Nodes /\ ApplyHere(t)
  BY VisitedAbove
<1>5. ASSUME NEW a \in Above(t) PROVE ~ApplyHere(a)
  <2>1. a \in UpTo(n)
    BY <1>1, <1>5, UpToTrans DEF UpTo
  <2> QED
    BY <2>1, <1>3
<1> QED
  BY <1>4, <1>5 DEF Edits

(* A node that the walk visits and does not take, nor any above it, is     *)
(* there in <running>, and the same if it has an operation in effect.      *)
LEMMA NotTaken ==
    ASSUME TypeOK, MarksAgree, NEW n \in Visited,
           \A e \in UpTo(n) : e \notin Edits
    PROVE  /\ running[n] # Absent
           /\ CurEditop(n) # "commit" => candidate[n] = running[n]
<1>1. n \in Nodes /\ candidate[n] # Absent
  BY DEF Visited, Present
<1>2. ~ApplyHere(n)
  BY AppliedAbove
<1>3. running \in Config /\ candidate \in Config
  BY DEF TypeOK
<1>4. n \in Subtree[n]
  BY <1>1, SubtreeNodes
<1>5. CASE CurEditop(n) = "commit"
  <2>1. \A a \in UpTo(n) : editop[a] = "none"
    BY <1>1, <1>5, CurEditopIs
  <2> QED
    BY <2>1, <1>1, <1>5 DEF MarksAgree, Present
<1>6. CASE CurEditop(n) = "replace"
  <2>1. ~(\E m \in Subtree[n] : candidate[m] # running[m])
    BY <1>2, <1>6 DEF ApplyHere
  <2> QED
    BY <2>1, <1>1, <1>4
<1>7. CASE CurEditop(n) = "merge"
  <2>1. ~(\/ running[n] = Absent
          \/ n \in Leaves /\ \E m \in Subtree[n] : candidate[m] # running[m])
    BY <1>2, <1>7 DEF ApplyHere
  <2>2. CASE n \in Leaves
    BY <2>1, <2>2, <1>4
  <2>3. CASE n \notin Leaves
    BY <2>1, <2>3, <1>1, <1>3, SameContainer
  <2> QED
    BY <2>1, <2>2, <2>3
<1> QED
  BY <1>1, <1>5, <1>6, <1>7, CurEditopIs

-----------------------------------------------------------------------------
(* The sets of nodes that a commit works on.                               *)

Moved == Below(Edits \ Merged)
Gone == Below(CommitDeletes)

LEMMA EditsThere ==
    /\ Edits \subseteq Visited
    /\ Visited \subseteq Nodes
    /\ \A n \in Visited : candidate[n] # Absent
    /\ Merged \subseteq Edits /\ Merged \subseteq Leaves
    /\ \A n \in Merged : running[n] # Absent
    /\ Replaced \subseteq Edits /\ Replaced \cap Leaves = {}
    /\ \A n \in Replaced : running[n] # Absent
    /\ \A n \in Edits \ Merged : n \in Replaced \/ running[n] = Absent
    /\ CommitDeletes \subseteq Nodes
    /\ \A n \in CommitDeletes : candidate[n] = Absent
BY DEF Edits, Visited, Merged, Replaced, SlotsSwapped, Both, Present, CommitDeletes

LEMMA InBelow ==
    ASSUME NEW N, N \subseteq Nodes, NEW n
    PROVE  /\ n \in Below(N) <=> \E e \in N : n \in Subtree[e]
           /\ n \in Below(N) => n \in Nodes
BY SubtreeNodes DEF Below

(* What is moved goes down with its subtree, and so does what is deleted.  *)
LEMMA BelowClosed ==
    ASSUME NEW N, N \subseteq Nodes, NEW n \in Below(N), NEW m \in Subtree[n]
    PROVE  m \in Below(N)
<1>1. PICK e \in N : n \in Subtree[e]
  BY InBelow
<1>2. e \in Nodes /\ n \in Nodes
  BY <1>1, SubtreeNodes
<1>3. m \in Subtree[e]
  BY <1>1, <1>2, TreeAssumption
<1> QED
  BY <1>3, InBelow

LEMMA MovedBelow ==
    ASSUME NEW n \in Nodes
    PROVE  /\ n \in Moved <=> \E e \in Edits \ Merged : e \in UpTo(n)
           /\ n \in Gone <=> \E e \in CommitDeletes : e \in UpTo(n)
<1>1. Edits \ Merged \subseteq Nodes /\ CommitDeletes \subseteq Nodes
  BY EditsThere
<1>2. \A e \in Nodes : e \in UpTo(n) <=> n \in Subtree[e]
  BY UpToDef
<1>3. n \in Moved <=> \E e \in Edits \ Merged : n \in Subtree[e]
  BY <1>1, InBelow DEF Moved
<1>4. n \in Gone <=> \E e \in CommitDeletes : n \in Subtree[e]
  BY <1>1, InBelow DEF Gone
<1> QED
  BY <1>1, <1>2, <1>3, <1>4

(* A node that the commit takes away is not in <candidate>.                *)
LEMMA GoneAbsent ==
    ASSUME TypeOK, NEW n \in Gone
    PROVE  n \in Nodes /\ candidate[n] = Absent
<1>1. n \in Nodes
  BY InBelow, EditsThere DEF Gone
<1>2. PICK e \in CommitDeletes : e \in UpTo(n)
  BY <1>1, MovedBelow
<1>3. candidate[e] = Absent
  BY EditsThere
<1> QED
  BY <1>1, <1>2, <1>3, AboveIsThere DEF TypeOK

(* Nothing that is moved is in the place of a node of <running> but below  *)
(* a container that is replaced.                                           *)
LEMMA MovedThere ==
    ASSUME TypeOK, NEW n \in Moved
    PROVE  /\ n \in Nodes
           /\ n \in Below(Replaced) \/ running[n] = Absent
<1>1. n \in Nodes
  BY InBelow, EditsThere DEF Moved
<1>2. PICK e \in Edits \ Merged : e \in UpTo(n)
  BY <1>1, MovedBelow
<1>3. e \in Nodes /\ n \in Subtree[e]
  BY <1>1, <1>2, UpToDef
<1>4. CASE e \in Replaced
  <2>1. Replaced \subseteq Nodes
    BY EditsThere
  <2> QED
    BY <1>1, <1>3, <1>4, <2>1, InBelow
<1>5. CASE running[e] = Absent
  BY <1>1, <1>2, <1>5, AboveIsThere DEF TypeOK
<1> QED
  BY <1>1, <1>2, <1>4, <1>5, EditsThere

LEMMA ReplacedMoved ==
    /\ Replaced \subseteq Moved
    /\ Edits \subseteq Merged \cup Moved
    /\ Moved \subseteq Nodes
<1>1. \A n \in Edits \ Merged : n \in Moved
  BY MovedBelow, EditsThere, UpToDef
<1>2. Replaced \cap Merged = {}
  BY EditsThere
<1>3. Moved \subseteq Nodes
  BY InBelow, EditsThere DEF Moved
<1> QED
  BY <1>1, <1>2, <1>3, EditsThere

(* The trees and slots after a commit, and the marks.                      *)
LEMMA CommitDoes ==
    ASSUME TypeOK, NEW s \in Sessions, Commit(s)
    PROVE  /\ running' = [n \in Nodes |->
                   IF n \in Edits \cup Moved THEN candidate[n]
                   ELSE IF n \in Gone THEN Absent ELSE running[n]]
           /\ plock' = [n \in Nodes |->
                   IF n \in Moved \ Replaced THEN cplock[n]
                   ELSE IF n \in Gone \ Moved THEN {} ELSE plock[n]]
           /\ editop' = [n \in Nodes |->
                   IF n \in Edits \/ Merged \cap Subtree[n] # {} THEN "none"
                   ELSE editop[n]]
           /\ dirty' = dirty \ Edits
           /\ deleted' = deleted \ Edits
           /\ cplock' = [n \in Nodes |->
                   IF n \in Replaced \cup Swapped THEN plock[n] ELSE cplock[n]]
           /\ result' = Repointed
           /\ UNCHANGED <<candidate, locks, last_id>>
           /\ agt_val_check_commit_edits(s)
<1>1. ASSUME NEW n \in Nodes
      PROVE  (CASE n \in Edits \cup Moved -> candidate[n]
                [] n \in Gone -> Absent
                [] OTHER -> running[n])
             = IF n \in Edits \cup Moved THEN candidate[n]
               ELSE IF n \in Gone THEN Absent ELSE running[n]
  <2>1. n \in Gone => candidate[n] = Absent
    BY GoneAbsent
  <2> QED
    BY <2>1
<1>2. ASSUME NEW n \in Nodes
      PROVE  (CASE n \in Moved \ Replaced -> cplock[n]
                [] n \in Gone \ Moved -> {}
                [] OTHER -> plock[n])
             = IF n \in Moved \ Replaced THEN cplock[n]
               ELSE IF n \in Gone \ Moved THEN {} ELSE plock[n]
  OBVIOUS
<1>3. running' = [n \in Nodes |-> CASE n \in Edits \cup Moved -> candidate[n]
                                    [] n \in Gone -> Absent
                                    [] OTHER -> running[n]]
  BY DEF Commit, Moved, Gone
<1>4. plock' = [n \in Nodes |-> CASE n \in Moved \ Replaced -> cplock[n]
                                  [] n \in Gone \ Moved -> {}
                                  [] OTHER -> plock[n]]
  BY DEF Commit, Moved, Gone, Replaced
<1>5. running' = [n \in Nodes |->
                   IF n \in Edits \cup Moved THEN candidate[n]
                   ELSE IF n \in Gone THEN Absent ELSE running[n]]
  BY <1>1, <1>3, Zenon
<1>6. plock' = [n \in Nodes |->
                   IF n \in Moved \ Replaced THEN cplock[n]
                   ELSE IF n \in Gone \ Moved THEN {} ELSE plock[n]]
  BY <1>2, <1>4, Zenon
<1> QED
  BY <1>5, <1>6 DEF Commit, Replaced

(* The tree that a commit makes is a tree: above a node that it adds       *)
(* everything is there, since a node of <candidate> that is not taken, nor *)
(* any above it, is in <running> already.                                  *)
LEMMA CommitConfig ==
    ASSUME TypeOK, MarksAgree, NEW s \in Sessions, Commit(s)
    PROVE  running' \in Config
<1>1. running \in Config /\ candidate \in Config
  BY DEF TypeOK
<1>2. running' = [n \in Nodes |->
                   IF n \in Edits \cup Moved THEN candidate[n]
                   ELSE IF n \in Gone THEN Absent ELSE running[n]]
  BY CommitDoes
<1>3. \A n \in Nodes : running'[n] \in Values[n] \cup {Absent}
  BY <1>1, <1>2, InConfig
<1>4. running' \in [Nodes -> Contents]
  BY <1>2, <1>3 DEF Contents
<1>5. ASSUME NEW n \in Nodes, NEW m \in Subtree[n], running'[m] # Absent
      PROVE  running'[n] # Absent
  <2>1. m \in Nodes /\ n \in UpTo(m)
    BY UpToDef, SubtreeNodes
  <2>2. CASE m \in Edits \cup Moved
    <3>1. candidate[n] # Absent /\ candidate[m] # Absent
      BY <1>1, <1>2, <1>5, <2>1, <2>2, AboveIsThere
    <3>2. CASE n \in Edits \cup Moved
      BY <1>2, <3>1, <3>2
    <3>3. CASE n \notin Edits \cup Moved
      <4>1. PICK e \in Edits : e \in UpTo(m)
        BY <2>1, <2>2, MovedBelow, UpToDef
      <4>2. e \in Nodes /\ e \in Visited
        BY EditsThere
      <4>3. n \in UpTo(e)
        <5>1. e \in UpTo(n) => FALSE
          <6>1. CASE e \in Merged
            <7>1. ASSUME e \in UpTo(n) PROVE n = e
              BY <6>1, <7>1, <4>2, EditsThere, UpToDef, TreeAssumption
            <7> QED
              BY <3>3, <7>1
          <6>2. CASE e \notin Merged
            BY <3>3, <6>2, MovedBelow
          <6> QED
            BY <6>1, <6>2
        <5> QED
          BY <5>1, <2>1, <4>1, Comparable DEF UpTo
      <4>4. n \in Visited
        BY <4>2, <4>3, VisitedAbove
      <4>5. \A a \in UpTo(n) : a \notin Edits
        <5>1. SUFFICES ASSUME NEW a \in UpTo(n), a \in Edits PROVE FALSE
          OBVIOUS
        <5>2. a \in UpTo(e) /\ a \in Nodes /\ n # e
          BY <4>2, <4>3, <3>3, <4>1, UpToTrans
        <5>3. n \in Above(e)
          BY <5>2, <4>3 DEF UpTo
        <5>4. a \in Above(e)
          BY <4>2, <5>3, AboveTrans
        <5>5. ApplyHere(a) /\ ~ApplyHere(a)
          BY <5>1, <5>4 DEF Edits
        <5> QED
          BY <5>5
      <4>6. running[n] # Absent
        BY <4>4, <4>5, NotTaken
      <4>7. n \notin Gone
        BY <3>1, GoneAbsent
      <4> QED
        BY <1>2, <3>3, <4>6, <4>7
    <3> QED
      BY <3>2, <3>3
  <2>3. CASE m \notin Edits \cup Moved
    <3>1. m \notin Gone /\ running[m] # Absent
      BY <1>2, <1>5, <2>1, <2>3
    <3>2. n \notin Moved /\ n \notin Gone
      <4>1. Edits \ Merged \subseteq Nodes /\ CommitDeletes \subseteq Nodes
        BY EditsThere
      <4> QED
        BY <4>1, <2>3, <3>1, BelowClosed DEF Moved, Gone
    <3>3. running[n] # Absent
      BY <1>1, <2>1, <3>1, AboveIsThere
    <3>4. n \in Edits => candidate[n] # Absent
      BY EditsThere
    <3> QED
      BY <1>2, <3>2, <3>3, <3>4
  <2> QED
    BY <2>2, <2>3
<1> QED
  BY <1>3, <1>4, <1>5 DEF Config, IsTree

(* Freeing nodes makes no pointer to <running>.                            *)
LEMMA FreedIs ==
    ASSUME NEW res, NEW N, N \subseteq Nodes, NEW where \in Place,
           NEW b \in Blocks, res[b] \subseteq [node : Nodes, at : Place]
    PROVE  /\ Freed(res, N, where)[b] \subseteq [node : Nodes, at : Place]
           /\ \A p \in Freed(res, N, where)[b] : p.at = "running" =>
                 /\ p \in res[b]
                 /\ where = "running" => p.node \notin N
<1> DEFINE touched == {p.node : p \in res[b] \cap Point(N, where)}
<1>1. Freed(res, N, where)[b] =
        IF res[b] \cap Point(N, where) = {} THEN res[b]
        ELSE (res[b] \ Point(N, where)) \cup Point(touched, "freed")
  BY DEF Freed
<1>2. touched \subseteq Nodes
  OBVIOUS
<1>3. Point(touched, "freed") \subseteq [node : Nodes, at : Place]
  <2> HIDE DEF touched
  <2> QED
    BY <1>2 DEF Point, Place
<1>4. \A p \in Point(touched, "freed") : p.at # "running"
  BY DEF Point
<1>5. ASSUME NEW p \in res[b], p.at = "running", p.node \in N, where = "running"
      PROVE  p \in Point(N, where)
  <2>1. p \in [node : Nodes, at : Place]
    BY <1>5
  <2>2. p = [node |-> p.node, at |-> "running"]
    BY <2>1, <1>5
  <2> QED
    BY <2>2, <1>5 DEF Point
<1> HIDE DEF touched
<1> QED
  BY <1>1, <1>3, <1>4, <1>5

(* What the pointers of a lock to <running> are after a commit.            *)
LEMMA RepointedIs ==
    ASSUME TypeOK
    PROVE  /\ Repointed \in [Blocks -> SUBSET [node : Nodes, at : Place]]
           /\ \A b \in Blocks : \A p \in Repointed[b] : p.at = "running" =>
                 /\ p \in result[b]
                 /\ p.node \notin Gone
                 /\ p.node \notin Below(Replaced) \ Replaced
<1> DEFINE dropped == [b \in Blocks |->
               result[b] \ Point(Below({n \in CommitDeletes : b \in plock[n]}),
                                 "running")]
           swap(p) == IF p.at = "running" /\ p.node \in Swapped
                      THEN [p EXCEPT !.at = "candidate"] ELSE p
           swapped == [b \in Blocks |-> {swap(p) : p \in dropped[b]}]
           gone == Below(CommitDeletes) \cup (Below(Replaced) \ Replaced)
<1>1. Repointed = Freed(swapped, gone, "running")
  BY DEF Repointed
<1>2. result \in [Blocks -> SUBSET [node : Nodes, at : Place]]
  BY DEF TypeOK
<1>3. ASSUME NEW b \in Blocks
      PROVE  /\ swapped[b] \subseteq [node : Nodes, at : Place]
             /\ \A p \in swapped[b] : p.at = "running" => p \in result[b]
  <2>1. ASSUME NEW q \in dropped[b]
        PROVE  /\ swap(q) \in [node : Nodes, at : Place]
               /\ swap(q).at = "running" => swap(q) = q
               /\ q \in result[b]
    <3>1. q \in result[b] /\ q \in [node : Nodes, at : Place]
      BY <1>2
    <3>2. CASE q.at = "running" /\ q.node \in Swapped
      <4>1. swap(q) = [q EXCEPT !.at = "candidate"]
        BY <3>2
      <4>2. [q EXCEPT !.at = "candidate"] = [node |-> q.node, at |-> "candidate"]
        BY <3>1
      <4> QED
        BY <3>1, <4>1, <4>2 DEF Place
    <3>3. CASE ~(q.at = "running" /\ q.node \in Swapped)
      BY <3>1, <3>3
    <3> QED
      BY <3>1, <3>2, <3>3
  <2> HIDE DEF dropped, swap
  <2> QED
    BY <2>1
<1>4. gone \subseteq Nodes
  <2>1. Replaced \subseteq Nodes
    BY EditsThere
  <2> QED
    BY <2>1, EditsThere, InBelow
<1> HIDE DEF swapped, gone, dropped
<1>5. ASSUME NEW b \in Blocks
      PROVE  /\ Freed(swapped, gone, "running")[b] \subseteq [node : Nodes, at : Place]
             /\ \A p \in Freed(swapped, gone, "running")[b] : p.at = "running" =>
                   p \in swapped[b] /\ p.node \notin gone
  <2>1. "running" \in Place
    BY DEF Place
  <2> QED
    BY <1>3, <1>4, <2>1, FreedIs
<1>6. Repointed \in [Blocks -> SUBSET [node : Nodes, at : Place]]
  <2>1. Freed(swapped, gone, "running") =
          [b \in Blocks |-> Freed(swapped, gone, "running")[b]]
    BY DEF Freed
  <2> QED
    BY <1>1, <1>5, <2>1
<1>7. \A n : n \notin gone => n \notin Gone /\ n \notin Below(Replaced) \ Replaced
  BY DEF gone, Gone
<1> QED
  BY <1>1, <1>3, <1>5, <1>6, <1>7

-----------------------------------------------------------------------------
(* Locking and unlocking.                                                  *)

(* A new id is in range, and past those that are held.                     *)
LEMMA NextIdIs ==
    ASSUME PlockInv, NEW i \in NextId
    PROVE  i \in 1 .. MaxId /\ (i = last_id + 1 \/ plockQ = {})
BY BoundAssumption DEF PlockInv, TypeOK, LocksTracked, NextId

LEMMA LockKeeps ==
    ASSUME PlockInv, NEW s \in Sessions, NEW R \in SUBSET Present(running),
           NEW b \in Blocks, PartialLock(s, R, b)
    PROVE  PlockInv'
<1> DEFINE final == plock_make_final_result(R)
<1>1. final \subseteq Nodes /\ \A n \in final : running[n] # Absent
  BY DEF plock_make_final_result, Present
<1>2. b \notin plockQ /\ Grantable(s, final)
  BY DEF PartialLock
<1>3. PICK i \in NextId : last_id' = i /\ plock_id' = [plock_id EXCEPT ![b] = i]
  BY DEF PartialLock
<1>4. /\ plockQ' = plockQ \cup {b}
      /\ sid' = [sid EXCEPT ![b] = s]
      /\ result' = [result EXCEPT ![b] = Point(final, "running")]
      /\ plock' = [n \in Nodes |-> IF n \in final THEN plock[n] \cup {b}
                                   ELSE plock[n]]
      /\ cfg_state' = "plock"
      /\ running' = running /\ candidate' = candidate /\ editop' = editop
      /\ dirty' = dirty /\ deleted' = deleted /\ cplock' = cplock
  BY DEF PartialLock, cand
<1>5. i \in 1 .. MaxId /\ (i = last_id + 1 \/ plockQ = {}) /\ i \in Nat
  BY NextIdIs, BoundAssumption
<1>6. ASSUME NEW n \in final
      PROVE  Cardinality(plock[n]) < MaxSlots
  BY <1>1, <1>2, <1>6, SubtreeNodes
     DEF Grantable, val_ok_to_partial_lock, Present
<1>7. ASSUME NEW n \in Nodes
      PROVE  IsFiniteSet(plock'[n]) /\ Cardinality(plock'[n]) <= MaxSlots
  <2>1. /\ IsFiniteSet(plock[n]) /\ Cardinality(plock[n]) <= MaxSlots
        /\ Cardinality(plock[n]) \in Nat /\ MaxSlots \in Nat
    BY FS_CardinalityType, BoundAssumption DEF PlockInv, TypeOK, SlotSizes
  <2>2. CASE n \in final
    <3>1. plock'[n] = plock[n] \cup {b}
      BY <1>4, <2>2
    <3>2. /\ IsFiniteSet(plock[n] \cup {b})
          /\ Cardinality(plock[n] \cup {b}) =
                IF b \in plock[n] THEN Cardinality(plock[n])
                ELSE Cardinality(plock[n]) + 1
      BY <2>1, FS_AddElement
    <3> QED
      BY <1>6, <2>1, <2>2, <3>1, <3>2
  <2>3. CASE n \notin final
    BY <1>4, <2>1, <2>3
  <2> QED
    BY <2>2, <2>3
<1>8. Point(final, "running") \subseteq [node : Nodes, at : Place]
  BY <1>1 DEF Point, Place
<1>9. TypeOK'
  <2>1. plock' \in [Nodes -> SUBSET Blocks]
    BY <1>4 DEF PlockInv, TypeOK
  <2>2. \A n \in Nodes \ Present(running) : plock'[n] = {}
    BY <1>1, <1>4 DEF PlockInv, TypeOK, Present
  <2>3. plock_id' \in [Blocks -> 0..MaxId] /\ last_id' \in 0..MaxId
    BY <1>3, <1>5 DEF PlockInv, TypeOK
  <2>4. result' \in [Blocks -> SUBSET [node : Nodes, at : Place]]
    <3> HIDE DEF final
    <3> QED
      BY <1>4, <1>8 DEF PlockInv, TypeOK
  <2>5. plockQ' \subseteq Blocks /\ sid' \in [Blocks -> Sessions \cup {Nobody}]
    BY <1>4 DEF PlockInv, TypeOK
  <2> QED
    BY <1>4, <1>7, <2>1, <2>2, <2>3, <2>4, <2>5 DEF PlockInv, TypeOK, Present
<1>10. SlotSizes'
  BY <1>4, <1>7 DEF PlockInv, SlotSizes
<1>11. MarksAgree'
  BY <1>4 DEF PlockInv, MarksAgree, Present
<1>12. plock_id'[b] = i /\ \A c \in plockQ : plock_id'[c] = plock_id[c]
  BY <1>2, <1>3 DEF PlockInv, TypeOK
<1>13. \A c \in plockQ : plock_id[c] \in 1 .. last_id
  BY DEF PlockInv, IdsCounted
<1>14. last_id \in Nat
  BY BoundAssumption DEF PlockInv, TypeOK
<1>15. IdsCounted'
  BY <1>3, <1>4, <1>5, <1>12, <1>13, <1>14 DEF IdsCounted
<1>16. LocksTracked'
  <2>1. \A c \in plockQ : plock_id[c] # i
    BY <1>5, <1>13, <1>14
  <2>2. \A c, d \in plockQ : plock_id[c] = plock_id[d] => c = d
    BY DEF PlockInv, LocksTracked
  <2> QED
    BY <1>4, <1>12, <2>1, <2>2 DEF LocksTracked
<1>17. ReportedLocked'
  <2>1. ASSUME NEW c \in plockQ', NEW p \in result'[c], p.at = "running"
        PROVE  c \in plock'[p.node]
    <3>1. CASE c = b
      <4>1. result'[b] = Point(final, "running")
        BY <1>4 DEF PlockInv, TypeOK
      <4>2. p.node \in final
        BY <3>1, <4>1, <2>1 DEF Point
      <4> QED
        BY <1>1, <1>4, <3>1, <4>2
    <3>2. CASE c # b
      <4>1. c \in plockQ /\ c \in Blocks /\ result'[c] = result[c]
        BY <1>4, <2>1, <3>2 DEF PlockInv, TypeOK
      <4>2. p.node \in Nodes /\ c \in plock[p.node]
        BY <4>1, <2>1 DEF PlockInv, TypeOK, ReportedLocked
      <4> QED
        BY <1>4, <4>2
    <3> QED
      BY <3>1, <3>2
  <2> QED
    BY <2>1 DEF ReportedLocked
<1> QED
  BY <1>9, <1>10, <1>11, <1>15, <1>16, <1>17 DEF PlockInv

LEMMA DeniedKeeps ==
    ASSUME PlockInv, NEW s \in Sessions, NEW R \in SUBSET Present(running),
           PartialLockDenied(s, R)
    PROVE  PlockInv'
<1>1. last_id' \in NextId
  BY DEF PartialLockDenied
<1>2. /\ running' = running /\ plock' = plock /\ candidate' = candidate
      /\ editop' = editop /\ dirty' = dirty /\ deleted' = deleted
      /\ cplock' = cplock /\ plockQ' = plockQ /\ sid' = sid
      /\ plock_id' = plock_id /\ cfg_state' = cfg_state /\ result' = result
  BY DEF PartialLockDenied, tree, cand, locks
<1>3. last_id' \in 1 .. MaxId /\ (last_id' = last_id + 1 \/ plockQ = {})
  BY <1>1, NextIdIs
<1>4. last_id \in Nat
  BY BoundAssumption DEF PlockInv, TypeOK
<1>5. TypeOK'
  BY <1>2, <1>3 DEF PlockInv, TypeOK, Present
<1>6. IdsCounted'
  <2>1. \A c \in plockQ : plock_id[c] \in 1 .. last_id
    BY DEF PlockInv, IdsCounted
  <2> QED
    BY <1>2, <1>3, <1>4, <2>1, BoundAssumption DEF IdsCounted
<1>7. SlotSizes' /\ LocksTracked' /\ ReportedLocked'
  BY <1>2 DEF PlockInv, SlotSizes, LocksTracked, ReportedLocked
<1>8. MarksAgree'
  BY <1>2 DEF PlockInv, MarksAgree, Present
<1> QED
  BY <1>5, <1>6, <1>7, <1>8 DEF PlockInv

(* Locks that are released, by a request or with their session.            *)
LEMMA DropKeeps ==
    ASSUME PlockInv, NEW B \in SUBSET plockQ, Drop(B),
           cfg_state' \in {"ready", "plock"},
           plockQ' # {} => cfg_state' = "plock"
    PROVE  PlockInv'
<1>1. /\ plockQ' = plockQ \ B
      /\ plock' = [n \in Nodes |->
                      plock[n] \ {b \in B : n \in val_clear_partial_lock(b)}]
      /\ result' = [b \in Blocks |-> IF b \in B THEN {} ELSE result[b]]
      /\ sid' = [b \in Blocks |-> IF b \in B THEN Nobody ELSE sid[b]]
      /\ plock_id' = [b \in Blocks |-> IF b \in B THEN 0 ELSE plock_id[b]]
      /\ running' = running /\ candidate' = candidate /\ editop' = editop
      /\ dirty' = dirty /\ deleted' = deleted /\ cplock' = cplock
      /\ last_id' = last_id
  BY DEF Drop, cand
<1>2. \A n \in Nodes : /\ plock'[n] \subseteq plock[n]
                       /\ plock[n] \ plock'[n] \subseteq B
  BY <1>1
<1>3. ASSUME NEW n \in Nodes
      PROVE  IsFiniteSet(plock'[n]) /\ Cardinality(plock'[n]) <= MaxSlots
  <2>1. /\ IsFiniteSet(plock[n]) /\ Cardinality(plock[n]) <= MaxSlots
        /\ Cardinality(plock[n]) \in Nat /\ MaxSlots \in Nat
    BY FS_CardinalityType, BoundAssumption DEF PlockInv, TypeOK, SlotSizes
  <2>2. IsFiniteSet(plock'[n]) /\ Cardinality(plock'[n]) <= Cardinality(plock[n])
    BY <1>2, <2>1, FS_Subset
  <2>3. Cardinality(plock'[n]) \in Nat
    BY <2>2, FS_CardinalityType
  <2> QED
    BY <2>1, <2>2, <2>3
<1>4. TypeOK'
  <2>1. plock' \in [Nodes -> SUBSET Blocks]
    BY <1>1 DEF PlockInv, TypeOK
  <2>2. \A n \in Nodes \ Present(running) : plock'[n] = {}
    BY <1>1 DEF PlockInv, TypeOK
  <2>3. /\ plock_id' \in [Blocks -> 0..MaxId] /\ plockQ' \subseteq Blocks
        /\ sid' \in [Blocks -> Sessions \cup {Nobody}]
        /\ result' \in [Blocks -> SUBSET [node : Nodes, at : Place]]
    BY <1>1, BoundAssumption DEF PlockInv, TypeOK
  <2> QED
    BY <1>1, <1>3, <2>1, <2>2, <2>3 DEF PlockInv, TypeOK, Present
<1>5. SlotSizes'
  BY <1>1, <1>3 DEF PlockInv, SlotSizes
<1>6. MarksAgree'
  BY <1>1 DEF PlockInv, MarksAgree, Present
<1>7. \A b \in plockQ' : /\ b \in plockQ /\ b \notin B /\ b \in Blocks
                         /\ plock_id'[b] = plock_id[b] /\ result'[b] = result[b]
  BY <1>1 DEF PlockInv, TypeOK
<1>8. IdsCounted'
  BY <1>1, <1>7 DEF PlockInv, IdsCounted
<1>9. LocksTracked'
  BY <1>7 DEF PlockInv, LocksTracked
<1>10. ReportedLocked'
  <2>1. ASSUME NEW b \in plockQ', NEW p \in result'[b], p.at = "running"
        PROVE  b \in plock'[p.node]
    <3>1. p.node \in Nodes /\ b \in plock[p.node]
      BY <1>7, <2>1 DEF PlockInv, TypeOK, ReportedLocked
    <3> QED
      BY <1>2, <1>7, <3>1
  <2> QED
    BY <2>1 DEF ReportedLocked
<1> QED
  BY <1>4, <1>5, <1>6, <1>8, <1>9, <1>10 DEF PlockInv

LEMMA UnlockKeeps ==
    ASSUME PlockInv, NEW s \in Sessions, NEW b \in Blocks, PartialUnlock(s, b)
    PROVE  PlockInv'
<1>1. {b} \in SUBSET plockQ /\ Drop({b})
  BY DEF PartialUnlock
<1>2. cfg_state' = IF plockQ' = {} THEN "ready" ELSE "plock"
  BY DEF PartialUnlock
<1> QED
  BY <1>1, <1>2, DropKeeps

LEMMA EndKeeps ==
    ASSUME PlockInv, NEW s \in Sessions, EndSession(s)
    PROVE  PlockInv'
<1>1. Held(s) \in SUBSET plockQ /\ Drop(Held(s)) /\ cfg_state' = cfg_state
  BY DEF EndSession, Held
<1>2. plockQ' \subseteq plockQ
  BY <1>1 DEF Drop
<1>3. cfg_state \in {"ready", "plock"} /\ (plockQ # {} => cfg_state = "plock")
  BY DEF PlockInv, TypeOK, LocksTracked
<1> QED
  BY <1>1, <1>2, <1>3, DropKeeps

-----------------------------------------------------------------------------
(* Edits of <candidate>.                                                   *)

(* An edit leaves the locks alone.                                         *)
LEMMA EditKeepsLocks ==
    ASSUME PlockInv, UNCHANGED <<tree, locks, last_id>>,
           \A b \in Blocks : \A p \in result'[b] : p.at = "running" => p \in result[b]
    PROVE  IdsCounted' /\ LocksTracked' /\ ReportedLocked'
<1>1. /\ plock' = plock /\ plockQ' = plockQ /\ plock_id' = plock_id
      /\ cfg_state' = cfg_state /\ last_id' = last_id
  BY DEF tree, locks
<1>2. IdsCounted' /\ LocksTracked'
  BY <1>1 DEF PlockInv, IdsCounted, LocksTracked
<1>3. ReportedLocked'
  <2>1. plockQ \subseteq Blocks
    BY DEF PlockInv, TypeOK
  <2> QED
    BY <1>1, <2>1 DEF PlockInv, ReportedLocked
<1> QED
  BY <1>2, <1>3

LEMMA MergeLeafKeeps ==
    ASSUME PlockInv, NEW s \in Sessions, NEW n \in Leaves,
           NEW v \in Values[n], MergeLeaf(s, n, v)
    PROVE  PlockInv'
<1>1. n \in Nodes /\ v # Absent /\ Subtree[n] = {n} /\ v \in Contents
  BY TreeAssumption DEF Contents
<1>2. /\ candidate' = [candidate EXCEPT ![n] = v]
      /\ editop' = [editop EXCEPT ![n] =
                       IF candidate[n] = Absent THEN "merge" ELSE editop[n]]
      /\ dirty' = dirty \cup {n} /\ deleted' = deleted /\ cplock' = cplock
      /\ running' = running /\ plock' = plock /\ plockQ' = plockQ
      /\ sid' = sid /\ plock_id' = plock_id /\ cfg_state' = cfg_state
      /\ result' = result /\ last_id' = last_id
      /\ Parented(candidate, n)
  BY DEF MergeLeaf, tree, locks, PlockInv, TypeOK
<1>3. candidate \in Config /\ candidate \in [Nodes -> Contents]
  BY DEF PlockInv, TypeOK, Config
<1>4. /\ candidate'[n] = v
      /\ \A m \in Nodes : m # n => candidate'[m] = candidate[m]
  BY <1>1, <1>2, <1>3
<1>5. candidate' \in Config
  <2>1. \A m \in Nodes : candidate'[m] \in Values[m] \cup {Absent}
    BY <1>3, <1>4, InConfig
  <2>2. ASSUME NEW k \in Nodes, NEW m \in Subtree[k], candidate'[k] = Absent
        PROVE  candidate'[m] = Absent
    <3>1. m \in Nodes /\ k # n
      BY <1>1, <1>4, <2>2, SubtreeNodes
    <3>2. CASE m = n
      <4>1. k \in Above(n)
        BY <1>1, <2>2, <3>1, <3>2, UpToDef
      <4>2. candidate[k] # Absent
        BY <1>2, <4>1 DEF Parented
      <4> QED
        BY <1>4, <2>2, <3>1, <4>2
    <3>3. CASE m # n
      BY <1>3, <1>4, <2>2, <3>1, <3>3 DEF Config, IsTree
    <3> QED
      BY <3>2, <3>3
  <2> QED
    BY <1>1, <1>2, <1>3, <2>1, <2>2 DEF Config, IsTree
<1>6. Present(candidate') = Present(candidate) \cup {n}
  BY <1>1, <1>4 DEF Present
<1>7. editop' \in [Nodes -> EditOp]
  BY <1>1, <1>2 DEF PlockInv, TypeOK, EditOp
<1>8. \A m \in Nodes : m # n => editop'[m] = editop[m]
  BY <1>2 DEF PlockInv, TypeOK
<1>9. TypeOK'
  <2>1. dirty' \subseteq Present(candidate')
    BY <1>2, <1>6 DEF PlockInv, TypeOK
  <2>2. deleted' \subseteq dirty' \ Leaves
    BY <1>2 DEF PlockInv, TypeOK
  <2>3. \A m \in Nodes \ Present(candidate') :
           cplock'[m] = {} /\ editop'[m] = "none"
    BY <1>2, <1>6, <1>8 DEF PlockInv, TypeOK
  <2> QED
    BY <1>2, <1>5, <1>7, <2>1, <2>2, <2>3 DEF PlockInv, TypeOK, Present
<1>10. SlotSizes'
  BY <1>2 DEF PlockInv, SlotSizes
<1>11. MarksAgree'
  <2> SUFFICES ASSUME NEW m \in Present(candidate'),
                      \A a \in UpTo(m) : editop'[a] = "none"
               PROVE  /\ running'[m] # Absent
                      /\ \/ m \in Leaves \cap dirty'
                         \/ candidate'[m] = running'[m]
    BY DEF MarksAgree, Present
  <2>1. m \in Nodes /\ UpTo(m) \subseteq Nodes /\ m \in UpTo(m)
    BY UpToDef DEF Present
  <2>2. \A a \in UpTo(m) : a # n => editop[a] = "none"
    BY <1>8, <2>1
  <2>3. CASE m = n
    <3>1. candidate[n] # Absent /\ editop[n] = "none"
      <4>1. editop'[n] = IF candidate[n] = Absent THEN "merge" ELSE editop[n]
        BY <1>1, <1>2 DEF PlockInv, TypeOK
      <4> QED
        BY <4>1, <2>1, <2>3
    <3>2. \A a \in UpTo(m) : editop[a] = "none"
      BY <2>2, <2>3, <3>1
    <3>3. running[n] # Absent
      BY <2>3, <3>1, <3>2, <1>1 DEF PlockInv, MarksAgree, Present
    <3> QED
      BY <1>2, <2>3, <3>3
  <2>4. CASE m # n
    <3>1. n \notin UpTo(m)
      BY <1>1, <2>1, <2>4, UpToDef
    <3>2. m \in Present(candidate) /\ \A a \in UpTo(m) : editop[a] = "none"
      BY <1>6, <2>2, <2>4, <3>1
    <3> QED
      BY <1>2, <1>4, <2>1, <2>4, <3>2 DEF PlockInv, MarksAgree
  <2> QED
    BY <2>3, <2>4
<1>12. IdsCounted' /\ LocksTracked' /\ ReportedLocked'
  BY <1>2, EditKeepsLocks DEF tree, locks
<1> QED
  BY <1>9, <1>10, <1>11, <1>12 DEF PlockInv

(* A subtree of <candidate> that is replaced by contents of a message, or  *)
(* by nothing: what the new nodes have is marked by their operation.       *)
LEMMA NewSubtreeKeeps ==
    ASSUME PlockInv, NEW n \in Nodes, NEW c, NEW op \in EditOp,
           NewSubtree(n, c, op),
           \A m \in Subtree[n] : c[m] \in Values[m] \cup {Absent},
           IsTree(c, Subtree[n]),
           \A m \in Subtree[n] : c[m] = Absent \/ op # "none",
           c[n] = Absent \/ Parented(candidate, n),
           dirty \ Subtree[n] \subseteq dirty',
           dirty' \subseteq Present(candidate'),
           deleted' \subseteq dirty' \ Leaves
    PROVE  PlockInv'
<1>1. /\ candidate' = [m \in Nodes |-> IF m \in Subtree[n] THEN c[m]
                                      ELSE candidate[m]]
      /\ editop' = [m \in Nodes |->
                     IF m \in Subtree[n] THEN IF c[m] = Absent THEN "none" ELSE op
                     ELSE editop[m]]
      /\ cplock' = [m \in Nodes |-> IF m \in Subtree[n] THEN {} ELSE cplock[m]]
      /\ result' = Freed(result, Subtree[n], "candidate")
      /\ running' = running /\ plock' = plock /\ plockQ' = plockQ
      /\ sid' = sid /\ plock_id' = plock_id /\ cfg_state' = cfg_state
      /\ last_id' = last_id
  BY DEF NewSubtree, tree, locks
<1>2. Subtree[n] \subseteq Nodes /\ n \in Subtree[n]
  BY SubtreeNodes
<1>3. candidate \in Config
  BY DEF PlockInv, TypeOK
<1>4. candidate' \in Config
  <2>1. \A m \in Nodes : candidate'[m] \in Values[m] \cup {Absent}
    BY <1>1, <1>3, InConfig
  <2>2. ASSUME NEW k \in Nodes, NEW m \in Subtree[k], candidate'[k] = Absent
        PROVE  candidate'[m] = Absent
    <3>1. m \in Nodes
      BY SubtreeNodes
    <3>2. CASE k \in Subtree[n]
      <4>1. m \in Subtree[n]
        BY <1>2, <3>2, TreeAssumption
      <4> QED
        BY <1>1, <2>2, <3>1, <3>2, <4>1 DEF IsTree
    <3>3. CASE k \notin Subtree[n]
      <4>1. candidate[k] = Absent
        BY <1>1, <2>2, <3>3
      <4>2. CASE m \in Subtree[n]
        <5>1. n \in Subtree[k]
          BY <3>3, <4>2, TreeAssumption
        <5>2. k \in Above(n)
          BY <1>2, <3>3, <5>1, UpToDef
        <5>3. c[n] = Absent
          BY <4>1, <5>2 DEF Parented
        <5>4. c[m] = Absent
          BY <1>2, <4>2, <5>3 DEF IsTree
        <5> QED
          BY <1>1, <3>1, <4>2, <5>4
      <4>3. CASE m \notin Subtree[n]
        BY <1>1, <1>3, <3>1, <4>1, <4>3 DEF Config, IsTree
      <4> QED
        BY <4>2, <4>3
    <3> QED
      BY <3>2, <3>3
  <2>3. candidate' \in [Nodes -> Contents]
    BY <1>1, <2>1 DEF Contents
  <2> QED
    BY <2>1, <2>2, <2>3 DEF Config, IsTree
<1>5. editop' \in [Nodes -> EditOp]
  BY <1>1 DEF PlockInv, TypeOK, EditOp
<1>6. ASSUME NEW m \in Nodes
      PROVE  IsFiniteSet(cplock'[m]) /\ Cardinality(cplock'[m]) <= MaxSlots
  <2>1. IsFiniteSet({}) /\ Cardinality({}) = 0
    BY FS_EmptySet
  <2>2. 0 <= MaxSlots
    BY BoundAssumption
  <2>3. CASE m \in Subtree[n]
    BY <1>1, <2>1, <2>2, <2>3
  <2>4. CASE m \notin Subtree[n]
    BY <1>1, <2>4 DEF PlockInv, SlotSizes
  <2> QED
    BY <2>3, <2>4
<1>7. ASSUME NEW b \in Blocks
      PROVE  /\ result'[b] \subseteq [node : Nodes, at : Place]
             /\ \A p \in result'[b] : p.at = "running" => p \in result[b]
  <2>1. result[b] \subseteq [node : Nodes, at : Place] /\ "candidate" \in Place
    BY DEF PlockInv, TypeOK, Place
  <2> QED
    BY <1>1, <1>2, <2>1, FreedIs
<1>8. TypeOK'
  <2>1. result' \in [Blocks -> SUBSET [node : Nodes, at : Place]]
    <3>1. result' = [b \in Blocks |-> result'[b]]
      BY <1>1 DEF Freed
    <3> QED
      BY <1>7, <3>1
  <2>2. cplock' \in [Nodes -> SUBSET Blocks]
    BY <1>1 DEF PlockInv, TypeOK
  <2>3. ASSUME NEW m \in Nodes \ Present(candidate')
        PROVE  cplock'[m] = {} /\ editop'[m] = "none"
    <3>1. candidate'[m] = Absent
      BY <2>3 DEF Present
    <3>2. CASE m \in Subtree[n]
      BY <1>1, <3>1, <3>2
    <3>3. CASE m \notin Subtree[n]
      <4>1. candidate[m] = Absent
        BY <1>1, <3>1, <3>3
      <4> QED
        BY <1>1, <3>3, <4>1 DEF PlockInv, TypeOK, Present
    <3> QED
      BY <3>2, <3>3
  <2> QED
    BY <1>1, <1>4, <1>5, <2>1, <2>2, <2>3 DEF PlockInv, TypeOK, Present
<1>9. SlotSizes'
  BY <1>1, <1>6 DEF PlockInv, SlotSizes
<1>10. MarksAgree'
  <2> SUFFICES ASSUME NEW m \in Present(candidate'),
                      \A a \in UpTo(m) : editop'[a] = "none"
               PROVE  /\ running'[m] # Absent
                      /\ \/ m \in Leaves \cap dirty'
                         \/ candidate'[m] = running'[m]
    BY DEF MarksAgree, Present
  <2>1. m \in Nodes /\ UpTo(m) \subseteq Nodes /\ m \in UpTo(m)
    BY UpToDef DEF Present
  <2>2. m \notin Subtree[n]
    <3>1. candidate'[m] # Absent /\ editop'[m] = "none"
      BY <2>1 DEF Present
    <3> QED
      BY <1>1, <2>1, <3>1
  <2>3. \A a \in UpTo(m) : a \notin Subtree[n]
    BY <2>1, <2>2, UpToDef, TreeAssumption
  <2>4. \A a \in UpTo(m) : editop[a] = "none"
    BY <1>1, <2>1, <2>3
  <2>5. candidate'[m] = candidate[m] /\ m \in Present(candidate)
    BY <1>1, <2>1, <2>2 DEF Present
  <2>6. m \in dirty => m \in dirty'
    BY <2>2
  <2> QED
    BY <1>1, <2>4, <2>5, <2>6 DEF PlockInv, MarksAgree
<1>11. IdsCounted' /\ LocksTracked' /\ ReportedLocked'
  BY <1>1, <1>7, EditKeepsLocks DEF tree, locks
<1> QED
  BY <1>8, <1>9, <1>10, <1>11 DEF PlockInv

LEMMA ConfigBelow ==
    ASSUME NEW c \in Config, NEW n \in Nodes
    PROVE  /\ \A m \in Subtree[n] : c[m] \in Values[m] \cup {Absent}
           /\ IsTree(c, Subtree[n])
<1>1. Subtree[n] \subseteq Nodes
  BY SubtreeNodes
<1> QED
  BY <1>1 DEF Config, IsTree

LEMMA MergeSubtreeKeeps ==
    ASSUME PlockInv, NEW n \in Nodes, NEW c \in Config, MergeSubtree(n, c)
    PROVE  PlockInv'
<1>1. /\ candidate[n] = Absent /\ Parented(candidate, n) /\ c[n] # Absent
      /\ NewSubtree(n, c, "merge") /\ dirty' = dirty \cup {n}
      /\ deleted' = deleted /\ n \notin Leaves
  BY DEF MergeSubtree
<1>2. candidate' = [m \in Nodes |-> IF m \in Subtree[n] THEN c[m]
                                    ELSE candidate[m]]
  BY <1>1 DEF NewSubtree
<1>3. Subtree[n] \subseteq Nodes /\ n \in Subtree[n]
  BY SubtreeNodes
<1>4. \A m \in Subtree[n] : candidate[m] = Absent
  BY <1>1 DEF PlockInv, TypeOK, Config, IsTree
<1>5. dirty' \subseteq Present(candidate')
  BY <1>1, <1>2, <1>3, <1>4 DEF PlockInv, TypeOK, Present
<1>6. deleted' \subseteq dirty' \ Leaves
  BY <1>1 DEF PlockInv, TypeOK
<1>7. "merge" \in EditOp /\ dirty \ Subtree[n] \subseteq dirty'
  BY <1>1 DEF EditOp
<1> QED
  BY <1>1, <1>5, <1>6, <1>7, ConfigBelow, NewSubtreeKeeps

LEMMA ReplaceSubtreeKeeps ==
    ASSUME PlockInv, NEW s \in Sessions, NEW n \in Nodes, NEW c \in Config,
           ReplaceSubtree(s, n, c)
    PROVE  PlockInv'
<1>1. /\ Parented(candidate, n) /\ c[n] # Absent /\ n \notin Leaves
      /\ NewSubtree(n, c, "replace") /\ dirty' = (dirty \ Subtree[n]) \cup {n}
      /\ deleted' = deleted \ Subtree[n]
  BY DEF ReplaceSubtree
<1>2. candidate' = [m \in Nodes |-> IF m \in Subtree[n] THEN c[m]
                                    ELSE candidate[m]]
  BY <1>1 DEF NewSubtree
<1>3. Subtree[n] \subseteq Nodes /\ n \in Subtree[n]
  BY SubtreeNodes
<1>4. dirty' \subseteq Present(candidate')
  BY <1>1, <1>2, <1>3 DEF PlockInv, TypeOK, Present
<1>5. deleted' \subseteq dirty' \ Leaves
  BY <1>1 DEF PlockInv, TypeOK
<1>6. "replace" \in EditOp /\ dirty \ Subtree[n] \subseteq dirty'
  BY <1>1 DEF EditOp
<1> QED
  BY <1>1, <1>4, <1>5, <1>6, ConfigBelow, NewSubtreeKeeps

LEMMA DeleteKeeps ==
    ASSUME PlockInv, NEW s \in Sessions, NEW n \in Nodes, Delete(s, n)
    PROVE  PlockInv'
<1> DEFINE nothing == [m \in Nodes |-> Absent]
<1>1. /\ candidate[n] # Absent
      /\ NewSubtree(n, nothing, "none")
      /\ dirty' = (dirty \ Subtree[n]) \cup Parents(n)
      /\ deleted' = (deleted \ Subtree[n]) \cup Parents(n)
  BY DEF Delete
<1>2. candidate' = [m \in Nodes |-> IF m \in Subtree[n] THEN nothing[m]
                                    ELSE candidate[m]]
  BY <1>1 DEF NewSubtree
<1>3. Subtree[n] \subseteq Nodes /\ n \in Subtree[n]
  BY SubtreeNodes
<1>4. ASSUME NEW a \in Parents(n)
      PROVE  a \in Nodes \ Subtree[n] /\ candidate[a] # Absent /\ a \notin Leaves
  <2>1. a \in Above(n)
    BY DEF Parents
  <2>2. a \in Nodes /\ a # n /\ n \in Subtree[a]
    BY <2>1 DEF Above
  <2>3. a \notin Subtree[n] /\ a \notin Leaves
    BY <2>2, TreeAssumption
  <2>4. candidate[a] # Absent
    BY <1>1, <2>1, AboveIsThere DEF UpTo, PlockInv, TypeOK
  <2> QED
    BY <2>2, <2>3, <2>4
<1>5. dirty' \subseteq Present(candidate')
  BY <1>1, <1>2, <1>4 DEF PlockInv, TypeOK, Present
<1>6. deleted' \subseteq dirty' \ Leaves
  BY <1>1, <1>4 DEF PlockInv, TypeOK
<1>7. "none" \in EditOp /\ dirty \ Subtree[n] \subseteq dirty'
  BY <1>1 DEF EditOp
<1>8. /\ \A m \in Subtree[n] : nothing[m] = Absent
      /\ IsTree(nothing, Subtree[n])
  <2>1. \A k \in Subtree[n] : Subtree[k] \subseteq Nodes
    BY <1>3, SubtreeNodes
  <2> QED
    BY <1>3, <2>1 DEF IsTree
<1> HIDE DEF nothing
<1> QED
  BY <1>1, <1>3, <1>5, <1>6, <1>7, <1>8, NewSubtreeKeeps

LEMMA DiscardKeeps ==
    ASSUME PlockInv, DiscardChanges
    PROVE  PlockInv'
<1>1. /\ candidate' = running /\ editop' = NoOps /\ dirty' = {} /\ deleted' = {}
      /\ cplock' = plock /\ result' = Freed(result, Nodes, "candidate")
      /\ running' = running /\ plock' = plock /\ plockQ' = plockQ
      /\ sid' = sid /\ plock_id' = plock_id /\ cfg_state' = cfg_state
      /\ last_id' = last_id
  BY DEF DiscardChanges, tree, locks
<1>2. ASSUME NEW b \in Blocks
      PROVE  /\ result'[b] \subseteq [node : Nodes, at : Place]
             /\ \A p \in result'[b] : p.at = "running" => p \in result[b]
  <2>1. result[b] \subseteq [node : Nodes, at : Place] /\ "candidate" \in Place
    BY DEF PlockInv, TypeOK, Place
  <2> QED
    BY <1>1, <2>1, FreedIs
<1>3. result' \in [Blocks -> SUBSET [node : Nodes, at : Place]]
  <2>1. result' = [b \in Blocks |-> result'[b]]
    BY <1>1 DEF Freed
  <2> QED
    BY <1>2, <2>1
<1>4. TypeOK'
  BY <1>1, <1>3 DEF PlockInv, TypeOK, Present, NoOps, EditOp
<1>5. SlotSizes'
  BY <1>1 DEF PlockInv, TypeOK, SlotSizes
<1>6. MarksAgree'
  BY <1>1 DEF MarksAgree, Present
<1>7. IdsCounted' /\ LocksTracked' /\ ReportedLocked'
  BY <1>1, <1>2, EditKeepsLocks DEF tree, locks
<1> QED
  BY <1>4, <1>5, <1>6, <1>7 DEF PlockInv

-----------------------------------------------------------------------------
(* <commit>.                                                               *)

LEMMA CommitKeeps ==
    ASSUME PlockInv, NEW s \in Sessions, Commit(s)
    PROVE  PlockInv'
<1>1. TypeOK /\ MarksAgree
  BY DEF PlockInv
<1>2. /\ running' = [n \in Nodes |->
                 IF n \in Edits \cup Moved THEN candidate[n]
                 ELSE IF n \in Gone THEN Absent ELSE running[n]]
      /\ plock' = [n \in Nodes |->
                 IF n \in Moved \ Replaced THEN cplock[n]
                 ELSE IF n \in Gone \ Moved THEN {} ELSE plock[n]]
      /\ editop' = [n \in Nodes |->
                 IF n \in Edits \/ Merged \cap Subtree[n] # {} THEN "none"
                 ELSE editop[n]]
      /\ dirty' = dirty \ Edits /\ deleted' = deleted \ Edits
      /\ cplock' = [n \in Nodes |->
                 IF n \in Replaced \cup Swapped THEN plock[n] ELSE cplock[n]]
      /\ result' = Repointed
      /\ candidate' = candidate /\ last_id' = last_id /\ plockQ' = plockQ
      /\ sid' = sid /\ plock_id' = plock_id /\ cfg_state' = cfg_state
  BY <1>1, CommitDoes DEF locks
<1>3. running' \in Config
  BY <1>1, CommitConfig
<1>4. ASSUME NEW n \in Nodes
      PROVE  /\ plock'[n] \subseteq Blocks /\ cplock'[n] \subseteq Blocks
             /\ IsFiniteSet(plock'[n]) /\ Cardinality(plock'[n]) <= MaxSlots
             /\ IsFiniteSet(cplock'[n]) /\ Cardinality(cplock'[n]) <= MaxSlots
  <2>1. plock'[n] \in {plock[n], cplock[n], {}}
    BY <1>2
  <2>2. cplock'[n] \in {plock[n], cplock[n]}
    BY <1>2
  <2>3. IsFiniteSet({}) /\ Cardinality({}) = 0 /\ 0 <= MaxSlots
    BY FS_EmptySet, BoundAssumption
  <2>4. /\ IsFiniteSet(plock[n]) /\ Cardinality(plock[n]) <= MaxSlots
        /\ IsFiniteSet(cplock[n]) /\ Cardinality(cplock[n]) <= MaxSlots
        /\ plock[n] \subseteq Blocks /\ cplock[n] \subseteq Blocks
    BY DEF PlockInv, TypeOK, SlotSizes
  <2>5. \A S \in {plock[n], cplock[n], {}} :
           S \subseteq Blocks /\ IsFiniteSet(S) /\ Cardinality(S) <= MaxSlots
    BY <2>3, <2>4
  <2> QED
    BY <2>1, <2>2, <2>5
<1>5. TypeOK'
  <2>1. editop' \in [Nodes -> EditOp]
    BY <1>2 DEF PlockInv, TypeOK, EditOp
  <2>2. /\ plock' \in [Nodes -> SUBSET Blocks]
        /\ cplock' \in [Nodes -> SUBSET Blocks]
    <3>1. plock' = [n \in Nodes |-> plock'[n]] /\ cplock' = [n \in Nodes |-> cplock'[n]]
      BY <1>2
    <3> QED
      BY <1>4, <3>1
  <2>3. ASSUME NEW n \in Nodes \ Present(running')
        PROVE  plock'[n] = {}
    <3>1. running'[n] = Absent
      BY <2>3 DEF Present
    <3>2. CASE n \in Edits \cup Moved
      <4>1. candidate[n] = Absent
        BY <1>2, <3>1, <3>2
      <4>2. n \notin Edits
        BY <4>1, EditsThere
      <4>3. n \in Moved \ Replaced
        BY <3>2, <4>2, EditsThere
      <4>4. cplock[n] = {}
        BY <4>1 DEF PlockInv, TypeOK, Present
      <4> QED
        BY <1>2, <4>3, <4>4
    <3>3. CASE n \in Gone \ Moved
      BY <1>2, <3>3
    <3>4. CASE n \notin Edits \cup Moved \cup Gone
      <4>1. running[n] = Absent
        BY <1>2, <3>1, <3>4
      <4>2. plock[n] = {}
        BY <4>1 DEF PlockInv, TypeOK, Present
      <4> QED
        BY <1>2, <3>4, <4>2
    <3> QED
      BY <3>2, <3>3, <3>4
  <2>4. ASSUME NEW n \in Nodes \ Present(candidate)
        PROVE  cplock'[n] = {} /\ editop'[n] = "none"
    <3>1. n \notin Edits
      BY <2>4, EditsThere DEF Present
    <3>2. Swapped \subseteq Edits /\ Replaced \subseteq Edits
      BY EditsThere DEF Swapped
    <3>3. cplock[n] = {} /\ editop[n] = "none"
      BY <2>4 DEF PlockInv, TypeOK
    <3> QED
      BY <1>2, <3>1, <3>2, <3>3
  <2>5. result' \in [Blocks -> SUBSET [node : Nodes, at : Place]]
    BY <1>1, <1>2, RepointedIs
  <2>6. dirty' \subseteq Present(candidate) /\ deleted' \subseteq dirty' \ Leaves
    BY <1>2 DEF PlockInv, TypeOK
  <2> QED
    BY <1>2, <1>3, <1>4, <2>1, <2>2, <2>3, <2>4, <2>5, <2>6
       DEF PlockInv, TypeOK, Present
<1>6. SlotSizes'
  BY <1>4 DEF SlotSizes
<1>7. MarksAgree'
  <2> SUFFICES ASSUME NEW n \in Present(candidate),
                      \A a \in UpTo(n) : editop'[a] = "none"
               PROVE  /\ running'[n] # Absent
                      /\ \/ n \in Leaves \cap dirty'
                         \/ candidate[n] = running'[n]
    BY <1>2 DEF MarksAgree, Present
  <2>1. /\ n \in Nodes /\ candidate[n] # Absent
        /\ UpTo(n) \subseteq Nodes /\ n \in UpTo(n)
    BY UpToDef DEF Present
  <2>2. CASE n \in Edits \cup Moved
    BY <1>2, <2>1, <2>2
  <2>3. CASE n \notin Edits \cup Moved
    <3>1. n \notin Gone
      BY <1>1, <2>1, GoneAbsent
    <3>2. running'[n] = running[n]
      BY <1>2, <2>1, <2>3, <3>1
    <3>3. \A a \in UpTo(n) : a \notin Edits
      <4>1. SUFFICES ASSUME NEW a \in UpTo(n), a \in Edits PROVE FALSE
        OBVIOUS
      <4>2. a \in Merged
        BY <2>1, <2>3, <4>1, MovedBelow
      <4>3. a = n
        BY <2>1, <4>1, <4>2, EditsThere, UpToDef, TreeAssumption
      <4> QED
        BY <2>3, <4>1, <4>3
    <3>4. CASE \A a \in UpTo(n) : editop[a] = "none"
      <4>1. n \in dirty => n \in dirty'
        BY <1>2, <2>3
      <4> QED
        BY <3>2, <3>4, <4>1 DEF PlockInv, MarksAgree
    <3>5. CASE ~(\A a \in UpTo(n) : editop[a] = "none")
      <4>1. PICK a \in UpTo(n) : editop[a] # "none"
        BY <3>5
      <4>2. a \in Nodes /\ Merged \cap Subtree[a] # {}
        BY <1>2, <2>1, <3>3, <4>1
      <4>3. PICK m \in Merged : m \in Subtree[a]
        BY <4>2
      <4>4. m \in Visited /\ m \in Nodes /\ a \in UpTo(m)
        BY <4>2, <4>3, EditsThere, UpToDef
      <4>5. ASSUME NEW k \in {n} \cup Above(n)
            PROVE  CurEditop(k) # "commit" \/ Subtree[k] \cap dirty # {}
        <5>1. k \in UpTo(n) /\ k \in Nodes
          BY <2>1 DEF UpTo
        <5>2. CASE a \in UpTo(k)
          BY <1>1, <4>1, <5>1, <5>2, CurEditopIs
        <5>3. CASE k \in UpTo(a)
          <6>1. k \in UpTo(m)
            BY <4>4, <5>3, UpToTrans
          <6>2. k \in {m} \cup Above(m)
            BY <6>1 DEF UpTo
          <6>3. \A j \in {m} \cup Above(m) :
                   CurEditop(j) # "commit" \/ Subtree[j] \cap dirty # {}
            BY <4>4, Zenon DEF Visited
          <6> QED
            BY <6>2, <6>3
        <5>4. a \in UpTo(k) \/ k \in UpTo(a)
          BY <2>1, <4>1, <5>1, Comparable DEF UpTo
        <5> QED
          BY <5>2, <5>3, <5>4
      <4>6. n \in Visited
        BY <4>5, Zenon DEF Visited
      <4>7. CurEditop(n) # "commit"
        BY <1>1, <2>1, <4>1, CurEditopIs
      <4>8. running[n] # Absent /\ candidate[n] = running[n]
        BY <1>1, <3>3, <4>6, <4>7, NotTaken
      <4> QED
        BY <3>2, <4>8
    <3> QED
      BY <3>4, <3>5
  <2> QED
    BY <2>2, <2>3
<1>8. IdsCounted' /\ LocksTracked'
  BY <1>2 DEF PlockInv, IdsCounted, LocksTracked
<1>9. ReportedLocked'
  <2>1. ASSUME NEW b \in plockQ, NEW p \in Repointed[b], p.at = "running"
        PROVE  b \in plock'[p.node]
    <3>1. b \in Blocks
      BY DEF PlockInv, TypeOK
    <3>2. /\ p \in result[b] /\ p.node \notin Gone
          /\ p.node \notin Below(Replaced) \ Replaced
      BY <1>1, <2>1, <3>1, RepointedIs
    <3>3. p.node \in Nodes /\ b \in plock[p.node]
      BY <2>1, <3>1, <3>2 DEF PlockInv, TypeOK, ReportedLocked
    <3>4. running[p.node] # Absent
      BY <3>3 DEF PlockInv, TypeOK, Present
    <3>5. p.node \notin Moved \ Replaced
      <4>1. p.node \in Moved => p.node \in Below(Replaced)
        BY <1>1, <3>4, MovedThere
      <4> QED
        BY <3>2, <4>1
    <3> QED
      BY <1>2, <3>2, <3>3, <3>5
  <2> QED
    BY <1>2, <2>1 DEF ReportedLocked
<1> QED
  BY <1>5, <1>6, <1>7, <1>8, <1>9 DEF PlockInv

(* A commit that is not refused touches what another session has locked    *)
(* only below a container that it replaces.                                *)
LEMMA CommitSpares ==
    ASSUME PlockInv, NEW s \in Sessions, Commit(s),
           NEW n \in Nodes, Foreign(s, plock[n]),
           running'[n] # running[n] \/ ~(plock[n] \subseteq plock'[n])
    PROVE  n \in Below(Replaced) \ Replaced
<1>1. TypeOK /\ running \in Config /\ candidate \in Config
  BY DEF PlockInv, TypeOK
<1>2. /\ running' = [m \in Nodes |->
                 IF m \in Edits \cup Moved THEN candidate[m]
                 ELSE IF m \in Gone THEN Absent ELSE running[m]]
      /\ plock' = [m \in Nodes |->
                 IF m \in Moved \ Replaced THEN cplock[m]
                 ELSE IF m \in Gone \ Moved THEN {} ELSE plock[m]]
      /\ agt_val_check_commit_edits(s)
  BY <1>1, CommitDoes
<1>3. running[n] # Absent
  <2>1. plock[n] # {}
    BY DEF Foreign
  <2> QED
    BY <2>1 DEF PlockInv, TypeOK, Present
<1>4. n \notin Gone
  <2>1. SUFFICES ASSUME n \in Gone PROVE FALSE
    OBVIOUS
  <2>2. PICK d \in CommitDeletes : d \in UpTo(n)
    BY <2>1, MovedBelow
  <2>3. d \in Nodes /\ n \in Subtree[d]
    BY <2>2, UpToDef
  <2>4. ~Foreign(s, Slots(plock, Above(d) \cup Subtree[d]))
    BY <1>2 DEF agt_val_check_commit_edits, commit_delete_allowed
  <2>5. plock[n] \subseteq Slots(plock, Above(d) \cup Subtree[d])
    BY <2>3 DEF Slots
  <2> QED
    BY <2>4, <2>5 DEF Foreign
<1>5. n \notin Merged
  <2>1. SUFFICES ASSUME n \in Merged PROVE FALSE
    OBVIOUS
  <2>2. n \in Visited \cap Both \cap Leaves
    BY <2>1, EditsThere DEF Merged
  <2> QED
    BY <1>2, <2>2 DEF agt_val_check_commit_edits
<1>6. CASE n \in Replaced
  <2>1. n \in Nodes \ Leaves /\ candidate[n] # Absent /\ n \in Edits
    BY <1>6, EditsThere
  <2>2. running'[n] = running[n]
    BY <1>1, <1>2, <1>3, <2>1, SameContainer
  <2>3. plock'[n] = plock[n]
    BY <1>2, <1>4, <1>6
  <2> QED
    BY <2>2, <2>3
<1>7. CASE n \in Moved \ Replaced
  BY <1>1, <1>3, <1>7, MovedThere
<1>8. CASE n \notin Moved
  <2>1. n \notin Edits
    BY <1>5, <1>8, ReplacedMoved
  <2> QED
    BY <1>2, <1>4, <1>8, <2>1
<1> QED
  BY <1>6, <1>7, <1>8

-----------------------------------------------------------------------------
(* The theorems.                                                           *)

LEMMA PlockInit == Init => PlockInv
<1> SUFFICES ASSUME Init PROVE PlockInv
  OBVIOUS
<1>1. IsFiniteSet({}) /\ Cardinality({}) = 0 /\ 0 <= MaxSlots
  BY FS_EmptySet, BoundAssumption
<1>2. TypeOK
  BY <1>1, BoundAssumption
     DEF Init, TypeOK, NoSlots, NoOps, EditOp, Present
<1>3. SlotSizes
  BY <1>1 DEF Init, SlotSizes, NoSlots
<1>4. MarksAgree
  BY DEF Init, MarksAgree, Present
<1>5. IdsCounted /\ LocksTracked /\ ReportedLocked
  BY DEF Init, IdsCounted, LocksTracked, ReportedLocked
<1> QED
  BY <1>2, <1>3, <1>4, <1>5 DEF PlockInv

LEMMA PlockStep == PlockInv /\ [Next]_vars => PlockInv'
<1> SUFFICES ASSUME PlockInv, [Next]_vars PROVE PlockInv'
  OBVIOUS
<1>1. ASSUME NEW s \in Sessions, NEW R \in SUBSET Present(running),
             NEW b \in Blocks, PartialLock(s, R, b)
      PROVE  PlockInv'
  BY <1>1, LockKeeps
<1>2. ASSUME NEW s \in Sessions, NEW R \in SUBSET Present(running),
             PartialLockDenied(s, R)
      PROVE  PlockInv'
  BY <1>2, DeniedKeeps
<1>3. ASSUME NEW s \in Sessions, NEW b \in Blocks, PartialUnlock(s, b)
      PROVE  PlockInv'
  BY <1>3, UnlockKeeps
<1>4. ASSUME NEW s \in Sessions, EndSession(s)
      PROVE  PlockInv'
  BY <1>4, EndKeeps
<1>5. ASSUME NEW s \in Sessions, NEW n \in Leaves, NEW v \in Values[n],
             MergeLeaf(s, n, v)
      PROVE  PlockInv'
  BY <1>5, MergeLeafKeeps
<1>6. ASSUME NEW s \in Sessions, NEW n \in Nodes, NEW c \in Config,
             ReplaceSubtree(s, n, c)
      PROVE  PlockInv'
  BY <1>6, ReplaceSubtreeKeeps
<1>7. ASSUME NEW s \in Sessions, NEW n \in Nodes, Delete(s, n)
      PROVE  PlockInv'
  BY <1>7, DeleteKeeps
<1>8. ASSUME NEW s \in Sessions, Commit(s)
      PROVE  PlockInv'
  BY <1>8, CommitKeeps
<1>9. ASSUME NEW n \in Nodes, NEW c \in Config, MergeSubtree(n, c)
      PROVE  PlockInv'
  BY <1>9, MergeSubtreeKeeps
<1>10. CASE DiscardChanges
  BY <1>10, DiscardKeeps
<1>11. CASE UNCHANGED vars
  <2>1. /\ running' = running /\ candidate' = candidate /\ editop' = editop
        /\ dirty' = dirty /\ deleted' = deleted /\ plock' = plock
        /\ cplock' = cplock /\ plockQ' = plockQ /\ sid' = sid
        /\ plock_id' = plock_id /\ result' = result /\ last_id' = last_id
        /\ cfg_state' = cfg_state
    BY <1>11 DEF vars
  <2> QED
    BY <2>1 DEF PlockInv, TypeOK, SlotSizes, MarksAgree, IdsCounted,
                LocksTracked, ReportedLocked, Present
<1> QED
  BY <1>1, <1>2, <1>3, <1>4, <1>5, <1>6, <1>7, <1>8, <1>9, <1>10, <1>11
     DEF Next

(* Every variable keeps its type; in particular a commit makes a tree of   *)
(* <running>, no node gets more locks than it has slots, and a node that   *)
(* is not there has none.                                                  *)
THEOREM PlockTypeCorrect == Spec => []TypeOK
<1>1. PlockInv => TypeOK
  BY DEF PlockInv
<1> QED
  BY <1>1, PlockInit, PlockStep, PTL DEF Spec

(* plock_final_result and val->plock agree (agt_state.c:387): what a lock  *)
(* reports as locked has it in a slot, whatever is committed.              *)
THEOREM ReportsAreTrue == Spec => []ReportedLocked
<1>1. PlockInv => ReportedLocked
  BY DEF PlockInv
<1> QED
  BY <1>1, PlockInit, PlockStep, PTL DEF Spec

(* No two locks have one id, for any number of ids, and none is held       *)
(* outside the partial-lock state (plock_cb_new, plock_cb_reset_id).       *)
THEOREM IdsAreUnique == Spec => []LocksTracked
<1>1. PlockInv => LocksTracked
  BY DEF PlockInv
<1> QED
  BY <1>1, PlockInit, PlockStep, PTL DEF Spec

(* The marks that a commit goes by cover every edit of <candidate>         *)
(* (agt_val_apply_commit, commit_edit).                                    *)
THEOREM MarksCover == Spec => []UnmarkedAgree
<1>1. PlockInv => UnmarkedAgree
  BY AgreeFollows DEF PlockInv
<1> QED
  BY <1>1, PlockInit, PlockStep, PTL DEF Spec

(* A commit keeps what other sessions have locked, but below a container   *)
(* that it replaces (agt_val_check_commit_edits).                          *)
THEOREM LocksKeepCommitsOut == Spec => LockedKept
<1> DEFINE Kept(s, n) ==
        /\ Foreign(s, plock[n])
        /\ running'[n] # running[n] \/ ~(plock[n] \subseteq plock'[n])
        /\ Commit(s)
        => n \in Below(Replaced) \ Replaced
<1>1. PlockInv /\ [Next]_vars => [\A s \in Sessions, n \in Nodes : Kept(s, n)]_vars
  BY CommitSpares
<1> QED
  BY <1>1, PlockInit, PlockStep, PTL DEF Spec, LockedKept
=============================================================================
