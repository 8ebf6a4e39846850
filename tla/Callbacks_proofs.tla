-------------------------- MODULE Callbacks_proofs --------------------------
(***************************************************************************)
(* Proofs about the callbacks of EditTransaction: after a transaction no   *)
(* callback still holds what it reserved, and the instrumentation runs the *)
(* configuration that <running> shows.                                     *)
(***************************************************************************)
EXTENDS EditTransaction_proofs, FiniteSetTheorems, WellFoundedInduction

(* The undo records are of separate parts of the tree, and each is of      *)
(* whole subtrees.                                                         *)
Records ==
    \A i \in 1..Len(undoQ) :
        /\ Subtree[undoQ[i].node] \subseteq DOMAIN undoQ[i].cur
        /\ \A m \in DOMAIN undoQ[i].cur : Subtree[m] \subseteq DOMAIN undoQ[i].cur
        /\ \A j \in 1..Len(undoQ) : i # j => DOMAIN undoQ[i].cur \cap DOMAIN undoQ[j].cur = {}

(* What an edit that is left will change has no record yet, or it has been *)
(* deleted already together with another case.                             *)
Taken(n) == \E i \in 1..Len(undoQ) : n \in DOMAIN undoQ[i].cur

Fresh(u) ==
    \/ \A n \in Subtree[u] : ~Taken(n)
    \/ \A n \in Subtree[u] : running[n] = Absent /\ target[n] = Absent

Free ==
    \A t \in todo : \A u \in Tops(t, target, before) : Fresh(u)

(* The tree has the new contents wherever a record is not rolled back.     *)
Done ==
    \A i \in First..Len(undoQ) : \A n \in DOMAIN undoQ[i].cur : running[n] = target[n]

(* The walk of attempt_commit leaves the answers behind it.                *)
Answers ==
    /\ phase \in {"idle", "apply"} => pos = 1
    /\ phase \in {"apply", "commit"} =>
          \A i \in 1..Len(undoQ) :
              undoQ[i].commit_res = IF i < pos THEN "ok" ELSE "skipped"

RecordInv == Records /\ Free /\ Done /\ Answers

(* A reservation is of a record whose callbacks are still to be called.    *)
PointsOf(rec) == Points(rec.node, target, rec.cur, rec.all)

Called(n) ==
    \E i \in pos..Len(undoQ) : /\ undoQ[i].commit_res = "skipped"
                               /\ n \in CoveredBy(PointsOf(undoQ[i]), target)

Pending == \A n \in Nodes \ loose : pend[n] # NoPend => Called(n)

(* The instrumentation has the new contents under the edits that are       *)
(* committed and not reversed, and the old ones everywhere else.           *)
Committed(n) ==
    \E i \in First..Len(undoQ) : /\ undoQ[i].commit_res = "ok"
                                 /\ n \in Subtree[undoQ[i].node]

Active ==
    \A n \in Nodes \ loose :
        Reached(n) =>
            conf[n] = IF Committed(n) THEN target[n] ELSE before[n]

CallbackInv == RecordInv /\ Pending /\ Active

-----------------------------------------------------------------------------
(* Chains of the tree                                                      *)

LEMMA AboveFacts ==
    /\ \A n \in Nodes : \A a \in Above(n) :
          a \in Nodes /\ a # n /\ n \in Subtree[a] /\ n \notin Above(a)
          /\ a \notin Subtree[n]
    /\ \A n, a \in Nodes : n \in Subtree[a] => n = a \/ a \in Above(n)
    /\ \A n, a, b \in Nodes : n \in Subtree[a] /\ n \in Subtree[b] =>
          a = b \/ a \in Above(b) \/ b \in Above(a)
    /\ \A n, a, b \in Nodes : n \in Subtree[a] /\ a \in Subtree[b] =>
          n \in Subtree[b]
BY TreeAssumption DEF Above

LEMMA LeastNat ==
    ASSUME NEW T \in SUBSET Nat, T # {}
    PROVE  \E k \in T : \A j \in T : k <= j
<1>1. PICK k \in T : \A j \in T : ~(<<j, k>> \in OpToRel(<, Nat))
  BY NatLessThanWellFounded, WFMin
<1>2. ASSUME NEW j \in T, j < k PROVE FALSE
  <2>1. <<j, k>> \in Nat \X Nat /\ <<j, k>>[1] < <<j, k>>[2]
    BY <1>2
  <2> QED
    BY <2>1, <1>1, Zenon DEF OpToRel
<1>3. \A j \in T : j \in Nat /\ ~(j < k)
  BY <1>2
<1>4. \A j \in T : k <= j
  BY <1>3
<1> QED
  BY <1>4

LEMMA StrictSubset ==
    ASSUME NEW S \in SUBSET Nodes, NEW T \in SUBSET S, S # T
    PROVE  /\ Cardinality(S) \in Nat /\ Cardinality(T) \in Nat
           /\ Cardinality(T) < Cardinality(S)
<1>1. IsFiniteSet(S)
  BY FiniteAssumption, FS_Subset
<1>2. IsFiniteSet(T) /\ Cardinality(T) <= Cardinality(S)
      /\ (Cardinality(S) = Cardinality(T) => S = T)
  BY <1>1, FS_Subset
<1>3. Cardinality(S) \in Nat /\ Cardinality(T) \in Nat
  BY <1>1, <1>2, FS_CardinalityType
<1> QED
  BY <1>2, <1>3

LEMMA NodeCard ==
    ASSUME NEW S \in SUBSET Nodes
    PROVE  Cardinality(S) \in Nat
<1>1. IsFiniteSet(S)
  BY FiniteAssumption, FS_Subset
<1> QED
  BY <1>1, FS_CardinalityType

(* Of any nodes, some has none of the others below it, and some has none   *)
(* of them above it.                                                       *)
LEMMA LowestNode ==
    ASSUME NEW Q \in SUBSET Nodes, Q # {}
    PROVE  \E p \in Q : \A q \in Q : p \notin Above(q)
<1> DEFINE T == {Cardinality(Subtree[q]) : q \in Q}
<1>1. T \in SUBSET Nat /\ T # {}
  BY NodeCard, TreeFacts
<1>2. PICK k \in T : \A j \in T : k <= j
  BY <1>1, LeastNat
<1>3. PICK p \in Q : k = Cardinality(Subtree[p])
  BY <1>2
<1>4. ASSUME NEW q \in Q, p \in Above(q) PROVE FALSE
  <2>1. Subtree[q] \in SUBSET Subtree[p] /\ Subtree[p] \in SUBSET Nodes
    BY <1>4, AboveFacts, TreeFacts, TreeAssumption
  <2>2. Subtree[q] # Subtree[p]
    BY <1>4, AboveFacts, TreeFacts
  <2>3. /\ Cardinality(Subtree[p]) \in Nat /\ Cardinality(Subtree[q]) \in Nat
        /\ Cardinality(Subtree[q]) < Cardinality(Subtree[p])
    BY <2>1, <2>2, StrictSubset
  <2>4. k <= Cardinality(Subtree[q])
    BY <1>2
  <2> QED
    BY <1>3, <2>3, <2>4
<1> QED
  BY <1>4

LEMMA HighestNode ==
    ASSUME NEW Q \in SUBSET Nodes, Q # {}
    PROVE  \E p \in Q : \A q \in Q : q \notin Above(p)
<1> DEFINE T == {Cardinality(Above(q)) : q \in Q}
<1>1. \A q \in Q : Above(q) \in SUBSET Nodes
  BY DEF Above
<1>2. T \in SUBSET Nat /\ T # {}
  BY <1>1, NodeCard
<1>3. PICK k \in T : \A j \in T : k <= j
  BY <1>2, LeastNat
<1>4. PICK p \in Q : k = Cardinality(Above(p))
  BY <1>3
<1>5. ASSUME NEW q \in Q, q \in Above(p) PROVE FALSE
  <2>1. Above(q) \in SUBSET Above(p)
    <3>1. ASSUME NEW a \in Above(q) PROVE a \in Above(p)
      <4>1. a \in Nodes /\ p \in Subtree[a]
        BY <1>5, <3>1, AboveFacts
      <4>2. a # p
        BY <1>5, <3>1, AboveFacts
      <4> QED
        BY <4>1, <4>2, AboveFacts
    <3> QED
      BY <3>1
  <2>2. Above(q) # Above(p)
    BY <1>5, AboveFacts
  <2>3. /\ Cardinality(Above(p)) \in Nat /\ Cardinality(Above(q)) \in Nat
        /\ Cardinality(Above(q)) < Cardinality(Above(p))
    BY <1>1, <2>1, <2>2, StrictSubset
  <2>4. k <= Cardinality(Above(q))
    BY <1>3
  <2> QED
    BY <1>4, <2>3, <2>4
<1> QED
  BY <1>5
-----------------------------------------------------------------------------
(* Which nodes the callbacks of an edit are about                          *)

LEMMA CoversFacts ==
    ASSUME NEW a \in Nodes, NEW new
    PROVE  Covers(a, new) \subseteq Subtree[a]
BY DEF Covers

LEMMA PointsBelow ==
    ASSUME NEW t \in Nodes, NEW new, NEW old, NEW all
    PROVE  /\ Points(t, new, old, all) \subseteq Subtree[t]
           /\ CoveredBy(Points(t, new, old, all), new) \subseteq Subtree[t]
<1>1. Points(t, new, old, all) \subseteq Subtree[t]
  BY TreeFacts DEF Points
<1>2. ASSUME NEW a \in Points(t, new, old, all)
      PROVE  Covers(a, new) \subseteq Subtree[t]
  BY <1>1, CoversFacts, TreeFacts, TreeAssumption
<1> QED
  BY <1>1, <1>2 DEF CoveredBy

(* Which callbacks are called depends on the contents under the edit only. *)
LEMMA PointsLocal ==
    ASSUME NEW t \in Nodes, NEW new, NEW old, NEW cur, NEW all,
           \A n \in Subtree[t] : old[n] = cur[n]
    PROVE  Points(t, new, old, all) = Points(t, new, cur, all)
<1>1. \A m \in Subtree[t] : Changed(m, new, old) <=> Changed(m, new, cur)
  BY TreeFacts, TreeAssumption DEF Changed
<1> QED
  BY <1>1 DEF Points

(* Contents in which what is below a node that is not there is not there.  *)
Closed(t, new) ==
    \A a \in Subtree[t] : \A m \in Subtree[a] : new[a] = Absent => new[m] = Absent

(* The parents of a node, up to the node of the edit.                      *)
Chain(t, n) == {a \in Subtree[t] : n \in Subtree[a]}

LEMMA ChainFacts ==
    ASSUME NEW t \in Nodes, NEW n \in Subtree[t]
    PROVE  /\ n \in Nodes
           /\ t \in Chain(t, n) /\ n \in Chain(t, n)
           /\ Chain(t, n) \subseteq Nodes
           /\ \A a \in Chain(t, n) : a = t \/ t \in Above(a)
           /\ \A a, b \in Chain(t, n) : a = b \/ a \in Above(b) \/ b \in Above(a)
           /\ \A a \in Chain(t, n) : \A b \in Above(a) \cap Subtree[t] :
                 b \in Chain(t, n)
<1>1. n \in Nodes /\ Chain(t, n) \subseteq Nodes
  BY TreeFacts DEF Chain
<1>2. t \in Chain(t, n) /\ n \in Chain(t, n)
  BY <1>1, TreeFacts DEF Chain
<1>3. \A a \in Chain(t, n) : a = t \/ t \in Above(a)
  BY <1>1, AboveFacts DEF Chain
<1>4. \A a, b \in Chain(t, n) : a = b \/ a \in Above(b) \/ b \in Above(a)
  BY <1>1, AboveFacts DEF Chain
<1>5. ASSUME NEW a \in Chain(t, n), NEW b \in Above(a) \cap Subtree[t]
      PROVE  b \in Chain(t, n)
  <2>1. a \in Nodes /\ b \in Nodes /\ a \in Subtree[b] /\ n \in Subtree[a]
    BY <1>1, AboveFacts DEF Chain
  <2> QED
    BY <2>1, <1>1, AboveFacts DEF Chain
<1> QED
  BY <1>1, <1>2, <1>3, <1>4, <1>5

(* The callback of a node that is reached belongs to everything on the way *)
(* down to it.                                                             *)
LEMMA HandlersDown ==
    ASSUME NEW t \in Nodes, NEW n \in Subtree[t], Reached(n)
    PROVE  Handlers(t) # {}
<1>1. PICK r \in Handlers(n) : Above(r) \subseteq Registered
  BY DEF Reached
<1>2. /\ r \in Registered /\ r \in Nodes /\ n \in Nodes /\ n \in Subtree[r]
      /\ \A m \in Subtree[r] : n \in Subtree[m] => Module[m] = Module[n]
  BY <1>1, CallbackAssumption, TreeFacts DEF Handlers
<1>3. r = t \/ r \in Above(t) \/ t \in Above(r)
  BY <1>2, AboveFacts
<1>4. CASE r = t \/ t \in Above(r)
  <2>1. t \in Registered
    BY <1>1, <1>2, <1>4
  <2>2. t \in Subtree[t] /\ \A m \in Subtree[t] : t \in Subtree[m] => m = t
    BY TreeFacts, TreeAssumption
  <2>3. t \in Handlers(t)
    BY <2>1, <2>2 DEF Handlers
  <2> QED
    BY <2>3
<1>5. CASE r \in Above(t)
  <2>1. t \in Subtree[r]
    BY <1>5, AboveFacts
  <2>2. \A m \in Subtree[r] : t \in Subtree[m] => n \in Subtree[m]
    BY <1>2, TreeFacts, TreeAssumption
  <2>3. \A m \in Subtree[r] : t \in Subtree[m] => Module[m] = Module[t]
    BY <1>2, <2>1, <2>2
  <2>4. r \in Handlers(t)
    BY <1>2, <2>1, <2>3 DEF Handlers
  <2> QED
    BY <2>4
<1> QED
  BY <1>3, <1>4, <1>5

(* What lies between a node and the lowest callback over it shares its     *)
(* callbacks.                                                              *)
LEMMA SameHandlers ==
    ASSUME NEW p \in Nodes, NEW n \in Subtree[p], Handlers(n) # {},
           \A r \in Registered : n \in Subtree[r] => p \in Subtree[r]
    PROVE  Handlers(n) = Handlers(p)
<1>1. n \in Nodes /\ \A m \in Nodes : p \in Subtree[m] => n \in Subtree[m]
  BY TreeFacts, TreeAssumption
<1>2. PICK q \in Handlers(n) : TRUE
  OBVIOUS
<1>3. /\ q \in Nodes /\ p \in Subtree[q]
      /\ \A m \in Subtree[q] : n \in Subtree[m] => Module[m] = Module[n]
  BY <1>2, CallbackAssumption DEF Handlers
<1>4. Module[p] = Module[n]
  BY <1>3
<1>5. ASSUME NEW r \in Handlers(n) PROVE r \in Handlers(p)
  <2>1. /\ r \in Registered /\ r \in Nodes /\ p \in Subtree[r]
        /\ \A m \in Subtree[r] : n \in Subtree[m] => Module[m] = Module[n]
    BY <1>5, CallbackAssumption DEF Handlers
  <2>2. \A m \in Subtree[r] : m \in Nodes
    BY <2>1, TreeFacts
  <2> QED
    BY <1>1, <1>4, <2>1, <2>2 DEF Handlers
<1>6. ASSUME NEW r \in Handlers(p) PROVE r \in Handlers(n)
  <2>1. /\ r \in Registered /\ r \in Nodes /\ p \in Subtree[r]
        /\ \A m \in Subtree[r] : p \in Subtree[m] => Module[m] = Module[p]
    BY <1>6, CallbackAssumption DEF Handlers
  <2>2. ASSUME NEW m \in Subtree[r], n \in Subtree[m]
        PROVE  Module[m] = Module[n]
    <3>1. m \in Nodes /\ (p = m \/ p \in Above(m) \/ m \in Above(p))
      BY <1>1, <2>1, <2>2, TreeFacts, AboveFacts
    <3>2. CASE p = m \/ m \in Above(p)
      <4>1. p \in Subtree[m]
        BY <3>1, <3>2, AboveFacts, TreeFacts
      <4> QED
        BY <1>4, <2>1, <4>1
    <3>3. CASE p \in Above(m)
      <4>1. m \in Subtree[q]
        BY <1>3, <3>1, <3>3, AboveFacts
      <4> QED
        BY <1>3, <2>2, <4>1
    <3> QED
      BY <3>1, <3>2, <3>3
  <2>3. n \in Subtree[r]
    BY <1>1, <2>1
  <2> QED
    BY <2>1, <2>2, <2>3 DEF Handlers
<1> QED
  BY <1>5, <1>6

(* Every changed node that is reached is covered: by the callback that is  *)
(* closest to it or, where something is deleted, by the one of the highest *)
(* node that goes.                                                         *)
LEMMA ChangesAreCovered ==
    ASSUME NEW t \in Nodes, NEW n \in Subtree[t], NEW new, NEW old, NEW all,
           Reached(n), new[n] # old[n], Closed(t, new)
    PROVE  n \in CoveredBy(Points(t, new, old, all), new)
<1> DEFINE Q == {a \in Chain(t, n) : a = t \/ a \in Registered}
           G == {a \in Chain(t, n) : new[a] = Absent}
<1>1. n \in Nodes /\ t \in Chain(t, n) /\ Chain(t, n) \subseteq Nodes
  BY ChainFacts
<1>2. PICK p \in Q : \A q \in Q : p \notin Above(q)
  <2>1. Q \in SUBSET Nodes /\ Q # {}
    BY <1>1
  <2> HIDE DEF Q
  <2> QED
    BY <2>1, LowestNode
<1>3. /\ p \in Nodes /\ p \in Chain(t, n)
      /\ p \in Subtree[t] /\ n \in Subtree[p]
      /\ p = t \/ p \in Registered
  BY <1>1, <1>2 DEF Chain
<1>4. Handlers(t) # {}
  BY HandlersDown
<1>5. \A a \in Chain(t, n) : Changed(a, new, old)
  BY DEF Changed, Chain
<1>6. SUFFICES \E a \in Points(t, new, old, all) : n \in Covers(a, new)
  BY DEF CoveredBy
<1>7. Handlers(n) = Handlers(p)
  <2>1. ASSUME NEW r \in Registered, n \in Subtree[r] PROVE p \in Subtree[r]
    <3>1. r \in Nodes
      BY CallbackAssumption
    <3>2. r = p \/ r \in Above(p) \/ p \in Above(r)
      BY <1>1, <1>3, <2>1, <3>1, AboveFacts
    <3>3. CASE p \in Above(r)
      <4>1. r \in Subtree[p]
        BY <3>1, <3>3, AboveFacts
      <4>2. r \in Subtree[t]
        BY <1>3, <3>1, <4>1, AboveFacts
      <4>3. r \in Q
        BY <2>1, <4>2 DEF Chain
      <4> QED
        BY <1>2, <3>3, <4>3
    <3>4. CASE r = p \/ r \in Above(p)
      BY <3>4, <1>3, AboveFacts, TreeFacts
    <3> QED
      BY <3>2, <3>3, <3>4
  <2>2. Handlers(n) # {}
    BY DEF Reached
  <2> HIDE DEF Q, G
  <2> QED
    BY <1>3, <2>1, <2>2, SameHandlers
(* No parent without a callback lies between t and p.                      *)
<1>8. p # t => Above(p) \subseteq Registered
  <2> SUFFICES ASSUME p # t PROVE Above(p) \subseteq Registered
    OBVIOUS
  <2>1. p \in Registered
    BY <1>3
  <2>2. p \in Subtree[p] /\ \A m \in Subtree[p] : p \in Subtree[m] => m = p
    BY <1>3, TreeFacts, TreeAssumption
  <2>3. p \in Handlers(p)
    BY <2>1, <2>2 DEF Handlers
  <2> QED
    BY <1>7, <2>3 DEF Reached
<1>9. CASE new[p] # Absent
  <2>1. \A a \in Above(p) \cap Subtree[t] : new[a] # Absent
    <3>1. \A a \in Above(p) : p \in Subtree[a]
      BY <1>3, AboveFacts
    <3> QED
      BY <3>1, <1>9 DEF Closed
  <2>2. p \in Points(t, new, old, all)
    BY <2>1, <1>3, <1>4, <1>5, <1>8 DEF Points
  <2>3. n \in Covers(p, new)
    BY <1>3, <1>9, <1>7 DEF Covers
  <2> QED
    BY <2>2, <2>3
<1>10. CASE new[p] = Absent
  <2>1. PICK g \in G : \A a \in G : a \notin Above(g)
    <3>1. G \in SUBSET Nodes /\ G # {}
      BY <1>1, <1>3, <1>10
    <3> HIDE DEF G
    <3> QED
      BY <3>1, HighestNode
  <2>2. g \in Chain(t, n) /\ new[g] = Absent /\ g \in Subtree[t] /\ n \in Subtree[g]
    BY <2>1 DEF Chain
  <2>3. g \in Nodes
    BY <1>1, <2>2
  <2>4. \A a \in Above(g) \cap Subtree[t] : new[a] # Absent
    BY <2>1, <2>2, ChainFacts
  <2>5. g = t \/ g \in Registered
    <3>1. g = p \/ g \in Above(p)
      <4>1. p \notin Above(g)
        BY <2>1, <1>3, <1>10
      <4> QED
        BY <4>1, <1>3, <2>2, ChainFacts
    <3>2. CASE g \in Above(p) /\ p = t
      BY <3>2, <2>2, <2>3, AboveFacts
    <3>3. CASE g \in Above(p) /\ p # t
      BY <3>3, <1>8
    <3> QED
      BY <1>3, <3>1, <3>2, <3>3
  <2>6. (Above(g) \cap Subtree[t]) \ {t} \subseteq Registered
    <3> SUFFICES ASSUME NEW a \in Above(g) \cap Subtree[t], a # t
                 PROVE  a \in Registered
      OBVIOUS
    <3>1. a \in Chain(t, n) /\ a \in Nodes /\ g \in Subtree[a]
      BY <1>1, <2>2, <2>3, ChainFacts, AboveFacts
    <3>2. g = p \/ g \in Above(p)
      BY <2>1, <1>3, <1>10, <2>2, ChainFacts
    <3>3. p \in Subtree[a]
      BY <1>3, <2>3, <3>1, <3>2, AboveFacts
    <3>4. p # a
      BY <2>3, <3>2, AboveFacts
    <3>5. a \in Above(p)
      BY <1>3, <3>1, <3>3, <3>4, AboveFacts
    <3>6. p # t
      BY <1>3, <3>1, <3>5, AboveFacts, ChainFacts
    <3> QED
      BY <1>8, <3>5, <3>6
  <2>7. g \in Points(t, new, old, all)
    BY <2>2, <2>4, <2>5, <2>6, <1>4, <1>5 DEF Points
  <2>8. n \in Covers(g, new)
    BY <2>2 DEF Covers
  <2> QED
    BY <2>7, <2>8
<1> QED
  BY <1>9, <1>10
-----------------------------------------------------------------------------
(* The records                                                             *)

LEMMA CommittedRecord ==
    ASSUME TypeOK, pos \in 1..Len(undoQ),
           NEW res \in {"skipped", "ok", "failed"},
           undoQ' = [undoQ EXCEPT ![pos].commit_res = res]
    PROVE  /\ Len(undoQ') = Len(undoQ)
           /\ \A i \in 1..Len(undoQ) :
                 /\ undoQ'[i].node = undoQ[i].node
                 /\ undoQ'[i].cur = undoQ[i].cur
                 /\ undoQ'[i].all = undoQ[i].all
                 /\ undoQ'[i].commit_res =
                        IF i = pos THEN res ELSE undoQ[i].commit_res
<1> DEFINE r == [undoQ[pos] EXCEPT !.commit_res = res]
<1>1. undoQ[pos] \in UndoRecs
  BY RecFacts
<1>2. /\ r \in UndoRecs /\ r.commit_res = res
      /\ r.node = undoQ[pos].node /\ r.cur = undoQ[pos].cur
      /\ r.all = undoQ[pos].all
  BY <1>1 DEF UndoRecs
<1>3. undoQ' = [undoQ EXCEPT ![pos] = r] /\ undoQ \in Seq(UndoRecs)
  BY DEF TypeOK
<1> HIDE DEF r
<1>4. /\ Len(undoQ') = Len(undoQ)
      /\ \A i \in 1..Len(undoQ) :
            undoQ'[i] = IF i = pos THEN r ELSE undoQ[i]
  BY <1>2, <1>3, ExceptSeq
<1> QED
  BY <1>2, <1>4

(* A step that leaves the tree and the nodes of the records alone.         *)
SameNodes ==
    /\ Len(undoQ') = Len(undoQ)
    /\ \A i \in 1..Len(undoQ) : /\ undoQ'[i].node = undoQ[i].node
                                /\ undoQ'[i].cur = undoQ[i].cur

LEMMA SameRecords ==
    ASSUME RecordInv, SameNodes
    PROVE  Records' /\ \A n : Taken(n)' <=> Taken(n)
BY DEF RecordInv, Records, SameNodes, Taken

LEMMA SameTree ==
    ASSUME EditInv, RecordInv, SameNodes, First' = First,
           running' = running, target' = target, before' = before,
           todo' \subseteq todo
    PROVE  Records' /\ Free' /\ Done'
<1>1. Records'
  BY SameRecords
<1>2. Done'
  <2>1. First..Len(undoQ) \subseteq 1..Len(undoQ)
    BY LenProperties DEF EditInv, TypeOK, First
  <2> QED
    BY <2>1 DEF RecordInv, Done, SameNodes
<1>3. Free'
  <2>1. \A n : Taken(n)' <=> Taken(n)
    BY SameRecords
  <2>2. \A u : Fresh(u) => Fresh(u)'
    BY <2>1 DEF Fresh
  <2> QED
    BY <2>2 DEF RecordInv, Free, Tops
<1> QED
  BY <1>1, <1>2, <1>3

LEMMA NoRecords ==
    ASSUME undoQ' = <<>>, todo' = {}, pos' = 1, phase' = "idle"
    PROVE  RecordInv'
<1>1. Len(undoQ') = 0
  BY EmptySeq
<1>2. First'..Len(undoQ') = {} /\ 1..Len(undoQ') = {}
  BY <1>1 DEF First
<1> QED
  BY <1>2 DEF RecordInv, Records, Free, Done, Answers

LEMMA InitRecords == Init => RecordInv
<1> SUFFICES ASSUME Init PROVE RecordInv
  OBVIOUS
<1>1. Len(undoQ) = 0
  BY EmptySeq DEF Init
<1>2. First..Len(undoQ) = {} /\ 1..Len(undoQ) = {}
  BY <1>1 DEF First, Init
<1> QED
  BY <1>2 DEF RecordInv, Records, Free, Done, Answers, Init

LEMMA StartRecords ==
    ASSUME EditInv, RecordInv, Start
    PROVE  RecordInv'
<1>1. undoQ' = <<>> /\ undoQ = <<>> /\ pos' = 1 /\ phase' = "apply"
  BY DEF EditInv, Phases, Start, RecordInv, Answers
<1>2. Len(undoQ') = 0
  BY <1>1, EmptySeq
<1>3. First'..Len(undoQ') = {} /\ 1..Len(undoQ') = {}
  BY <1>1, <1>2 DEF First
<1>4. \A u : Fresh(u)'
  BY <1>3 DEF Fresh, Taken
<1>5. Free'
  BY <1>4 DEF Free
<1> QED
  BY <1>1, <1>3, <1>5 DEF RecordInv, Records, Done, Answers

(* An edit makes a record of nodes that no other record has.               *)
LEMMA NewDomain ==
    ASSUME EditInv, RecordInv, NEW t \in todo, IsThere(t)
    PROVE  /\ Subtree[t] \subseteq Domain(t)
           /\ \A m \in Domain(t) : Subtree[m] \subseteq Domain(t)
           /\ \A n \in Domain(t) : ~Taken(n)
<1>1. /\ t \in Nodes /\ t \in Subtree[t] /\ t \in Tops(t, target, before)
      /\ ExtraDeletes(t) \subseteq Tops(t, target, before) \ {t}
  BY EditFacts, TreeFacts DEF Tops
<1>2. \A u \in {t} \cup ExtraDeletes(t) : u \in Nodes /\ u \in Subtree[u]
  BY <1>1, TopsFacts, TreeFacts
<1>3. \A m \in Domain(t) : Subtree[m] \subseteq Domain(t)
  BY <1>2, TreeFacts, TreeAssumption DEF Domain
<1>4. \A u \in {t} \cup ExtraDeletes(t) : Fresh(u)
  BY <1>1 DEF RecordInv, Free
<1>5. \A n \in Subtree[t] : ~Taken(n)
  BY <1>1, <1>4 DEF Fresh, IsThere
<1>6. \A u \in ExtraDeletes(t) : running[u] # Absent
  BY DEF ExtraDeletes
<1>7. \A u \in ExtraDeletes(t) : \A n \in Subtree[u] : ~Taken(n)
  BY <1>2, <1>4, <1>6 DEF Fresh
<1> QED
  BY <1>3, <1>5, <1>7 DEF Domain

LEMMA ApplyRecordInv ==
    ASSUME EditInv, RecordInv, NEW t \in todo, ApplyEdit(t)
    PROVE  RecordInv'
<1> DEFINE k == Len(undoQ')
<1>1. /\ Len(undoQ) \in Nat /\ k = Len(undoQ) + 1
      /\ 1..k = 1..Len(undoQ) \cup {k}
      /\ \A i \in 1..Len(undoQ) : undoQ'[i] = undoQ[i]
      /\ undoQ'[k] = UndoRec(t)
  BY ApplyRecords
<1>2. /\ phase = "apply" /\ phase' = "apply" /\ pos' = 1 /\ pos = 1
      /\ target' = target /\ before' = before /\ todo' = todo \ {t}
      /\ running' = Applied(t) /\ IsThere(t)
  BY DEF ApplyEdit, RecordInv, Answers
<1>3. /\ \A i \in 1..Len(undoQ) : DOMAIN undoQ'[i].cur = DOMAIN undoQ[i].cur
      /\ DOMAIN undoQ'[k].cur = Domain(t)
      /\ undoQ'[k].node = t /\ undoQ'[k].commit_res = "skipped"
  BY <1>1 DEF UndoRec
<1>4. /\ Subtree[t] \subseteq Domain(t)
      /\ \A m \in Domain(t) : Subtree[m] \subseteq Domain(t)
      /\ \A i \in 1..Len(undoQ) : DOMAIN undoQ[i].cur \cap Domain(t) = {}
  BY <1>2, NewDomain DEF Taken
<1>5. Domain(t) \subseteq Nodes
  BY <1>2, EditFacts
<1> HIDE DEF k
<1>6. Records'
  <2> SUFFICES ASSUME NEW i \in 1..k
               PROVE  /\ Subtree[undoQ'[i].node] \subseteq DOMAIN undoQ'[i].cur
                      /\ \A m \in DOMAIN undoQ'[i].cur : Subtree[m] \subseteq DOMAIN undoQ'[i].cur
                      /\ \A j \in 1..k : i # j => DOMAIN undoQ'[i].cur \cap DOMAIN undoQ'[j].cur = {}
    BY DEF Records, k
  <2>1. CASE i \in 1..Len(undoQ)
    BY <2>1, <1>1, <1>3, <1>4 DEF RecordInv, Records
  <2>2. CASE i = k
    BY <2>2, <1>1, <1>3, <1>4
  <2> QED
    BY <2>1, <2>2, <1>1
<1>7. Free'
  <2> SUFFICES ASSUME NEW s \in todo, s # t, NEW w \in Tops(s, target, before)
               PROVE  Fresh(w)'
    BY <1>2 DEF Free
  <2>1. CASE Subtree[w] \cap Domain(t) = {}
    <3>1. Fresh(w) /\ Subtree[w] \subseteq Nodes
      BY ApplyApart DEF RecordInv, Free
    <3>2. \A n \in Subtree[w] : running'[n] = running[n]
      BY <2>1, <3>1, <1>2 DEF Applied
    <3>3. \A n \in Subtree[w] : ~Taken(n) => ~Taken(n)'
      BY <2>1, <1>1, <1>3 DEF Taken, k
    <3> QED
      BY <3>1, <3>2, <3>3, <1>2 DEF Fresh
  <2>2. CASE \A n \in Subtree[w] : running'[n] = Absent /\ target[n] = Absent
    BY <2>2, <1>2 DEF Fresh
  <2> QED
    BY <2>1, <2>2, ApplyApart
<1>8. Done'
  <2> SUFFICES ASSUME NEW i \in 1..k, NEW n \in DOMAIN undoQ'[i].cur
               PROVE  running'[n] = target[n]
    BY <1>2 DEF Done, First, k
  <2>1. CASE i = k
    BY <2>1, <1>2, <1>3, <1>5 DEF Applied
  <2>2. CASE i \in 1..Len(undoQ)
    <3>1. n \in Nodes /\ running[n] = target[n]
      BY <2>2, <1>2, <1>3, RecFacts DEF EditInv, RecordInv, Done, First
    <3> QED
      BY <3>1, <1>2 DEF Applied
  <2> QED
    BY <2>1, <2>2, <1>1
<1>9. Answers'
  <2>1. \A i \in 1..Len(undoQ) : undoQ[i].commit_res = "skipped"
    BY <1>2 DEF RecordInv, Answers
  <2>2. \A i \in 1..k : undoQ'[i].commit_res = "skipped" /\ ~(i < 1)
    BY <2>1, <1>1, <1>3
  <2> QED
    BY <2>2, <1>2 DEF Answers, k
<1> QED
  BY <1>6, <1>7, <1>8, <1>9 DEF RecordInv

(* The steps between the edits and the first COMMIT or rollback.          *)
LEMMA SameRecordInv ==
    ASSUME EditInv, RecordInv, phase = "apply", phase' # "idle",
           undoQ' = undoQ, pos' = 1,
           running' = running, target' = target, before' = before,
           todo' \subseteq todo
    PROVE  RecordInv'
<1>1. SameNodes /\ First' = First /\ First = 1
  BY DEF SameNodes, First
<1>2. Records' /\ Free' /\ Done'
  BY <1>1, SameTree
<1>3. Answers'
  BY DEF RecordInv, Answers
<1> QED
  BY <1>2, <1>3 DEF RecordInv

LEMMA CommitWalk ==
    ASSUME EditInv, RecordInv, CommitEdit \/ RefuseCommit
    PROVE  /\ pos \in 1..Len(undoQ) /\ Len(undoQ) \in Nat
           /\ Len(undoQ') = Len(undoQ)
           /\ \A i \in 1..Len(undoQ) :
                 /\ undoQ'[i].node = undoQ[i].node
                 /\ undoQ'[i].cur = undoQ[i].cur
                 /\ undoQ'[i].all = undoQ[i].all
                 /\ undoQ'[i].commit_res =
                        IF i < pos THEN "ok"
                        ELSE IF i > pos THEN "skipped"
                        ELSE IF CommitEdit THEN "ok" ELSE "failed"
<1>1. pos \in 1..Len(undoQ) /\ Len(undoQ) \in Nat
  BY LenProperties DEF EditInv, TypeOK, CommitEdit, RefuseCommit
<1>2. \A i \in 1..Len(undoQ) :
         undoQ[i].commit_res = IF i < pos THEN "ok" ELSE "skipped"
  BY DEF RecordInv, Answers, CommitEdit, RefuseCommit
<1> DEFINE res == IF CommitEdit THEN "ok" ELSE "failed"
<1>3. res \in {"skipped", "ok", "failed"}
  OBVIOUS
<1>4. undoQ' = [undoQ EXCEPT ![pos].commit_res = res]
  BY DEF CommitEdit, RefuseCommit
<1> HIDE DEF res
<1>5. /\ Len(undoQ') = Len(undoQ)
      /\ \A i \in 1..Len(undoQ) :
            /\ undoQ'[i].node = undoQ[i].node
            /\ undoQ'[i].cur = undoQ[i].cur
            /\ undoQ'[i].all = undoQ[i].all
            /\ undoQ'[i].commit_res =
                   IF i = pos THEN res ELSE undoQ[i].commit_res
  BY <1>1, <1>3, <1>4, CommittedRecord DEF EditInv
<1> QED
  BY <1>1, <1>2, <1>5 DEF res

LEMMA CommitRecords ==
    ASSUME EditInv, RecordInv, CommitEdit \/ RefuseCommit
    PROVE  RecordInv'
<1>1. SameNodes
  BY CommitWalk DEF SameNodes
<1>2. /\ phase = "commit" /\ phase' \in {"commit", "rollback"}
      /\ phase' = "rollback" => pos' = 1
      /\ running' = running /\ target' = target /\ before' = before
      /\ todo' \subseteq todo
  BY DEF CommitEdit, RefuseCommit, AttemptRollback, data
<1>3. Records' /\ Free' /\ Done'
  <2>1. First' = First
    BY <1>2 DEF First
  <2> QED
    BY <1>1, <1>2, <2>1, SameTree
<1>4. Answers'
  <2>1. CASE RefuseCommit
    BY <2>1 DEF Answers, RefuseCommit, AttemptRollback
  <2>2. CASE CommitEdit
    <3>1. pos' = pos + 1 /\ phase' = "commit"
      BY <2>2 DEF CommitEdit
    <3>2. \A i \in 1..Len(undoQ') :
             undoQ'[i].commit_res = IF i < pos' THEN "ok" ELSE "skipped"
      BY <2>2, <3>1, CommitWalk
    <3> QED
      BY <3>1, <3>2 DEF Answers
  <2> QED
    BY <2>1, <2>2
<1> QED
  BY <1>3, <1>4 DEF RecordInv

(* A rolled back record is apart from those that the walk has yet to come  *)
(* to, and puts back what was there before.                                *)
LEMMA RollbackWalk ==
    ASSUME EditInv, RecordInv, NEW res, RollbackEdit(res)
    PROVE  /\ pos \in 1..Len(undoQ) /\ Len(undoQ) \in Nat
           /\ First = pos /\ First' = pos + 1 /\ pos' = pos + 1
           /\ undoQ' = undoQ /\ target' = target /\ before' = before
           /\ Rec = undoQ[pos] /\ Rec.commit_res = res
           /\ Rec.node \in Nodes
           /\ Subtree[Rec.node] \subseteq DOMAIN Rec.cur
           /\ DOMAIN Rec.cur \subseteq Nodes
           /\ \A m \in DOMAIN Rec.cur : Subtree[m] \subseteq DOMAIN Rec.cur
           /\ \A n \in DOMAIN Rec.cur : /\ Rec.cur[n] = before[n]
                                        /\ Restored[n] = before[n]
                                        /\ running[n] = target[n]
           /\ \A i \in pos + 1..Len(undoQ) : \A n \in DOMAIN Rec.cur :
                 n \notin DOMAIN undoQ[i].cur /\ n \notin Subtree[undoQ[i].node]
<1>1. pos \in 1..Len(undoQ) /\ Len(undoQ) \in Nat
  BY LenProperties DEF EditInv, TypeOK, RollbackEdit
<1>2. /\ First = pos /\ First' = pos + 1 /\ pos' = pos + 1
      /\ undoQ' = undoQ /\ target' = target /\ before' = before
      /\ Rec = undoQ[pos] /\ Rec.commit_res = res
  BY DEF RollbackEdit, First, Rec
<1>3. /\ Subtree[Rec.node] \subseteq DOMAIN Rec.cur
      /\ \A m \in DOMAIN Rec.cur : Subtree[m] \subseteq DOMAIN Rec.cur
  BY <1>1, <1>2 DEF RecordInv, Records
<1>4. Rec.node \in Nodes /\ DOMAIN Rec.cur \subseteq Nodes
  BY <1>1, <1>2, RecFacts DEF EditInv, UndoRecs
<1>5. \A n \in DOMAIN Rec.cur : Rec.cur[n] = before[n]
  BY <1>1, <1>2 DEF EditInv, Kept
<1>6. \A n \in DOMAIN Rec.cur : Restored[n] = before[n]
  BY <1>4, <1>5 DEF Restored
<1>7. \A n \in DOMAIN Rec.cur : running[n] = target[n]
  BY <1>1, <1>2 DEF RecordInv, Done
<1>8. ASSUME NEW i \in pos + 1..Len(undoQ), NEW n \in DOMAIN Rec.cur
      PROVE  n \notin DOMAIN undoQ[i].cur /\ n \notin Subtree[undoQ[i].node]
  <2>1. i \in 1..Len(undoQ) /\ i # pos
    BY <1>1
  <2> QED
    BY <2>1, <1>1, <1>2 DEF RecordInv, Records
<1> QED
  BY <1>1, <1>2, <1>3, <1>4, <1>5, <1>6, <1>7, <1>8

LEMMA RollbackRecords ==
    ASSUME EditInv, RecordInv, NEW res, RollbackEdit(res)
    PROVE  RecordInv'
<1>1. /\ pos \in 1..Len(undoQ) /\ Len(undoQ) \in Nat
      /\ First = pos /\ First' = pos + 1
      /\ undoQ' = undoQ /\ target' = target
      /\ \A i \in pos + 1..Len(undoQ) : \A n \in DOMAIN Rec.cur :
            n \notin DOMAIN undoQ[i].cur
  BY RollbackWalk
<1>2. phase = "rollback" /\ phase' = "rollback" /\ todo' = {}
      /\ running' = Restored
  BY DEF RollbackEdit, EditInv, Phases
<1>3. Records'
  BY <1>1, SameRecords DEF SameNodes
<1>4. Free' /\ Answers'
  BY <1>2 DEF Free, Answers
<1>5. Done'
  <2> SUFFICES ASSUME NEW i \in pos + 1..Len(undoQ), NEW n \in DOMAIN undoQ[i].cur
               PROVE  running'[n] = target[n]
    BY <1>1 DEF Done
  <2>1. i \in pos..Len(undoQ) /\ i \in 1..Len(undoQ)
    BY <1>1
  <2>2. n \in Nodes /\ running[n] = target[n]
    BY <2>1, <1>1, RecFacts DEF EditInv, RecordInv, Done
  <2>3. n \notin DOMAIN Rec.cur
    BY <1>1
  <2> QED
    BY <2>2, <2>3, <1>2 DEF Restored
<1> QED
  BY <1>3, <1>4, <1>5 DEF RecordInv

LEMMA RecordStep == EditInv /\ RecordInv /\ [Next]_vars => RecordInv'
<1> SUFFICES ASSUME EditInv, RecordInv, [Next]_vars PROVE RecordInv'
  OBVIOUS
<1>1. CASE Restart
  <2>1. undoQ' = <<>> /\ todo' = {} /\ pos' = 1 /\ phase' = "idle"
    BY <1>1 DEF EditInv, Phases, RecordInv, Answers, Restart
  <2> QED
    BY <2>1, NoRecords
<1>2. CASE Start
  BY <1>2, StartRecords
<1>3. ASSUME NEW t \in Nodes, ApplyEdit(t)
      PROVE  RecordInv'
  <2>1. t \in todo
    BY <1>3 DEF ApplyEdit
  <2> QED
    BY <1>3, <2>1, ApplyRecordInv
<1>4. CASE \/ \E t \in Nodes : RemoveNothing(t) \/ RefuseApply(t)
           \/ RootCheckFails \/ AttemptCommit
  <2>1. /\ phase = "apply" /\ phase' # "idle" /\ pos = 1 /\ pos' = 1
        /\ undoQ' = undoQ /\ running' = running
        /\ target' = target /\ before' = before /\ todo' \subseteq todo
    BY <1>4 DEF RecordInv, Answers, RemoveNothing, RefuseApply, RootCheckFails,
                AttemptCommit, AttemptRollback, data
  <2> QED
    BY <2>1, SameRecordInv
<1>5. CASE CommitEdit \/ RefuseCommit
  BY <1>5, CommitRecords
<1>6. CASE \/ ReleaseEdit \/ RefuseRollback
           \/ ReverseEdit \/ RefuseReverse \/ RestoreFailed
  <2>1. PICK res : RollbackEdit(res)
    BY <1>6 DEF ReleaseEdit, RefuseRollback, ReverseEdit, RefuseReverse,
                RestoreFailed
  <2> QED
    BY <2>1, RollbackRecords
<1>7. CASE CommitDone \/ RollbackDone
  <2>1. undoQ' = <<>> /\ todo' = {} /\ pos' = 1 /\ phase' = "idle"
    BY <1>7 DEF EditInv, Phases, CommitDone, RollbackDone, Ended
  <2> QED
    BY <2>1, NoRecords
<1>8. CASE UNCHANGED vars
  <2>1. SameNodes /\ First' = First
    BY <1>8 DEF vars, SameNodes, First
  <2>2. Records' /\ Free' /\ Done'
    BY <1>8, <2>1, SameTree DEF vars
  <2>3. Answers'
    BY <1>8 DEF vars, RecordInv, Answers
  <2> QED
    BY <2>2, <2>3 DEF RecordInv
<1> QED
  BY <1>1, <1>2, <1>3, <1>4, <1>5, <1>6, <1>7, <1>8 DEF Next

-----------------------------------------------------------------------------
(* What is reserved                                                        *)

LEMMA ReservedFacts ==
    ASSUME NEW P, NEW new, NEW n \in Nodes
    PROVE  /\ n \notin CoveredBy(P, new) => Reserve(P, new)[n] = pend[n]
           /\ Release(P, new)[n] =
                 IF n \in CoveredBy(P, new) THEN NoPend ELSE pend[n]
BY DEF Reserve, Release

LEMMA NothingReserved ==
    ASSUME EditInv, Pending, Len(undoQ) < pos
    PROVE  \A n \in Nodes \ loose : pend[n] = NoPend
<1>1. pos..Len(undoQ) = {}
  BY LenProperties DEF EditInv, TypeOK
<1> QED
  BY <1>1 DEF Pending, Called

LEMMA IdlePending ==
    ASSUME pos' = 1, \A n \in Nodes \ loose' : pend'[n] = NoPend
    PROVE  Pending'
BY DEF Pending

LEMMA ApplyPending ==
    ASSUME EditInv, RecordInv, Pending, NEW t \in todo, ApplyEdit(t)
    PROVE  Pending'
<1> DEFINE k == Len(undoQ')
<1>1. /\ Len(undoQ) \in Nat /\ k = Len(undoQ) + 1
      /\ \A i \in 1..Len(undoQ) : undoQ'[i] = undoQ[i]
      /\ undoQ'[k] = UndoRec(t)
  BY ApplyRecords
<1>2. /\ pos' = 1 /\ pos = 1 /\ target' = target /\ loose' = loose
      /\ pend' = Reserve(ApplyPoints(t), target) /\ IsThere(t)
  BY DEF ApplyEdit, RecordInv, Answers
<1>3. UndoRec(t).commit_res = "skipped" /\ PointsOf(UndoRec(t)) = ApplyPoints(t)
  <2>1. t \in Nodes /\ Subtree[t] \subseteq Domain(t)
    BY <1>2, EditFacts, NewDomain
  <2>2. \A n \in Subtree[t] : running[n] = UndoRec(t).cur[n]
    BY <2>1 DEF UndoRec
  <2>3. Points(t, target, running, t \in replace)
            = Points(t, target, UndoRec(t).cur, t \in replace)
    BY <2>1, <2>2, PointsLocal
  <2>4. /\ UndoRec(t).node = t /\ UndoRec(t).all = (t \in replace)
        /\ UndoRec(t).commit_res = "skipped"
    BY DEF UndoRec
  <2> QED
    BY <2>3, <2>4 DEF PointsOf, ApplyPoints
<1> HIDE DEF k
<1> SUFFICES ASSUME NEW n \in Nodes \ loose, pend'[n] # NoPend
             PROVE  \E i \in 1..k : /\ undoQ'[i].commit_res = "skipped"
                                    /\ n \in CoveredBy(PointsOf(undoQ'[i]), target)
  BY <1>2 DEF Pending, Called, PointsOf, k
<1>4. CASE n \in CoveredBy(ApplyPoints(t), target)
  <2>1. k \in 1..k
    BY <1>1
  <2>2. /\ undoQ'[k].commit_res = "skipped"
        /\ n \in CoveredBy(PointsOf(undoQ'[k]), target)
    BY <1>1, <1>3, <1>4
  <2> QED
    BY <2>1, <2>2
<1>5. CASE n \notin CoveredBy(ApplyPoints(t), target)
  <2>1. Called(n)
    BY <1>2, <1>5, ReservedFacts DEF Pending
  <2>2. PICK i \in 1..Len(undoQ) :
           /\ undoQ[i].commit_res = "skipped"
           /\ n \in CoveredBy(PointsOf(undoQ[i]), target)
    BY <2>1, <1>2 DEF Called
  <2>3. i \in 1..k /\ undoQ'[i] = undoQ[i]
    BY <1>1
  <2> QED
    BY <2>2, <2>3
<1> QED
  BY <1>4, <1>5

(* A step after which every reservation that is left is an old one of a    *)
(* record whose callbacks are still to be called.                          *)
LEMMA StillPending ==
    ASSUME EditInv, Pending, SameNodes, target' = target, pos' \in Nat,
           \A i \in 1..Len(undoQ) : undoQ'[i].all = undoQ[i].all,
           \A n \in Nodes \ loose' : pend'[n] # NoPend =>
               /\ n \notin loose /\ pend[n] # NoPend
               /\ \A i \in pos..Len(undoQ) :
                     /\ undoQ[i].commit_res = "skipped"
                     /\ n \in CoveredBy(PointsOf(undoQ[i]), target)
                     => pos' <= i /\ undoQ'[i].commit_res = "skipped"
    PROVE  Pending'
<1> SUFFICES ASSUME NEW n \in Nodes \ loose', pend'[n] # NoPend
             PROVE  Called(n)'
  BY DEF Pending
<1>1. PICK i \in pos..Len(undoQ) :
         /\ undoQ[i].commit_res = "skipped"
         /\ n \in CoveredBy(PointsOf(undoQ[i]), target)
  BY DEF Pending, Called
<1>2. pos' <= i /\ undoQ'[i].commit_res = "skipped"
  BY <1>1
<1>3. i \in 1..Len(undoQ) /\ i \in pos'..Len(undoQ')
  BY <1>2, LenProperties DEF EditInv, TypeOK, SameNodes
<1>4. PointsOf(undoQ[i])' = PointsOf(undoQ[i])
  BY <1>3 DEF PointsOf, SameNodes
<1>5. n \in CoveredBy(PointsOf(undoQ[i])', target')
  BY <1>1, <1>4
<1> QED
  BY <1>2, <1>3, <1>5 DEF Called

LEMMA EditPending ==
    ASSUME EditInv, RecordInv, Pending, NEW t \in Nodes,
           RemoveNothing(t) \/ RefuseApply(t)
    PROVE  Pending'
<1>1. PICK A : /\ pend' = Reserve(A, target)
               /\ loose' = loose \cup CoveredBy(A, target)
  BY DEF RemoveNothing, RefuseApply
<1>2. undoQ' = undoQ /\ target' = target /\ pos = 1 /\ pos' = 1
  BY DEF RecordInv, Answers, RemoveNothing, RefuseApply, AttemptRollback
<1>3. \A n \in Nodes \ loose' : n \notin loose /\ pend'[n] = pend[n]
  BY <1>1, ReservedFacts
<1> QED
  BY <1>2, <1>3, StillPending DEF SameNodes

LEMMA WaitPending ==
    ASSUME EditInv, RecordInv, Pending, RootCheckFails \/ AttemptCommit
    PROVE  Pending'
<1>1. /\ undoQ' = undoQ /\ target' = target /\ pos = 1 /\ pos' = 1
      /\ pend' = pend /\ loose' = loose
  BY DEF RecordInv, Answers, RootCheckFails, AttemptCommit, AttemptRollback,
         sil, data
<1> QED
  BY <1>1, StillPending DEF SameNodes

(* COMMIT and ROLLBACK settle the record that they are called for.         *)
LEMMA RecCovered ==
    ASSUME EditInv, pos \in 1..Len(undoQ)
    PROVE  /\ RecPoints = PointsOf(undoQ[pos])
           /\ Rec.node \in Nodes
           /\ CoveredBy(RecPoints, target) \subseteq Subtree[Rec.node]
<1>1. Rec.node \in Nodes
  BY RecFacts DEF EditInv, Rec, UndoRecs
<1>2. RecPoints = PointsOf(undoQ[pos])
  BY DEF RecPoints, PointsOf, Rec
<1>3. CoveredBy(RecPoints, target) \subseteq Subtree[Rec.node]
  BY <1>1, PointsBelow DEF RecPoints
<1> QED
  BY <1>1, <1>2, <1>3

LEMMA CommitPending ==
    ASSUME EditInv, RecordInv, Pending, CommitEdit \/ RefuseCommit
    PROVE  Pending'
<1>1. /\ pos \in 1..Len(undoQ) /\ Len(undoQ) \in Nat
      /\ \A i \in 1..Len(undoQ) : i > pos => undoQ'[i].commit_res = "skipped"
      /\ \A i \in 1..Len(undoQ) : undoQ'[i].all = undoQ[i].all
      /\ SameNodes
  BY CommitWalk DEF SameNodes
<1>2. RecPoints = PointsOf(undoQ[pos])
  BY <1>1, RecCovered
<1>3. target' = target /\ pos' \in {1, pos + 1}
  BY DEF CommitEdit, RefuseCommit, AttemptRollback, data
<1>4. ASSUME NEW n \in Nodes \ loose', pend'[n] # NoPend
      PROVE  /\ n \notin loose /\ pend[n] # NoPend
             /\ n \notin CoveredBy(RecPoints, target)
  <2>1. CASE CommitEdit
    BY <2>1, <1>4, ReservedFacts DEF CommitEdit
  <2>2. CASE RefuseCommit
    <3>1. PICK r \in RecPoints :
             /\ pend' = Release({r}, target)
             /\ loose' = loose \cup CoveredBy(RecPoints \ {r}, target)
      BY <2>2 DEF RefuseCommit
    <3>2. n \notin CoveredBy({r}, target) /\ pend[n] # NoPend
      BY <1>4, <3>1, ReservedFacts
    <3>3. n \notin CoveredBy(RecPoints \ {r}, target) /\ n \notin loose
      BY <1>4, <3>1
    <3>4. n \notin CoveredBy(RecPoints, target)
      BY <3>2, <3>3 DEF CoveredBy
    <3> QED
      BY <3>2, <3>3, <3>4
  <2> QED
    BY <2>1, <2>2
<1>5. ASSUME NEW n \in Nodes \ loose', pend'[n] # NoPend,
             NEW i \in pos..Len(undoQ),
             n \in CoveredBy(PointsOf(undoQ[i]), target)
      PROVE  pos' <= i /\ undoQ'[i].commit_res = "skipped"
  <2>1. i # pos
    BY <1>2, <1>4, <1>5
  <2>2. i \in 1..Len(undoQ) /\ i > pos /\ i >= 1 /\ i >= pos + 1
    BY <1>1, <2>1
  <2> QED
    BY <1>1, <1>3, <2>2
<1>6. pos' \in Nat
  BY <1>1, <1>3
<1> QED
  BY <1>1, <1>3, <1>4, <1>5, <1>6, StillPending

LEMMA RollbackPending ==
    ASSUME EditInv, RecordInv, Pending,
           \/ ReleaseEdit \/ RefuseRollback
           \/ ReverseEdit \/ RefuseReverse \/ RestoreFailed
    PROVE  Pending'
<1>1. PICK res : RollbackEdit(res)
  BY DEF ReleaseEdit, RefuseRollback, ReverseEdit, RefuseReverse, RestoreFailed
<1>2. /\ pos \in 1..Len(undoQ) /\ Len(undoQ) \in Nat
      /\ undoQ' = undoQ /\ pos' = pos + 1 /\ target' = target
      /\ Rec = undoQ[pos]
  BY <1>1, RollbackWalk
<1>3. RecPoints = PointsOf(undoQ[pos])
  BY <1>2, RecCovered
<1>4. ASSUME NEW n \in Nodes \ loose', pend'[n] # NoPend
      PROVE  /\ n \notin loose /\ pend[n] # NoPend
             /\ ~(/\ undoQ[pos].commit_res = "skipped"
                  /\ n \in CoveredBy(PointsOf(undoQ[pos]), target))
  <2>1. CASE ReleaseEdit
    BY <2>1, <1>3, <1>4, ReservedFacts DEF ReleaseEdit
  <2>2. CASE RefuseRollback
    BY <2>2, <1>3, <1>4 DEF RefuseRollback
  <2>3. CASE ReverseEdit
    BY <2>3, <1>2, <1>4, ReservedFacts DEF ReverseEdit, RollbackEdit
  <2>4. CASE RefuseReverse
    BY <2>4, <1>2, <1>4 DEF RefuseReverse, RollbackEdit
  <2>5. CASE RestoreFailed
    BY <2>5, <1>2, <1>4 DEF RestoreFailed, RollbackEdit, sil
  <2> QED
    BY <2>1, <2>2, <2>3, <2>4, <2>5
<1>5. ASSUME NEW n \in Nodes \ loose', pend'[n] # NoPend,
             NEW i \in pos..Len(undoQ), undoQ[i].commit_res = "skipped",
             n \in CoveredBy(PointsOf(undoQ[i]), target)
      PROVE  pos' <= i /\ undoQ'[i].commit_res = "skipped"
  <2>1. i # pos
    BY <1>4, <1>5
  <2>2. i >= pos + 1
    BY <1>2, <2>1
  <2> QED
    BY <1>2, <1>5, <2>2
<1>6. pos' \in Nat
  BY <1>2
<1> QED
  BY <1>2, <1>4, <1>5, <1>6, StillPending DEF SameNodes

LEMMA PendingStep ==
    EditInv /\ RecordInv /\ Pending /\ [Next]_vars => Pending'
<1> SUFFICES ASSUME EditInv, RecordInv, Pending, [Next]_vars PROVE Pending'
  OBVIOUS
<1>1. CASE Restart
  <2>1. pos' = 1 /\ \A n \in Nodes : pend'[n] = NoPend
    BY <1>1 DEF RecordInv, Answers, Restart
  <2> QED
    BY <2>1, IdlePending
<1>2. CASE Start \/ CommitDone \/ RollbackDone
  <2>1. Len(undoQ) < pos
    <3>1. Len(undoQ) \in Nat /\ pos \in Nat
      BY LenProperties DEF EditInv, TypeOK
    <3>2. CASE Start
      <4>1. pos = 1 /\ Len(undoQ) = 0
        BY <3>2, EmptySeq DEF EditInv, Phases, RecordInv, Answers, Start
      <4> QED
        BY <4>1
    <3>3. CASE CommitDone \/ RollbackDone
      BY <3>1, <3>3 DEF CommitDone, RollbackDone
    <3> QED
      BY <1>2, <3>2, <3>3
  <2>2. pos' = 1 /\ pend' = pend /\ loose \subseteq loose'
    BY <1>2 DEF RecordInv, Answers, Start, CommitDone, RollbackDone, Ended, sil
  <2>3. \A n \in Nodes \ loose' : pend'[n] = NoPend
    BY <2>1, <2>2, NothingReserved
  <2> QED
    BY <2>2, <2>3, IdlePending
<1>3. ASSUME NEW t \in Nodes, ApplyEdit(t) \/ RemoveNothing(t) \/ RefuseApply(t)
      PROVE  Pending'
  <2>1. t \in todo
    BY <1>3 DEF ApplyEdit, RemoveNothing, RefuseApply
  <2> QED
    BY <1>3, <2>1, ApplyPending, EditPending
<1>4. CASE RootCheckFails \/ AttemptCommit
  BY <1>4, WaitPending
<1>5. CASE CommitEdit \/ RefuseCommit
  BY <1>5, CommitPending
<1>6. CASE \/ ReleaseEdit \/ RefuseRollback
           \/ ReverseEdit \/ RefuseReverse \/ RestoreFailed
  BY <1>6, RollbackPending
<1>7. CASE UNCHANGED vars
  BY <1>7 DEF vars, Pending, Called, PointsOf
<1> QED
  BY <1>1, <1>2, <1>3, <1>4, <1>5, <1>6, <1>7 DEF Next

-----------------------------------------------------------------------------
(* What is activated                                                       *)

LEMMA ActivatedFacts ==
    ASSUME NEW P, NEW new, NEW n \in Nodes
    PROVE  Activate(P, new)[n] =
               IF n \in CoveredBy(P, new) THEN new[n] ELSE conf[n]
BY DEF Activate

LEMMA ClosedConfig ==
    ASSUME NEW c \in Config, NEW t \in Nodes, NEW new,
           \A n \in Subtree[t] : new[n] = c[n]
    PROVE  Closed(t, new)
<1>1. \A a \in Subtree[t] : a \in Nodes /\ Subtree[a] \subseteq Subtree[t]
  BY TreeFacts, TreeAssumption
<1> QED
  BY <1>1, ConfigFacts DEF Closed

(* A step that leaves the instrumentation alone.                           *)
LEMMA SameActive ==
    ASSUME Active, conf' = conf, before' = before, target' = target,
           loose \subseteq loose',
           \A n \in Nodes \ loose' : Committed(n)' <=> Committed(n)
    PROVE  Active'
<1> SUFFICES ASSUME NEW n \in Nodes \ loose', Reached(n)
             PROVE  conf[n] = IF Committed(n)' THEN target[n] ELSE before[n]
  BY DEF Active, Reached, Handlers, Above
<1>1. conf[n] = IF Committed(n) THEN target[n] ELSE before[n]
  BY DEF Active
<1> QED
  BY <1>1

LEMMA NoneCommitted ==
    ASSUME EditInv, RecordInv, phase \in {"idle", "apply"}
    PROVE  \A n : ~Committed(n)
<1>1. CASE phase = "idle"
  <2>1. Len(undoQ) = 0 /\ First = 1
    BY <1>1, EmptySeq DEF EditInv, Phases, First
  <2> QED
    BY <2>1 DEF Committed
<1>2. CASE phase = "apply"
  <2>1. First = 1 /\ pos = 1
    BY <1>2 DEF First, RecordInv, Answers
  <2>2. \A i \in 1..Len(undoQ) : undoQ[i].commit_res = "skipped"
    BY <1>2, <2>1 DEF RecordInv, Answers
  <2> QED
    BY <2>1, <2>2 DEF Committed
<1> QED
  BY <1>1, <1>2

(* No record is committed while edits are applied.                         *)
LEMMA EditActive ==
    ASSUME EditInv, RecordInv, RecordInv', Active,
           phase \in {"idle", "apply"}, phase' = "apply",
           conf' = conf, before' = before, loose \subseteq loose'
    PROVE  Active'
<1>1. \A n : ~Committed(n)
  BY NoneCommitted
<1>2. \A n : ~Committed(n)'
  <2>1. First' = 1 /\ pos' = 1
    BY DEF First, RecordInv, Answers
  <2>2. \A i \in 1..Len(undoQ') : undoQ'[i].commit_res = "skipped"
    BY <2>1 DEF RecordInv, Answers
  <2> QED
    BY <2>1, <2>2 DEF Committed
<1> QED
  BY <1>1, <1>2 DEF Active, Reached, Handlers, Above

LEMMA StartActive ==
    ASSUME EditInv, RecordInv, RecordInv', Active, Start
    PROVE  Active'
<1>1. /\ phase = "idle" /\ phase' = "apply" /\ conf' = conf
      /\ loose' = loose /\ before' = running
  BY DEF Start, sil
<1>2. running = before
  <2>1. Len(undoQ) < First
    BY <1>1, EmptySeq DEF EditInv, Phases, First
  <2> QED
    BY <2>1, NothingToUndo
<1> QED
  BY <1>1, <1>2, EditActive

LEMMA GiveUpActive ==
    ASSUME EditInv, RecordInv, Active, phase = "apply", undoQ' = undoQ,
           phase' = "rollback" => pos' = 1,
           conf' = conf, before' = before, target' = target,
           loose \subseteq loose'
    PROVE  Active'
<1>1. First' = First
  BY DEF First
<1>2. \A n : Committed(n)' <=> Committed(n)
  BY <1>1 DEF Committed
<1> QED
  BY <1>2, SameActive

(* A COMMIT of a record activates everything that its edit has changed.    *)
LEMMA CommitActive ==
    ASSUME EditInv, RecordInv, Active, CommitEdit
    PROVE  Active'
<1>1. /\ pos \in 1..Len(undoQ) /\ Len(undoQ) \in Nat
      /\ Len(undoQ') = Len(undoQ)
      /\ \A i \in 1..Len(undoQ) :
            /\ undoQ'[i].node = undoQ[i].node
            /\ undoQ'[i].commit_res = IF i <= pos THEN "ok" ELSE "skipped"
  BY CommitWalk
<1>2. \A i \in 1..Len(undoQ) :
         undoQ[i].commit_res = IF i < pos THEN "ok" ELSE "skipped"
  BY DEF RecordInv, Answers, CommitEdit
<1>3. /\ First = 1 /\ First' = 1
      /\ target' = target /\ before' = before /\ loose' = loose
      /\ conf' = Activate(RecPoints, target)
  BY DEF CommitEdit, First, data
<1>4. \A n : Committed(n)' <=> Committed(n) \/ n \in Subtree[undoQ[pos].node]
  BY <1>1, <1>2, <1>3 DEF Committed
<1>5. /\ Rec = undoQ[pos] /\ Rec.node \in Nodes
      /\ CoveredBy(RecPoints, target) \subseteq Subtree[Rec.node]
  BY <1>1, RecCovered DEF Rec
<1> SUFFICES ASSUME NEW n \in Nodes \ loose, Reached(n)
             PROVE  conf'[n] = IF Committed(n)' THEN target[n] ELSE before[n]
  BY <1>3 DEF Active, Reached, Handlers, Above
<1>6. conf[n] = IF Committed(n) THEN target[n] ELSE before[n]
  BY DEF Active
<1>7. conf'[n] = IF n \in CoveredBy(RecPoints, target) THEN target[n] ELSE conf[n]
  BY <1>3, ActivatedFacts
<1>8. ASSUME n \in Subtree[Rec.node], n \notin CoveredBy(RecPoints, target)
      PROVE  target[n] = before[n]
  <2>1. Closed(Rec.node, target)
    BY <1>5, ClosedConfig DEF EditInv, TypeOK
  <2>2. target[n] = Rec.cur[n]
    BY <1>5, <1>8, <2>1, ChangesAreCovered DEF RecPoints
  <2>3. n \in DOMAIN Rec.cur
    BY <1>1, <1>5, <1>8 DEF RecordInv, Records
  <2>4. Rec.cur[n] = before[n]
    BY <1>1, <1>5, <2>3 DEF EditInv, Kept
  <2> QED
    BY <2>2, <2>4
<1> QED
  BY <1>4, <1>5, <1>6, <1>7, <1>8

LEMMA RefuseCommitActive ==
    ASSUME EditInv, RecordInv, Active, RefuseCommit
    PROVE  Active'
<1>1. /\ pos \in 1..Len(undoQ) /\ Len(undoQ) \in Nat
      /\ Len(undoQ') = Len(undoQ)
      /\ \A i \in 1..Len(undoQ) :
            /\ undoQ'[i].node = undoQ[i].node
            /\ undoQ'[i].commit_res = "ok" <=> i < pos
  <2>1. ~CommitEdit
    BY DEF CommitEdit, RefuseCommit, AttemptRollback
  <2> QED
    BY <2>1, CommitWalk
<1>2. \A i \in 1..Len(undoQ) : undoQ[i].commit_res = "ok" <=> i < pos
  BY DEF RecordInv, Answers, RefuseCommit
<1>3. /\ First = 1 /\ First' = 1
      /\ target' = target /\ before' = before /\ loose \subseteq loose'
      /\ conf' = conf
  BY DEF RefuseCommit, AttemptRollback, First
<1>4. \A n : Committed(n)' <=> Committed(n)
  BY <1>1, <1>2, <1>3 DEF Committed
<1> QED
  BY <1>3, <1>4, SameActive

(* The callbacks that undo a record are about its nodes only, and about    *)
(* every node of it that the edit itself was about and that has changed.   *)
LEMMA ReverseFacts ==
    ASSUME EditInv, RecordInv, NEW res, RollbackEdit(res)
    PROVE  /\ CoveredBy(ReversePoints, Restored) \subseteq DOMAIN Rec.cur
           /\ \A n \in Subtree[Rec.node] :
                 Reached(n) /\ n \notin CoveredBy(ReversePoints, Restored)
                 => before[n] = target[n]
<1>1. /\ Rec.node \in Nodes
      /\ Subtree[Rec.node] \subseteq DOMAIN Rec.cur
      /\ DOMAIN Rec.cur \subseteq Nodes
      /\ \A m \in DOMAIN Rec.cur : Subtree[m] \subseteq DOMAIN Rec.cur
      /\ \A n \in DOMAIN Rec.cur : /\ Restored[n] = before[n]
                                   /\ running[n] = target[n]
  BY RollbackWalk
<1> DEFINE OfNode == Points(Rec.node, Restored, running, FALSE)
<1>2. CoveredBy(OfNode, Restored) \subseteq Subtree[Rec.node]
  BY <1>1, PointsBelow
<1>3. ASSUME NEW n \in CoveredBy(ReversePoints, Restored)
      PROVE  n \in DOMAIN Rec.cur
  <2>1. PICK a \in ReversePoints : n \in Covers(a, Restored)
    BY DEF CoveredBy
  <2>2. CASE a \in OfNode
    <3>1. n \in CoveredBy(OfNode, Restored)
      BY <2>1, <2>2 DEF CoveredBy
    <3> QED
      BY <1>1, <1>2, <3>1
  <2>3. CASE a \notin OfNode
    <3>1. PICK r \in DOMAIN Rec.cur : a \in Points(r, Restored, running, FALSE)
      BY <2>3 DEF ReversePoints
    <3>2. CoveredBy(Points(r, Restored, running, FALSE), Restored) \subseteq Subtree[r]
      BY <1>1, PointsBelow
    <3>3. n \in CoveredBy(Points(r, Restored, running, FALSE), Restored)
      BY <2>1, <3>1 DEF CoveredBy
    <3> QED
      BY <1>1, <3>2, <3>3
  <2> QED
    BY <2>2, <2>3
<1>4. ASSUME NEW n \in Subtree[Rec.node], Reached(n),
             n \notin CoveredBy(ReversePoints, Restored)
      PROVE  before[n] = target[n]
  <2>1. Closed(Rec.node, Restored)
    BY <1>1, ClosedConfig DEF EditInv, TypeOK
  <2>2. n \notin CoveredBy(OfNode, Restored)
    BY <1>4 DEF ReversePoints, CoveredBy
  <2>3. Restored[n] = running[n]
    BY <1>1, <1>4, <2>1, <2>2, ChangesAreCovered
  <2> QED
    BY <1>1, <2>3
<1> QED
  BY <1>3, <1>4

LEMMA RollbackActive ==
    ASSUME EditInv, RecordInv, Active,
           \/ ReleaseEdit \/ RefuseRollback
           \/ ReverseEdit \/ RefuseReverse \/ RestoreFailed
    PROVE  Active'
<1>1. PICK res : RollbackEdit(res)
  BY DEF ReleaseEdit, RefuseRollback, ReverseEdit, RefuseReverse, RestoreFailed
<1>2. /\ pos \in 1..Len(undoQ) /\ Len(undoQ) \in Nat
      /\ First = pos /\ First' = pos + 1
      /\ undoQ' = undoQ /\ target' = target /\ before' = before
      /\ Rec = undoQ[pos]
      /\ Subtree[Rec.node] \subseteq DOMAIN Rec.cur
      /\ \A n \in DOMAIN Rec.cur : Restored[n] = before[n]
      /\ \A i \in pos + 1..Len(undoQ) : \A n \in DOMAIN Rec.cur :
            n \notin Subtree[undoQ[i].node]
  BY <1>1, RollbackWalk
<1>3. ASSUME NEW n
      PROVE  Committed(n) <=>
                Committed(n)' \/ (Rec.commit_res = "ok" /\ n \in Subtree[Rec.node])
  <2>1. pos..Len(undoQ) = {pos} \cup (pos + 1..Len(undoQ))
    BY <1>2
  <2> QED
    BY <1>2, <2>1 DEF Committed
<1>4. \A n \in DOMAIN Rec.cur : ~Committed(n)'
  BY <1>2 DEF Committed
<1>5. CASE ReleaseEdit \/ RefuseRollback \/ RestoreFailed
  <2>1. /\ conf' = conf /\ loose \subseteq loose' /\ Rec.commit_res # "ok"
    BY <1>5 DEF ReleaseEdit, RefuseRollback, RestoreFailed, RollbackEdit, sil
  <2> QED
    BY <1>2, <1>3, <2>1, SameActive
<1>6. CASE ReverseEdit \/ RefuseReverse
  <2> DEFINE C == CoveredBy(ReversePoints, Restored)
  <2>1. /\ Rec.commit_res = "ok" /\ loose \subseteq loose'
        /\ \A n \in Nodes \ loose' :
              conf'[n] = IF n \in C THEN Restored[n] ELSE conf[n]
    <3>1. CASE ReverseEdit
      BY <3>1, ActivatedFacts DEF ReverseEdit, RollbackEdit
    <3>2. CASE RefuseReverse
      BY <3>2 DEF RefuseReverse, RollbackEdit
    <3> QED
      BY <1>6, <3>1, <3>2
  <2>2. /\ C \subseteq DOMAIN Rec.cur
        /\ \A n \in Subtree[Rec.node] :
              Reached(n) /\ n \notin C => before[n] = target[n]
    BY <1>1, ReverseFacts
  <2> HIDE DEF C
  <2> SUFFICES ASSUME NEW n \in Nodes \ loose', Reached(n)
               PROVE  conf'[n] = IF Committed(n)' THEN target[n] ELSE before[n]
    BY <1>2 DEF Active, Reached, Handlers, Above
  <2>3. conf[n] = IF Committed(n) THEN target[n] ELSE before[n]
    BY <2>1 DEF Active
  <2>4. conf'[n] = IF n \in C THEN Restored[n] ELSE conf[n]
    BY <2>1
  <2>5. CASE n \in C
    BY <1>2, <1>4, <2>2, <2>4, <2>5
  <2>6. CASE n \notin C /\ n \in Subtree[Rec.node]
    <3>1. ~Committed(n)' /\ Committed(n)
      BY <1>2, <1>3, <1>4, <2>1, <2>6
    <3>2. before[n] = target[n]
      BY <2>2, <2>6
    <3> QED
      BY <2>3, <2>4, <2>6, <3>1, <3>2
  <2>7. CASE n \notin C /\ n \notin Subtree[Rec.node]
    BY <1>3, <2>3, <2>4, <2>7
  <2> QED
    BY <2>5, <2>6, <2>7
<1> QED
  BY <1>5, <1>6

(* At the end of a commit the only nodes that are not activated are those  *)
(* that finish_extra_deletes has freed.                                    *)
LEMMA CommitDoneActive ==
    ASSUME EditInv, RecordInv, RecordInv', Active, CommitDone
    PROVE  Active'
<1>1. /\ Len(undoQ) \in Nat /\ pos > Len(undoQ) /\ First = 1
      /\ before' = running /\ target' = running /\ conf' = conf
      /\ phase = "commit" /\ phase' = "idle"
      /\ loose' = loose \cup UNION {DOMAIN undoQ[i].cur \ Subtree[undoQ[i].node] :
                                       i \in 1..Len(undoQ)}
  BY LenProperties DEF EditInv, TypeOK, CommitDone, Ended, First
<1>2. running = target
  BY CommitOutcome
<1> SUFFICES ASSUME NEW n \in Nodes \ loose', Reached(n)
             PROVE  conf[n] = target[n]
  BY <1>1, <1>2 DEF Active, Reached, Handlers, Above
<1>3. n \notin loose
  BY <1>1
<1>4. conf[n] = IF Committed(n) THEN target[n] ELSE before[n]
  BY <1>3 DEF Active
<1>5. CASE ~Committed(n)
  <2>1. \A i \in 1..Len(undoQ) : undoQ[i].commit_res = "ok"
    BY <1>1, LenProperties DEF EditInv, TypeOK, RecordInv, Answers
  <2>2. \A i \in 1..Len(undoQ) : n \notin Subtree[undoQ[i].node]
    BY <1>1, <1>5, <2>1 DEF Committed
  <2>3. \A i \in 1..Len(undoQ) : n \notin DOMAIN undoQ[i].cur
    BY <1>1, <2>2
  <2>4. running[n] = before[n]
    BY <1>1, <2>3 DEF EditInv, Undoable
  <2> QED
    BY <1>2, <1>4, <1>5, <2>4
<1> QED
  BY <1>4, <1>5

LEMMA RollbackDoneActive ==
    ASSUME EditInv, RecordInv, Active, RollbackDone
    PROVE  Active'
<1>1. /\ Len(undoQ) \in Nat /\ pos > Len(undoQ) /\ First = pos /\ pos \in Nat
      /\ before' = running /\ target' = running /\ conf' = conf
      /\ loose' = loose
  BY LenProperties DEF EditInv, TypeOK, RollbackDone, Ended, First
<1>2. running = before
  BY RollbackOutcome
<1>3. \A n : ~Committed(n)
  BY <1>1 DEF Committed
<1> QED
  BY <1>1, <1>2, <1>3 DEF Active, Reached, Handlers, Above

LEMMA ActiveStep ==
    EditInv /\ RecordInv /\ RecordInv' /\ Active /\ [Next]_vars => Active'
<1> SUFFICES ASSUME EditInv, RecordInv, RecordInv', Active, [Next]_vars
             PROVE Active'
  OBVIOUS
<1>1. CASE Restart
  BY <1>1 DEF Active, Restart
<1>2. CASE Start
  BY <1>2, StartActive
<1>3. ASSUME NEW t \in Nodes, ApplyEdit(t)
      PROVE  Active'
  <2>1. /\ phase = "apply" /\ phase' = "apply" /\ conf' = conf
        /\ before' = before /\ loose' = loose
    BY <1>3 DEF ApplyEdit
  <2> QED
    BY <2>1, EditActive
<1>4. CASE \/ \E t \in Nodes : RemoveNothing(t) \/ RefuseApply(t)
           \/ RootCheckFails \/ AttemptCommit
  <2>1. /\ phase = "apply" /\ undoQ' = undoQ
        /\ phase' = "rollback" => pos' = 1
        /\ conf' = conf /\ before' = before /\ target' = target
        /\ loose \subseteq loose'
    BY <1>4 DEF RemoveNothing, RefuseApply, RootCheckFails, AttemptCommit,
                AttemptRollback, data, sil
  <2> QED
    BY <2>1, GiveUpActive
<1>5. CASE CommitEdit \/ RefuseCommit \/ CommitDone
  BY <1>5, CommitActive, RefuseCommitActive, CommitDoneActive
<1>6. CASE \/ ReleaseEdit \/ RefuseRollback
           \/ ReverseEdit \/ RefuseReverse \/ RestoreFailed
  BY <1>6, RollbackActive
<1>7. CASE RollbackDone
  BY <1>7, RollbackDoneActive
<1>8. CASE UNCHANGED vars
  BY <1>8 DEF vars, Active, Committed, First, Reached, Handlers, Above
<1> QED
  BY <1>1, <1>2, <1>3, <1>4, <1>5, <1>6, <1>7, <1>8 DEF Next

-----------------------------------------------------------------------------
(* The theorems                                                            *)

LEMMA InitCallbacks == Init => CallbackInv
<1> SUFFICES ASSUME Init PROVE CallbackInv
  OBVIOUS
<1>1. RecordInv
  BY InitRecords
<1>2. Pending /\ Active
  BY DEF Init, Pending, Active
<1> QED
  BY <1>1, <1>2 DEF CallbackInv

LEMMA CallbackStep ==
    EditInv /\ CallbackInv /\ [Next]_vars => CallbackInv'
BY RecordStep, PendingStep, ActiveStep DEF CallbackInv

LEMMA AlwaysCallbacks == Spec => []CallbackInv
BY AlwaysEdit, InitCallbacks, CallbackStep, PTL DEF Spec

(* After a transaction no callback still holds what it reserved in APPLY,  *)
(* for any tree and any answers: attempt_commit and attempt_rollback come  *)
(* by every record with the callbacks that apply_write_val has called.     *)
THEOREM ReservationsAreSettled == Spec => []Settled
<1>1. EditInv /\ CallbackInv => Settled
  <2> SUFFICES ASSUME EditInv, CallbackInv, phase = "idle"
               PROVE  \A n \in Nodes \ loose : pend[n] = NoPend
    BY DEF Settled
  <2>1. Len(undoQ) < pos
    BY EmptySeq DEF EditInv, Phases, CallbackInv, RecordInv, Answers
  <2> QED
    BY <2>1, NothingReserved DEF CallbackInv
<1> QED
  BY <1>1, AlwaysEdit, AlwaysCallbacks, PTL

(* After a transaction the instrumentation runs what <running> shows, for  *)
(* any finite tree, any modules and any set of callbacks, at every node    *)
(* that edits reach from everywhere: COMMIT is called for all that an edit *)
(* changes there (handle_user_callback, handle_subtree_callback), and      *)
(* reverse_edit undoes it for the records that were committed before       *)
(* another one was refused.                                                *)
THEOREM InstrumentationAgrees == Spec => []Agrees
<1>1. EditInv /\ CallbackInv => Agrees
  <2> SUFFICES ASSUME EditInv, CallbackInv, phase = "idle",
                      NEW n \in Nodes \ loose, Reached(n)
               PROVE  conf[n] = running[n]
    BY DEF Agrees
  <2>1. ~Committed(n)
    BY NoneCommitted DEF CallbackInv
  <2>2. running = before
    <3>1. Len(undoQ) < First
      BY EmptySeq DEF EditInv, Phases, First
    <3> QED
      BY <3>1, NothingToUndo
  <2> QED
    BY <2>1, <2>2 DEF CallbackInv, Active
<1> QED
  BY <1>1, AlwaysEdit, AlwaysCallbacks, PTL
=============================================================================
