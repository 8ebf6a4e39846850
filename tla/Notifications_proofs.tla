------------------------ MODULE Notifications_proofs ------------------------
(***************************************************************************)
(* Theorems about Notifications for any number of sessions, any size of    *)
(* the log, any burst and any times, with their proofs.                    *)
(***************************************************************************)
EXTENDS Notifications, SequenceTheorems, FiniteSetTheorems,
        WellFoundedInduction, TLAPS

-----------------------------------------------------------------------------
(* The log.                                                                *)

(* The log holds the last events, in order; their times do not decrease;   *)
(* and nothing is counted where the log has no limit.                      *)
LogInv ==
    /\ eventlog_size \in EventlogSizes /\ maxburst \in Bursts
    /\ now \in Time
    /\ events \in Seq([time : Time, type : EventTypes])
    /\ Len(events) <= MaxEvents
    /\ notificationQ \in Seq(Nat)
    /\ Len(notificationQ) <= Len(events)
    /\ \A i \in DOMAIN notificationQ :
          notificationQ[i] = Len(events) - Len(notificationQ) + i
    /\ notification_count \in 0..Len(notificationQ)
    /\ eventlog_size = 0 => notification_count = 0
    /\ \A i, j \in 1..Len(events) : i <= j => events[i].time <= events[j].time
    /\ \A i \in 1..Len(events) : events[i].time <= now
    /\ sending \in BOOLEAN /\ sendtotal \in Nat

LEMMA LogTypes ==
    ASSUME LogInv
    PROVE  /\ Len(events) \in Nat /\ Len(notificationQ) \in Nat
           /\ MaxEvents \in Nat /\ MaxTime \in Nat
           /\ eventlog_size \in Nat /\ maxburst \in Nat
           /\ notification_count \in Nat
           /\ DOMAIN notificationQ = 1..Len(notificationQ)
           /\ DOMAIN events = 1..Len(events)
           /\ \A i \in 1..Len(events) : /\ events[i].time \in Time
                                        /\ events[i].type \in EventTypes
                                        /\ i \in Ids
<1>1. /\ events \in Seq([time : Time, type : EventTypes])
      /\ notificationQ \in Seq(Nat) /\ Len(events) <= MaxEvents
      /\ notification_count \in 0..Len(notificationQ)
      /\ eventlog_size \in Nat /\ maxburst \in Nat
      /\ MaxEvents \in Nat /\ MaxTime \in Nat
  BY ProfileAssumption DEF LogInv
<1>2. Len(events) \in Nat /\ DOMAIN events = 1..Len(events)
  BY <1>1, LenProperties
<1>3. Len(notificationQ) \in Nat /\ DOMAIN notificationQ = 1..Len(notificationQ)
  BY <1>1, LenProperties
<1>4. ASSUME NEW i \in 1..Len(events)
      PROVE  /\ events[i].time \in Time /\ events[i].type \in EventTypes
             /\ i \in Ids
  <2>1. events[i] \in [time : Time, type : EventTypes]
    BY <1>1, <1>2, ElementOfSeq
  <2> QED
    BY <1>1, <1>2, <2>1 DEF Ids
<1>5. notification_count \in Nat
  BY <1>1, <1>3
<1> QED
  BY <1>1, <1>2, <1>3, <1>4, <1>5

(* A sequence of the last numbers up to n.                                 *)
LEMMA Suffix ==
    ASSUME NEW n \in Nat, NEW q \in Seq(Nat), Len(q) <= n,
           \A i \in DOMAIN q : q[i] = n - Len(q) + i
    PROVE  {q[i] : i \in DOMAIN q} = (n - Len(q) + 1)..n
<1>1. DOMAIN q = 1..Len(q) /\ Len(q) \in Nat
  BY LenProperties
<1>2. ASSUME NEW k \in (n - Len(q) + 1)..n
      PROVE  k \in {q[i] : i \in DOMAIN q}
  <2> DEFINE i == k - (n - Len(q))
  <2>1. i \in DOMAIN q
    BY <1>1
  <2>2. q[i] = n - Len(q) + i
    BY <2>1
  <2>3. q[i] = k
    BY <1>1, <2>2
  <2> QED
    BY <2>1, <2>3
<1>3. ASSUME NEW i \in DOMAIN q
      PROVE  q[i] \in (n - Len(q) + 1)..n
  <2>1. q[i] = n - Len(q) + i
    OBVIOUS
  <2> QED
    BY <1>1, <2>1
<1> QED
  BY <1>2, <1>3

LEMMA LoggedIs ==
    ASSUME LogInv
    PROVE  /\ Logged = (Len(events) - Len(notificationQ) + 1)..Len(events)
           /\ Logged \subseteq 1..Len(events)
           /\ Logged \subseteq Ids
           /\ Logged \subseteq Nat
<1>1. /\ DOMAIN notificationQ = 1..Len(notificationQ)
      /\ Len(events) \in Nat /\ Len(notificationQ) \in Nat
      /\ Len(notificationQ) <= Len(events) /\ Len(events) <= MaxEvents
      /\ MaxEvents \in Nat /\ notificationQ \in Seq(Nat)
      /\ \A i \in DOMAIN notificationQ :
            notificationQ[i] = Len(events) - Len(notificationQ) + i
  BY LogTypes DEF LogInv
<1>2. Logged = (Len(events) - Len(notificationQ) + 1)..Len(events)
  BY <1>1, Suffix DEF Logged
<1>3. (Len(events) - Len(notificationQ) + 1)..Len(events) \subseteq 1..Len(events)
  BY <1>1
<1>4. 1..Len(events) \subseteq Ids /\ 1..Len(events) \subseteq Nat
  BY <1>1 DEF Ids
<1> QED
  BY <1>2, <1>3, <1>4, Zenon

(* A set of numbers that is not empty has a least one.                     *)
LEMMA LeastIs ==
    ASSUME NEW T, T \subseteq Nat, T # {}
    PROVE  Least(T) \in T /\ \A y \in T : Least(T) <= y
<1>1. \E x \in T : \A y \in T : ~ (<<y, x>> \in OpToRel(<, Nat))
  BY NatLessThanWellFounded, WFMin
<1>2. PICK x \in T : \A y \in T : ~ (<<y, x>> \in OpToRel(<, Nat))
  BY <1>1
<1>3. ASSUME NEW y \in T, y < x PROVE FALSE
  <2>1. <<y, x>> \in Nat \X Nat /\ <<y, x>>[1] < <<y, x>>[2]
    BY <1>3
  <2> QED
    BY <2>1, <1>2, Zenon DEF OpToRel
<1>4. \A y \in T : ~(y < x)
  BY <1>3
<1>5. \A y \in T : x <= y
  <2> TAKE y \in T
  <2>1. x \in Nat /\ y \in Nat /\ ~(y < x)
    BY <1>4
  <2> QED
    BY <2>1
<1> QED
  BY <1>5, Zenon DEF Least

(* get_entry_after finds the next entry of the log, if there is one.       *)
LEMMA AfterIs ==
    ASSUME LogInv, NEW id \in Nat
    PROVE  /\ get_entry_after(id) \in Logged \cup {Null}
           /\ get_entry_after(id) # Null =>
                 /\ get_entry_after(id) > id
                 /\ \A i \in Logged : i > id => get_entry_after(id) <= i
           /\ get_entry_after(id) = Null => \A i \in Logged : i <= id
<1> DEFINE later == {i \in Logged : i > id}
<1>1. get_entry_after(id) = IF later = {} THEN Null ELSE Least(later)
  BY DEF get_entry_after
<1>2. later \subseteq Nat /\ Logged \subseteq Nat /\ Logged \subseteq 1..Len(events)
  BY LoggedIs
<1>3. CASE later = {}
  <2>1. \A i \in Logged : i <= id
    BY <1>2, <1>3
  <2> QED
    BY <1>1, <1>3, <2>1 DEF Null
<1>4. CASE later # {}
  <2>1. Least(later) \in later /\ \A y \in later : Least(later) <= y
    <3> HIDE DEF later
    <3> QED
      BY <1>2, <1>4, LeastIs
  <2>2. Least(later) # Null
    BY <1>2, <2>1, LogTypes DEF Null
  <2> QED
    BY <1>1, <1>4, <2>1, <2>2
<1> QED
  BY <1>3, <1>4

LEMMA LastEntryIs ==
    ASSUME LogInv
    PROVE  /\ LastEntry \in Logged \cup {Null}
           /\ LastEntry # Null => LastEntry = Len(events)
           /\ LastEntry = Null => Logged = {}
<1>1. /\ DOMAIN notificationQ = 1..Len(notificationQ)
      /\ Len(events) \in Nat /\ Len(notificationQ) \in Nat
      /\ Len(notificationQ) <= Len(events) /\ notificationQ \in Seq(Nat)
  BY LogTypes DEF LogInv
<1>2. CASE notificationQ = <<>>
  BY <1>1, <1>2 DEF LastEntry, Logged
<1>3. CASE notificationQ # <<>>
  <2>1. Len(notificationQ) \in DOMAIN notificationQ
    BY <1>1, <1>3, EmptySeq
  <2>2. notificationQ[Len(notificationQ)] = Len(events)
    BY <1>1, <2>1 DEF LogInv
  <2>3. Len(events) \in Logged /\ Len(events) # Null
    BY <1>1, <2>1, <2>2 DEF Logged, Null
  <2> QED
    BY <1>3, <2>2, <2>3 DEF LastEntry
<1> QED
  BY <1>2, <1>3

(* The next number behind such a sequence, with and without its head.      *)
LEMMA SuffixAppend ==
    ASSUME NEW n \in Nat, NEW q \in Seq(Nat), Len(q) <= n,
           \A i \in DOMAIN q : q[i] = n - Len(q) + i,
           NEW r, r = Append(q, n + 1)
    PROVE  /\ r \in Seq(Nat) /\ Len(r) = Len(q) + 1
           /\ \A i \in DOMAIN r : r[i] = (n + 1) - Len(r) + i
<1>1. Len(q) \in Nat /\ DOMAIN q = 1..Len(q) /\ n + 1 \in Nat
  BY LenProperties
<1>2. /\ r \in Seq(Nat) /\ Len(r) = Len(q) + 1
      /\ \A i \in 1..Len(q) : r[i] = q[i]
      /\ r[Len(q) + 1] = n + 1
  BY <1>1, AppendProperties
<1>3. DOMAIN r = 1..(Len(q) + 1)
  BY <1>2, LenProperties
<1>4. ASSUME NEW i \in 1..(Len(q) + 1)
      PROVE  r[i] = (n + 1) - Len(r) + i
  <2>1. CASE i = Len(q) + 1
    BY <1>1, <1>2, <2>1
  <2>2. CASE i # Len(q) + 1
    <3>1. i \in 1..Len(q)
      BY <1>1, <2>2
    <3>2. r[i] = n - Len(q) + i
      BY <1>1, <1>2, <3>1
    <3> QED
      BY <1>1, <1>2, <3>1, <3>2
  <2> QED
    BY <2>1, <2>2
<1> QED
  BY <1>2, <1>3, <1>4

LEMMA SuffixTail ==
    ASSUME NEW n \in Nat, NEW q \in Seq(Nat), Len(q) <= n, q # <<>>,
           \A i \in DOMAIN q : q[i] = n - Len(q) + i,
           NEW r, r = Tail(q)
    PROVE  /\ r \in Seq(Nat) /\ Len(r) = Len(q) - 1
           /\ \A i \in DOMAIN r : r[i] = n - Len(r) + i
           /\ Head(q) = n - Len(q) + 1
<1>1. Len(q) \in Nat /\ DOMAIN q = 1..Len(q)
  BY LenProperties
<1>2. Len(q) >= 1
  BY <1>1, EmptySeq
<1>3. /\ r \in Seq(Nat) /\ Len(r) = Len(q) - 1
      /\ \A i \in 1..Len(r) : r[i] = q[i + 1]
      /\ Head(q) = q[1]
  BY HeadTailProperties
<1>4. DOMAIN r = 1..Len(r)
  BY <1>3, LenProperties
<1>5. ASSUME NEW i \in 1..Len(r)
      PROVE  r[i] = n - Len(r) + i
  <2>1. i + 1 \in 1..Len(q)
    BY <1>1, <1>2, <1>3
  <2>2. r[i] = n - Len(q) + (i + 1)
    BY <1>1, <1>3, <2>1
  <2> QED
    BY <1>1, <1>3, <2>2
<1>6. 1 \in DOMAIN q
  BY <1>1, <1>2
<1> QED
  BY <1>3, <1>4, <1>5, <1>6

(* An event that is queued: it is the last of the log, and at most the     *)
(* oldest entry goes.                                                      *)
LEMMA QueueLog ==
    ASSUME LogInv, NEW type \in EventTypes, agt_not_queue_notification(type)
    PROVE  /\ LogInv'
           /\ Len(events') = Len(events) + 1
           /\ \A i \in 1..Len(events) : events'[i] = events[i]
           /\ events'[Len(events) + 1] = [time |-> now, type |-> type]
           /\ Logged' \subseteq Logged \cup {Len(events) + 1}
           /\ \/ sub' = sub /\ Logged \subseteq Logged'
              \/ /\ notificationQ # <<>>
                 /\ ClearPointers(Head(notificationQ))
                 /\ Logged \ {Head(notificationQ)} \subseteq Logged'
                 /\ Head(notificationQ) \notin Logged'
<1> DEFINE n == Len(events)
           q == notificationQ
           e == [time |-> now, type |-> type]
<1>1. /\ n \in Nat /\ Len(q) \in Nat /\ Len(q) <= n /\ q \in Seq(Nat)
      /\ DOMAIN q = 1..Len(q) /\ DOMAIN events = 1..n
      /\ eventlog_size \in Nat /\ notification_count \in Nat
      /\ \A i \in DOMAIN q : q[i] = n - Len(q) + i
      /\ events \in Seq([time : Time, type : EventTypes])
      /\ now \in Time
  BY LogTypes DEF LogInv
<1>2. /\ n < MaxEvents /\ events' = Append(events, e)
      /\ eventlog_size' = eventlog_size /\ maxburst' = maxburst /\ now' = now
      /\ sending' = sending /\ sendtotal' = sendtotal
  BY DEF agt_not_queue_notification, profile
<1>3. e \in [time : Time, type : EventTypes]
  BY <1>1
<1>4. /\ events' \in Seq([time : Time, type : EventTypes])
      /\ Len(events') = n + 1
      /\ \A i \in 1..n : events'[i] = events[i]
      /\ events'[n + 1] = e
  BY <1>1, <1>2, <1>3, AppendProperties
<1>5. /\ \A i, j \in 1..(n + 1) : i <= j => events'[i].time <= events'[j].time
      /\ \A i \in 1..(n + 1) : events'[i].time <= now
  <2>1. \A i, j \in 1..n : i <= j => events[i].time <= events[j].time
    BY DEF LogInv
  <2>2. \A i \in 1..n : events[i].time <= now
    BY DEF LogInv
  <2>3. \A i \in 1..(n + 1) : events'[i].time <= now
    <3> TAKE i \in 1..(n + 1)
    <3>1. CASE i = n + 1
      BY <1>1, <1>4, <3>1 DEF Time
    <3>2. CASE i # n + 1
      <4>1. i \in 1..n
        BY <1>1, <3>2
      <4>2. events'[i] = events[i] /\ events[i].time <= now
        BY <1>4, <2>2, <4>1
      <4> QED
        BY <4>2
    <3> QED
      BY <3>1, <3>2
  <2>4. ASSUME NEW i \in 1..(n + 1), NEW j \in 1..(n + 1), i <= j
        PROVE  events'[i].time <= events'[j].time
    <3>1. CASE j = n + 1
      BY <1>4, <2>3, <3>1
    <3>2. CASE j # n + 1
      BY <1>1, <1>4, <2>1, <2>4, <3>2
    <3> QED
      BY <3>1, <3>2
  <2> QED
    BY <2>3, <2>4
<1>6. /\ n + 1 <= MaxEvents
      /\ eventlog_size \in EventlogSizes /\ maxburst \in Bursts
      /\ sending \in BOOLEAN /\ sendtotal \in Nat
  BY <1>1, <1>2, ProfileAssumption DEF LogInv
<1>7. CASE LogFull /\ q # <<>>
  <2>1. /\ notificationQ' = Append(Tail(q), n + 1)
        /\ notification_count' = notification_count - 1
        /\ ClearPointers(Head(q))
    BY <1>7 DEF agt_not_queue_notification
  <2>2. /\ Tail(q) \in Seq(Nat) /\ Len(Tail(q)) = Len(q) - 1
        /\ \A i \in DOMAIN Tail(q) : Tail(q)[i] = n - Len(Tail(q)) + i
        /\ Head(q) = n - Len(q) + 1
    <3> HIDE DEF n, q
    <3> QED
      BY <1>1, <1>7, SuffixTail
  <2>3. /\ notificationQ' \in Seq(Nat) /\ Len(notificationQ') = Len(q)
        /\ \A i \in DOMAIN notificationQ' :
              notificationQ'[i] = (n + 1) - Len(notificationQ') + i
    <3> DEFINE t == Tail(q)
               r == notificationQ'
    <3>1. /\ n \in Nat /\ t \in Seq(Nat) /\ Len(t) <= n
          /\ \A i \in DOMAIN t : t[i] = n - Len(t) + i
          /\ r = Append(t, n + 1)
      BY <1>1, <2>1, <2>2
    <3>2. Len(t) + 1 = Len(q)
      BY <1>1, <2>2
    <3>3. /\ r \in Seq(Nat) /\ Len(r) = Len(t) + 1
          /\ \A i \in DOMAIN r : r[i] = (n + 1) - Len(r) + i
      <4> HIDE DEF n, q, t, r
      <4> QED
        BY <3>1, SuffixAppend
    <3> QED
      BY <3>2, <3>3
  <2>5. Logged' = ((n + 1) - Len(q) + 1)..(n + 1)
    <3>1. n + 1 \in Nat /\ Len(notificationQ') <= n + 1
      BY <1>1, <2>3
    <3>2. {notificationQ'[i] : i \in DOMAIN notificationQ'} =
             ((n + 1) - Len(notificationQ') + 1)..(n + 1)
      <4> HIDE DEF n, q
      <4> QED
        BY <2>3, <3>1, Suffix
    <3> QED
      BY <2>3, <3>2 DEF Logged
  <2>6. Logged = (n - Len(q) + 1)..n
    BY LoggedIs
  <2>7. Head(q) = n - Len(q) + 1 /\ Len(q) >= 1
    BY <1>1, <1>7, <2>2, EmptySeq
  <2>8. notification_count' \in 0..Len(q) /\ eventlog_size > 0
    <3>1. notification_count >= eventlog_size /\ eventlog_size > 0
      BY <1>7 DEF LogFull
    <3>2. notification_count <= Len(q)
      BY <1>1 DEF LogInv
    <3> QED
      BY <1>1, <2>1, <3>1, <3>2
  <2>9. LogInv'
    <3>1. /\ Len(events') <= MaxEvents /\ now' \in Time
          /\ eventlog_size' \in EventlogSizes /\ maxburst' \in Bursts
          /\ sending' \in BOOLEAN /\ sendtotal' \in Nat
      BY <1>1, <1>2, <1>4, <1>6
    <3>2. /\ Len(notificationQ') <= Len(events')
          /\ \A i \in DOMAIN notificationQ' :
                notificationQ'[i] = Len(events') - Len(notificationQ') + i
      BY <1>1, <1>4, <2>3
    <3>3. /\ notification_count' \in 0..Len(notificationQ')
          /\ eventlog_size' = 0 => notification_count' = 0
      BY <1>1, <1>2, <2>3, <2>8
    <3>4. /\ \A i, j \in 1..Len(events') :
                i <= j => events'[i].time <= events'[j].time
          /\ \A i \in 1..Len(events') : events'[i].time <= now'
      BY <1>2, <1>4, <1>5
    <3> QED
      BY <1>4, <2>3, <3>1, <3>2, <3>3, <3>4 DEF LogInv
  <2>10. /\ Logged' \subseteq Logged \cup {n + 1}
         /\ Logged \ {Head(q)} \subseteq Logged' /\ Head(q) \notin Logged'
    <3> DEFINE k == Len(q)
               h == Head(q)
    <3>1. /\ k \in Nat /\ n \in Nat /\ k <= n /\ k >= 1 /\ h = n - k + 1
          /\ Logged' = ((n + 1) - k + 1)..(n + 1) /\ Logged = (n - k + 1)..n
      BY <1>1, <2>5, <2>6, <2>7
    <3> HIDE DEF n, k, h
    <3>2. /\ Logged' \subseteq Logged \cup {n + 1}
          /\ Logged \ {h} \subseteq Logged' /\ h \notin Logged'
      BY <3>1
    <3> QED
      BY <3>2 DEF h
  <2> QED
    BY <1>4, <1>7, <2>1, <2>9, <2>10
<1>8. CASE ~(LogFull /\ q # <<>>)
  <2>1. /\ notificationQ' = Append(q, n + 1)
        /\ notification_count' = IF eventlog_size > 0 THEN notification_count + 1
                                 ELSE notification_count
        /\ sub' = sub
    BY <1>8 DEF agt_not_queue_notification
  <2>2. /\ notificationQ' \in Seq(Nat) /\ Len(notificationQ') = Len(q) + 1
        /\ \A i \in DOMAIN notificationQ' :
              notificationQ'[i] = (n + 1) - Len(notificationQ') + i
    <3> DEFINE r == notificationQ'
    <3>1. /\ n \in Nat /\ q \in Seq(Nat) /\ Len(q) <= n
          /\ \A i \in DOMAIN q : q[i] = n - Len(q) + i
          /\ r = Append(q, n + 1)
      BY <1>1, <2>1
    <3>2. /\ r \in Seq(Nat) /\ Len(r) = Len(q) + 1
          /\ \A i \in DOMAIN r : r[i] = (n + 1) - Len(r) + i
      <4> HIDE DEF n, q, r
      <4> QED
        BY <3>1, SuffixAppend
    <3> QED
      BY <3>2
  <2>4. Logged' = ((n + 1) - (Len(q) + 1) + 1)..(n + 1)
    <3>1. n + 1 \in Nat /\ Len(notificationQ') <= n + 1
      BY <1>1, <2>2
    <3>2. {notificationQ'[i] : i \in DOMAIN notificationQ'} =
             ((n + 1) - Len(notificationQ') + 1)..(n + 1)
      <4> HIDE DEF n, q
      <4> QED
        BY <2>2, <3>1, Suffix
    <3> QED
      BY <2>2, <3>2 DEF Logged
  <2>5. Logged = (n - Len(q) + 1)..n
    BY LoggedIs
  <2>6. /\ notification_count' \in 0..(Len(q) + 1)
        /\ eventlog_size = 0 => notification_count' = 0
    <3>1. /\ notification_count <= Len(q)
          /\ eventlog_size = 0 => notification_count = 0
      BY <1>1 DEF LogInv
    <3> QED
      BY <1>1, <2>1, <3>1
  <2>7. LogInv'
    <3>1. /\ Len(events') <= MaxEvents /\ now' \in Time
          /\ eventlog_size' \in EventlogSizes /\ maxburst' \in Bursts
          /\ sending' \in BOOLEAN /\ sendtotal' \in Nat
      BY <1>1, <1>2, <1>4, <1>6
    <3>2. /\ Len(notificationQ') <= Len(events')
          /\ \A i \in DOMAIN notificationQ' :
                notificationQ'[i] = Len(events') - Len(notificationQ') + i
      BY <1>1, <1>4, <2>2
    <3>3. /\ notification_count' \in 0..Len(notificationQ')
          /\ eventlog_size' = 0 => notification_count' = 0
      BY <1>1, <1>2, <2>2, <2>6
    <3>4. /\ \A i, j \in 1..Len(events') :
                i <= j => events'[i].time <= events'[j].time
          /\ \A i \in 1..Len(events') : events'[i].time <= now'
      BY <1>2, <1>4, <1>5
    <3> QED
      BY <1>4, <2>2, <3>1, <3>2, <3>3, <3>4 DEF LogInv
  <2>8. Logged' \subseteq Logged \cup {n + 1} /\ Logged \subseteq Logged'
    BY <1>1, <2>4, <2>5
  <2> QED
    BY <1>4, <2>1, <2>7, <2>8
<1> QED
  BY <1>7, <1>8

-----------------------------------------------------------------------------
(* The subscriptions.                                                      *)

Msgs == Ids \cup {replayComplete, notificationComplete}

IdsIn(m) == {m[i] : i \in DOMAIN m} \cap Ids

Wants(q, e) == e.type \in Readable \cap q.filter

(* Where a subscription is in a log L of the last of n events.  A pointer  *)
(* is Null or the id behind it.                                            *)
InPlace(q, L, n) ==
    /\ q.lastmsg \in L \cup {Null}
    /\ q.lastmsg # Null => q.lastmsg = q.lastmsgid
    /\ q.lastmsgid <= n /\ q.firstreplaymsgid <= n /\ q.lastreplaymsgid <= n
    /\ q.state = "replay" /\ ~q.rc_ready =>
          /\ q.firstreplaymsgid # 0
          /\ q.lastreplaymsg \in L \cup {Null}
          /\ q.lastreplaymsg # Null => q.lastreplaymsg = q.lastreplaymsgid
          /\ q.lastmsgid = 0 =>
                IF q.firstreplaymsg = Null THEN q.firstreplaymsgid \notin L
                ELSE q.firstreplaymsg = q.firstreplaymsgid /\ q.firstreplaymsg \in L
          /\ q.lastmsgid # 0 /\ q.lastreplaymsgid # 0 => q.lastreplaymsgid > q.lastmsgid

(* The order of what was sent, and what the state knows of it.             *)
Sorted(m) ==
    \A i, j \in DOMAIN m : i < j =>
        /\ m[i] \in Ids /\ m[j] \in Ids => m[i] < m[j]
        /\ m[i] # notificationComplete
        /\ m[i] = replayComplete => m[j] # replayComplete
        /\ m[j] = notificationComplete => \E k \in 1..(j - 1) : m[k] = replayComplete

Has(m, what) == \E k \in DOMAIN m : m[k] = what

Ordered(q, m) ==
    /\ m \in Seq(Msgs)
    /\ Sorted(m)
    /\ \A a \in IdsIn(m) : a <= q.lastmsgid
    /\ q.rc_done <=> Has(m, replayComplete)
    /\ Has(m, notificationComplete) => q.nc_done
    /\ q.nc_done => q.state = "shutdown"
    /\ q.state \in {"timed", "shutdown"} => q.rc_done
    /\ q.state = "replay" => q.startTime # None /\ (~q.rc_ready => ~q.rc_done)
    /\ q.rc_done => q.startTime # None
    /\ q.nc_done => q.stopTime # None

(* Nothing is passed over once an event was sent.                          *)
Passed(q, m, L, ev) ==
    \A i \in L :
        /\ Wants(q, ev[i]) /\ i <= q.lastmsgid
        /\ \E a \in IdsIn(m) : a < i
        => i \in IdsIn(m)

(* A replay until a time that was past when it began, or without one.      *)
Replayed(q, m, L, ev, t, going) ==
    q.state = "replay" /\ ~q.rc_done /\ ~q.futurestop =>
        /\ q.startTime <= t
        /\ q.stopTime # None => q.stopTime <= t
        /\ \A i \in L : /\ Wants(q, ev[i]) /\ q.startTime <= ev[i].time
                        /\ i <= q.lastmsgid
                        => i \in IdsIn(m)
        /\ ~q.rc_ready =>
              /\ \A i \in L : q.startTime <= ev[i].time => q.firstreplaymsgid <= i
              /\ IF q.stopTime = None THEN q.lastreplaymsgid = 0
                 ELSE \A i \in L : q.lastreplaymsgid < i => q.stopTime <= ev[i].time
        /\ q.rc_ready =>
              /\ q.stopTime = None => going
              /\ \A i \in L : /\ Wants(q, ev[i]) /\ q.startTime <= ev[i].time
                              /\ q.stopTime # None => ev[i].time < q.stopTime
                              => i \in IdsIn(m)

Good(q, m, L, ev, t, going) ==
    /\ InPlace(q, L, Len(ev)) /\ Ordered(q, m)
    /\ Passed(q, m, L, ev) /\ Replayed(q, m, L, ev, t, going)

SubInv ==
    /\ sub \in [Sessions -> Subscription \cup {None}]
    /\ sent \in [Sessions -> Seq(Msgs)]
    /\ \A s \in Sessions :
          IF sub[s] = None THEN sent[s] = <<>>
          ELSE Good(sub[s], sent[s], Logged, events, now, sending)

NotInv == LogInv /\ SubInv

LEMMA Fields ==
    ASSUME NEW q \in Subscription
    PROVE  /\ q.state \in {"replay", "timed", "live", "shutdown"}
           /\ q.startTime \in Nat \cup {None} /\ q.stopTime \in Nat \cup {None}
           /\ q.startTime \in Time \cup {None} /\ q.stopTime \in Time \cup {None}
           /\ q.firstreplaymsg \in Nat /\ q.firstreplaymsgid \in Nat
           /\ q.lastreplaymsg \in Nat /\ q.lastreplaymsgid \in Nat
           /\ q.lastmsg \in Nat /\ q.lastmsgid \in Nat
           /\ q.futurestop \in BOOLEAN /\ q.filter \subseteq EventTypes
           /\ q.rc_ready \in BOOLEAN /\ q.rc_done \in BOOLEAN
           /\ q.nc_done \in BOOLEAN
  BY ProfileAssumption DEF Subscription, Ids, Time, Null

(* What was sent, with one more message.                                   *)
LEMMA OneMore ==
    ASSUME NEW m \in Seq(Msgs), NEW x \in Msgs, NEW r, r = m \o <<x>>
    PROVE  /\ r \in Seq(Msgs) /\ Len(m) \in Nat /\ Len(r) = Len(m) + 1
           /\ DOMAIN m = 1..Len(m) /\ DOMAIN r = 1..(Len(m) + 1)
           /\ \A i \in 1..Len(m) : r[i] = m[i]
           /\ r[Len(m) + 1] = x
<1>1. /\ <<x>> \in Seq(Msgs) /\ Len(<<x>>) = 1 /\ <<x>>[1] = x
  OBVIOUS
<1>2. Len(m) \in Nat /\ DOMAIN m = 1..Len(m)
  BY LenProperties
<1>3. /\ r \in Seq(Msgs) /\ Len(r) = Len(m) + 1
      /\ \A i \in 1..(Len(m) + 1) :
            r[i] = IF i <= Len(m) THEN m[i] ELSE <<x>>[i - Len(m)]
  BY <1>1, ConcatProperties
<1>4. DOMAIN r = 1..(Len(m) + 1)
  BY <1>3, LenProperties
<1>5. r[Len(m) + 1] = x
  BY <1>1, <1>2, <1>3
<1>6. \A i \in 1..Len(m) : r[i] = m[i]
  BY <1>2, <1>3
<1> QED
  BY <1>2, <1>3, <1>4, <1>5, <1>6

LEMMA OneMoreHas ==
    ASSUME NEW m \in Seq(Msgs), NEW x \in Msgs, NEW r, r = m \o <<x>>
    PROVE  /\ Has(r, replayComplete) <=> (Has(m, replayComplete) \/ x = replayComplete)
           /\ Has(r, notificationComplete) <=>
                 (Has(m, notificationComplete) \/ x = notificationComplete)
           /\ IdsIn(r) = IdsIn(m) \cup ({x} \cap Ids)
<1>1. /\ Len(m) \in Nat /\ DOMAIN m = 1..Len(m) /\ DOMAIN r = 1..(Len(m) + 1)
      /\ \A i \in 1..Len(m) : r[i] = m[i]
      /\ r[Len(m) + 1] = x
  BY OneMore
<1>2. {r[i] : i \in DOMAIN r} = {m[i] : i \in DOMAIN m} \cup {x}
  <2>1. \A i \in DOMAIN r : r[i] \in {m[j] : j \in DOMAIN m} \cup {x}
    BY <1>1
  <2>2. \A i \in DOMAIN m : i \in DOMAIN r /\ r[i] = m[i]
    BY <1>1
  <2>3. Len(m) + 1 \in DOMAIN r
    BY <1>1
  <2> QED
    BY <1>1, <2>1, <2>2, <2>3
<1>3. ASSUME NEW what
      PROVE  Has(r, what) <=> Has(m, what) \/ x = what
  <2>1. Has(r, what) <=> what \in {r[i] : i \in DOMAIN r}
    BY DEF Has
  <2>2. Has(m, what) <=> what \in {m[i] : i \in DOMAIN m}
    BY DEF Has
  <2> QED
    BY <1>2, <2>1, <2>2
<1> QED
  BY <1>2, <1>3 DEF IdsIn

LEMMA OneMoreSorted ==
    ASSUME NEW m \in Seq(Msgs), Sorted(m), NEW x \in Msgs, NEW r, r = m \o <<x>>,
           ~Has(m, notificationComplete),
           x \in Ids => \A a \in IdsIn(m) : a < x,
           x = replayComplete => ~Has(m, replayComplete),
           x = notificationComplete => Has(m, replayComplete)
    PROVE  Sorted(r)
<1>1. /\ Len(m) \in Nat /\ DOMAIN m = 1..Len(m) /\ DOMAIN r = 1..(Len(m) + 1)
      /\ \A i \in 1..Len(m) : r[i] = m[i]
      /\ r[Len(m) + 1] = x
  BY OneMore
<1> SUFFICES ASSUME NEW i \in DOMAIN r, NEW j \in DOMAIN r, i < j
             PROVE  /\ r[i] \in Ids /\ r[j] \in Ids => r[i] < r[j]
                    /\ r[i] # notificationComplete
                    /\ r[i] = replayComplete => r[j] # replayComplete
                    /\ r[j] = notificationComplete =>
                          \E k \in 1..(j - 1) : r[k] = replayComplete
  BY Zenon DEF Sorted
<1>2. i \in DOMAIN m /\ i \in 1..Len(m) /\ r[i] = m[i]
  BY <1>1
<1>3. r[i] # notificationComplete
  BY <1>2 DEF Has
<1>4. CASE j \in 1..Len(m)
  <2>1. /\ j \in DOMAIN m /\ r[j] = m[j]
    BY <1>1, <1>4
  <2>2. /\ m[i] \in Ids /\ m[j] \in Ids => m[i] < m[j]
        /\ m[i] = replayComplete => m[j] # replayComplete
        /\ m[j] = notificationComplete =>
              \E k \in 1..(j - 1) : m[k] = replayComplete
    BY <1>2, <2>1 DEF Sorted
  <2>3. \A k \in 1..(j - 1) : r[k] = m[k]
    BY <1>1, <1>4
  <2> QED
    BY <1>2, <1>3, <2>1, <2>2, <2>3
<1>5. CASE j = Len(m) + 1
  <2>1. r[j] = x
    BY <1>1, <1>5
  <2>2. r[i] \in Ids => r[i] \in IdsIn(m)
    BY <1>2 DEF IdsIn
  <2>3. x = notificationComplete => \E k \in 1..(j - 1) : r[k] = replayComplete
    BY <1>1, <1>5 DEF Has
  <2>4. r[i] = replayComplete => Has(m, replayComplete)
    BY <1>2 DEF Has
  <2>5. r[i] \in Ids /\ x \in Ids => r[i] < x
    BY <2>2
  <2> QED
    BY <1>3, <2>1, <2>3, <2>4, <2>5
<1> QED
  BY <1>1, <1>4, <1>5

-----------------------------------------------------------------------------
(* One pass.                                                               *)

(* The entry that is sent next is the first one behind the place of the    *)
(* subscription, or behind the beginning of its replay.                    *)
LEMMA NextIs ==
    ASSUME LogInv, NEW q \in Subscription, InPlace(q, Logged, Len(events)),
           q.state = "replay" => ~q.rc_ready
    PROVE  /\ NextEntry(q) \in Logged \cup {Null}
           /\ NextEntry(q) # Null => NextEntry(q) > q.lastmsgid
           /\ q.lastmsgid # 0 \/ q.state # "replay" =>
                 \A i \in Logged : i > q.lastmsgid =>
                     NextEntry(q) # Null /\ NextEntry(q) <= i
           /\ q.lastmsgid = 0 /\ q.state = "replay" =>
                 \A i \in Logged : i >= q.firstreplaymsgid =>
                     NextEntry(q) # Null /\ NextEntry(q) <= i
<1>1. /\ q.lastmsg \in Nat /\ q.lastmsgid \in Nat
      /\ q.firstreplaymsg \in Nat /\ q.firstreplaymsgid \in Nat
  BY Fields
<1>2. Logged \subseteq Nat /\ 0 \notin Logged
  BY LoggedIs, LogTypes
<1>3. CASE q.lastmsgid # 0
  <2>1. NextEntry(q) = get_entry_after(q.lastmsgid)
    BY <1>3 DEF NextEntry, InPlace
  <2>2. /\ get_entry_after(q.lastmsgid) \in Logged \cup {Null}
        /\ get_entry_after(q.lastmsgid) # Null =>
              /\ get_entry_after(q.lastmsgid) > q.lastmsgid
              /\ \A i \in Logged : i > q.lastmsgid =>
                    get_entry_after(q.lastmsgid) <= i
        /\ get_entry_after(q.lastmsgid) = Null => \A i \in Logged : i <= q.lastmsgid
    BY <1>1, AfterIs
  <2> QED
    BY <1>1, <1>2, <1>3, <2>1, <2>2 DEF Null
<1>4. CASE q.lastmsgid = 0 /\ q.state # "replay"
  <2>1. NextEntry(q) = get_entry_after(0)
    BY <1>4 DEF NextEntry
  <2>2. /\ get_entry_after(0) \in Logged \cup {Null}
        /\ get_entry_after(0) # Null =>
              /\ get_entry_after(0) > 0
              /\ \A i \in Logged : i > 0 => get_entry_after(0) <= i
        /\ get_entry_after(0) = Null => \A i \in Logged : i <= 0
    BY AfterIs
  <2> QED
    BY <1>2, <1>4, <2>1, <2>2 DEF Null
<1>5. CASE q.lastmsgid = 0 /\ q.state = "replay" /\ q.firstreplaymsg # Null
  <2>1. NextEntry(q) = q.firstreplaymsg
    BY <1>5 DEF NextEntry
  <2>2. q.firstreplaymsg = q.firstreplaymsgid /\ q.firstreplaymsg \in Logged
    BY <1>5 DEF InPlace
  <2> QED
    BY <1>1, <1>2, <1>5, <2>1, <2>2 DEF Null
<1>6. CASE q.lastmsgid = 0 /\ q.state = "replay" /\ q.firstreplaymsg = Null
  <2> DEFINE f == q.firstreplaymsgid
  <2>1. NextEntry(q) = get_entry_after(f)
    BY <1>6 DEF NextEntry
  <2>2. f \notin Logged
    BY <1>6 DEF InPlace
  <2>3. /\ get_entry_after(f) \in Logged \cup {Null}
        /\ get_entry_after(f) # Null =>
              /\ get_entry_after(f) > f
              /\ \A i \in Logged : i > f => get_entry_after(f) <= i
        /\ get_entry_after(f) = Null => \A i \in Logged : i <= f
    BY <1>1, AfterIs
  <2>4. \A i \in Logged : i >= f => i > f
    BY <1>1, <1>2, <2>2
  <2>5. f \in Nat /\ f = q.firstreplaymsgid
    BY <1>1
  <2> HIDE DEF f
  <2>6. \A i \in Logged : i >= f =>
            get_entry_after(f) # Null /\ get_entry_after(f) <= i
    <3> TAKE i \in Logged
    <3>1. i \in Nat /\ (i >= f => i > f) /\ (i > f => ~(i <= f))
      BY <1>2, <2>4, <2>5
    <3> QED
      BY <2>3, <3>1
  <2>7. get_entry_after(f) # Null => get_entry_after(f) > 0
    <3>1. ASSUME get_entry_after(f) # Null PROVE get_entry_after(f) \in Nat
      BY <1>2, <2>3, <3>1
    <3> QED
      BY <3>1 DEF Null
  <2> QED
    BY <1>6, <2>1, <2>3, <2>5, <2>6, <2>7
<1> QED
  BY <1>3, <1>4, <1>5, <1>6

(* A subscription r that stays where q was.                                *)
Same(q, r) ==
    /\ r.startTime = q.startTime /\ r.stopTime = q.stopTime
    /\ r.futurestop = q.futurestop /\ r.filter = q.filter
    /\ r.firstreplaymsg = q.firstreplaymsg
    /\ r.firstreplaymsgid = q.firstreplaymsgid
    /\ r.lastreplaymsg = q.lastreplaymsg
    /\ r.lastreplaymsgid = q.lastreplaymsgid

(* A subscription that goes on to the next entry, which is sent to it if   *)
(* it wants it.                                                            *)
LEMMA Advances ==
    ASSUME LogInv, NEW q \in Subscription, NEW m,
           Good(q, m, Logged, events, now, sending),
           q.state \in {"replay", "timed", "live"},
           q.state = "replay" => ~q.rc_ready,
           NEW id, id = NextEntry(q), id # Null,
           NEW r \in Subscription, Same(q, r), r.lastmsg = id, r.lastmsgid = id,
           r.rc_done = q.rc_done, r.nc_done = q.nc_done,
           r.state = q.state \/ (q.state = "timed" /\ r.state = "shutdown"),
           q.state = "replay" =>
              (r.rc_ready <=> q.lastreplaymsgid # 0 /\ q.lastreplaymsgid <= id),
           NEW x, x = <<>> \/ x = <<id>>,
           Wants(q, events[id]) => x = <<id>>
    PROVE  Good(r, m \o x, Logged, events, now, FALSE)
<1> DEFINE n == Len(events)
           M == m \o x
<1>1. /\ q.lastmsg \in Nat /\ q.lastmsgid \in Nat
      /\ q.firstreplaymsgid \in Nat /\ q.lastreplaymsgid \in Nat
      /\ q.rc_ready \in BOOLEAN /\ q.rc_done \in BOOLEAN /\ q.nc_done \in BOOLEAN
      /\ r.rc_ready \in BOOLEAN
  BY Fields
<1>2. /\ Logged \subseteq 1..n /\ Logged \subseteq Ids /\ Logged \subseteq Nat
      /\ n \in Nat
  BY LoggedIs, LogTypes
<1>3. /\ InPlace(q, Logged, n) /\ Ordered(q, m) /\ Passed(q, m, Logged, events)
      /\ Replayed(q, m, Logged, events, now, sending)
  BY DEF Good
<1>4. /\ id \in Logged /\ id > q.lastmsgid
      /\ q.lastmsgid # 0 \/ q.state # "replay" =>
            \A i \in Logged : i > q.lastmsgid => id <= i
      /\ q.lastmsgid = 0 /\ q.state = "replay" =>
            \A i \in Logged : i >= q.firstreplaymsgid => id <= i
  BY <1>3, NextIs
<1>5. /\ id \in Nat /\ id \in Ids /\ id <= n /\ id # 0
      /\ id # replayComplete /\ id # notificationComplete
  <2>1. id \in Nat /\ id \in Ids /\ id \in 1..n
    BY <1>2, <1>4
  <2> QED
    BY <1>2, <2>1, SymbolAssumption
<1>6. m \in Seq(Msgs) /\ id \in Msgs
  BY <1>3, <1>5 DEF Ordered, Msgs
<1>7. /\ M \in Seq(Msgs)
      /\ IdsIn(M) = IF x = <<id>> THEN IdsIn(m) \cup {id} ELSE IdsIn(m)
      /\ Has(M, replayComplete) <=> Has(m, replayComplete)
      /\ Has(M, notificationComplete) <=> Has(m, notificationComplete)
      /\ Sorted(M)
  <2>1. CASE x = <<>>
    <3>1. M = m
      BY <1>6, <2>1, ConcatEmptySeq
    <3>2. x # <<id>>
      BY <2>1
    <3> HIDE DEF M
    <3> QED
      BY <1>3, <1>6, <3>1, <3>2 DEF Ordered
  <2>2. CASE x = <<id>>
    <3>1. M = m \o <<id>>
      BY <2>2
    <3> HIDE DEF M
    <3>2. M \in Seq(Msgs)
      BY <1>6, <3>1, OneMore, Zenon
    <3>3. /\ Has(M, replayComplete) <=> (Has(m, replayComplete) \/ id = replayComplete)
          /\ Has(M, notificationComplete) <=>
                (Has(m, notificationComplete) \/ id = notificationComplete)
          /\ IdsIn(M) = IdsIn(m) \cup ({id} \cap Ids)
      BY <1>6, <3>1, OneMoreHas
    <3>4. IdsIn(M) = IdsIn(m) \cup {id}
      BY <1>5, <3>3
    <3>5. ~Has(m, notificationComplete)
      BY <1>3 DEF Ordered
    <3>6. \A a \in IdsIn(m) : a < id
      <4>1. \A a \in IdsIn(m) : a \in Nat /\ a <= q.lastmsgid
        BY <1>3, ProfileAssumption DEF Ordered, IdsIn, Ids
      <4> QED
        BY <1>1, <1>4, <1>5, <4>1
    <3>7. Sorted(m)
      BY <1>3 DEF Ordered
    <3>8. Sorted(M)
      BY <1>5, <1>6, <3>1, <3>5, <3>6, <3>7, OneMoreSorted, Zenon
    <3> QED
      BY <1>5, <2>2, <3>2, <3>3, <3>4, <3>8
  <2> QED
    BY <2>1, <2>2
<1> HIDE DEF M
<1>8. InPlace(r, Logged, n)
  <2>1. r.lastreplaymsgid # 0 /\ ~r.rc_ready /\ r.state = "replay" =>
           r.lastreplaymsgid > r.lastmsgid
    BY <1>1, <1>5 DEF Same
  <2>2. /\ r.lastmsg \in Logged \cup {Null} /\ r.lastmsg = r.lastmsgid
        /\ r.lastmsgid <= n /\ r.lastmsgid # 0
    BY <1>4, <1>5
  <2> HIDE DEF n
  <2> QED
    BY <1>3, <2>1, <2>2 DEF InPlace, Same
<1>9. Ordered(r, M)
  <2>1. \A a \in IdsIn(M) : a <= r.lastmsgid
    <3>1. \A a \in IdsIn(m) : a \in Nat /\ a <= q.lastmsgid
      BY <1>3, ProfileAssumption DEF Ordered, IdsIn, Ids
    <3> QED
      BY <1>1, <1>4, <1>5, <1>7, <3>1
  <2>2. ~q.nc_done
    BY <1>3 DEF Ordered
  <2> QED
    BY <1>3, <1>7, <2>1, <2>2 DEF Ordered, Same
<1>10. \A e : Wants(r, e) <=> Wants(q, e)
  BY DEF Wants, Same
<1>11. ASSUME NEW i \in Logged, Wants(r, events[i]), i <= id,
              q.lastmsgid < i, q.lastmsgid # 0 \/ q.state # "replay" \/ i >= q.firstreplaymsgid
       PROVE  i \in IdsIn(M)
  <2>1. i = id
    BY <1>1, <1>2, <1>4, <1>5, <1>11
  <2> QED
    BY <1>7, <1>10, <1>11, <2>1
<1>12. Passed(r, M, Logged, events)
  <2> SUFFICES ASSUME NEW i \in Logged, Wants(r, events[i]), i <= r.lastmsgid,
                      NEW a \in IdsIn(M), a < i
               PROVE  i \in IdsIn(M)
    BY Zenon DEF Passed
  <2>1. a \in Nat
    BY ProfileAssumption DEF IdsIn, Ids
  <2>2. CASE i <= q.lastmsgid
    <3>1. a # id
      BY <1>1, <1>2, <1>4, <1>5, <2>1, <2>2
    <3>2. a \in IdsIn(m)
      BY <1>7, <3>1
    <3>3. i \in IdsIn(m)
      BY <1>3, <1>10, <2>2, <3>2 DEF Passed
    <3> QED
      BY <1>7, <3>3
  <2>3. CASE ~(i <= q.lastmsgid)
    <3>1. q.lastmsgid < i
      BY <1>1, <1>2, <2>3
    <3>2. CASE q.lastmsgid # 0
      BY <1>11, <3>1, <3>2
    <3>3. CASE q.lastmsgid = 0
      <4>1. IdsIn(m) = {}
        <5>1. \A b \in IdsIn(m) : b \in 1..MaxEvents /\ b <= 0
          BY <1>3, <3>3 DEF Ordered, IdsIn, Ids
        <5> QED
          BY <5>1, ProfileAssumption
      <4>2. a = id
        BY <1>7, <4>1
      <4> QED
        BY <1>2, <1>5, <4>2
    <3> QED
      BY <3>2, <3>3
  <2> QED
    BY <2>2, <2>3
<1>13. Replayed(r, M, Logged, events, now, FALSE)
  <2> SUFFICES ASSUME r.state = "replay", ~r.rc_done, ~r.futurestop
               PROVE  /\ r.startTime <= now
                      /\ r.stopTime # None => r.stopTime <= now
                      /\ \A i \in Logged :
                            /\ Wants(r, events[i])
                            /\ r.startTime <= events[i].time
                            /\ i <= r.lastmsgid
                            => i \in IdsIn(M)
                      /\ ~r.rc_ready =>
                            /\ \A i \in Logged : r.startTime <= events[i].time
                                                 => r.firstreplaymsgid <= i
                            /\ IF r.stopTime = None THEN r.lastreplaymsgid = 0
                               ELSE \A i \in Logged : r.lastreplaymsgid < i
                                       => r.stopTime <= events[i].time
                      /\ r.rc_ready =>
                            /\ r.stopTime = None => FALSE
                            /\ \A i \in Logged :
                                  /\ Wants(r, events[i])
                                  /\ r.startTime <= events[i].time
                                  /\ r.stopTime # None => events[i].time < r.stopTime
                                  => i \in IdsIn(M)
    BY Zenon DEF Replayed
  <2>1. /\ q.state = "replay" /\ ~q.rc_ready
        /\ q.startTime <= now
        /\ q.stopTime # None => q.stopTime <= now
        /\ \A i \in Logged : /\ Wants(q, events[i]) /\ q.startTime <= events[i].time
                             /\ i <= q.lastmsgid
                             => i \in IdsIn(m)
        /\ \A i \in Logged : q.startTime <= events[i].time => q.firstreplaymsgid <= i
        /\ IF q.stopTime = None THEN q.lastreplaymsgid = 0
           ELSE \A i \in Logged : q.lastreplaymsgid < i => q.stopTime <= events[i].time
    BY <1>3 DEF Replayed, Same
  <2>2. ASSUME NEW i \in Logged, Wants(r, events[i]),
               r.startTime <= events[i].time, i <= r.lastmsgid
        PROVE  i \in IdsIn(M)
    <3>1. q.startTime <= events[i].time /\ Wants(q, events[i]) /\ i <= id
      BY <1>10, <2>2 DEF Same
    <3>2. CASE i <= q.lastmsgid
      BY <1>7, <2>1, <3>1, <3>2
    <3>3. CASE ~(i <= q.lastmsgid)
      <4>1. q.lastmsgid < i /\ i >= q.firstreplaymsgid
        BY <1>1, <1>2, <2>1, <3>1, <3>3
      <4> QED
        BY <1>11, <2>2, <3>1, <4>1
    <3> QED
      BY <3>2, <3>3
  <2>3. r.rc_ready => q.stopTime # None /\ q.lastreplaymsgid <= id
    BY <2>1
  <2>4. ASSUME r.rc_ready, NEW i \in Logged, Wants(r, events[i]),
               r.startTime <= events[i].time, events[i].time < r.stopTime
        PROVE  i \in IdsIn(M)
    <3>1. i \in 1..n /\ events[i].time \in Nat
      BY <1>2, LogTypes DEF Time
    <3>2. r.stopTime = q.stopTime /\ q.stopTime # None
      BY <2>3, <2>4 DEF Same
    <3>3. q.stopTime \in Nat
      BY <3>2, Fields
    <3>4. ~(q.lastreplaymsgid < i)
      BY <2>1, <2>4, <3>1, <3>2, <3>3
    <3>5. i <= id
      BY <1>1, <1>2, <1>5, <2>3, <2>4, <3>4
    <3> QED
      BY <2>2, <2>4, <3>5
  <2>5. r.rc_ready => r.stopTime # None
    BY <2>3 DEF Same
  <2> QED
    BY <2>1, <2>2, <2>4, <2>5 DEF Same
<1>14. Good(r, M, Logged, events, now, FALSE)
  BY <1>8, <1>9, <1>12, <1>13 DEF Good
<1> QED
  BY <1>14 DEF M

(* What replayComplete promises, when it is sent.                          *)
Whole(q, m) ==
    \A i \in Logged :
        /\ Wants(q, events[i])
        /\ q.startTime <= events[i].time
        /\ q.stopTime # None => events[i].time < q.stopTime
        => i \in IdsIn(m)

LEMMA WholeThen ==
    ASSUME LogInv, NEW q \in Subscription, NEW m,
           Good(q, m, Logged, events, now, sending),
           q.state = "replay", ~q.rc_done, ~q.futurestop,
           q.rc_ready \/ NextEntry(q) = Null
    PROVE  Whole(q, m)
<1>1. /\ InPlace(q, Logged, Len(events))
      /\ Replayed(q, m, Logged, events, now, sending)
  BY DEF Good
<1>2. CASE q.rc_ready
  BY <1>1, <1>2 DEF Whole, Replayed
<1>3. CASE ~q.rc_ready
  <2>1. /\ \A i \in Logged : /\ Wants(q, events[i]) /\ q.startTime <= events[i].time
                             /\ i <= q.lastmsgid
                             => i \in IdsIn(m)
        /\ \A i \in Logged : q.startTime <= events[i].time => q.firstreplaymsgid <= i
    BY <1>1, <1>3 DEF Replayed
  <2>2. /\ q.lastmsgid # 0 => \A i \in Logged : ~(i > q.lastmsgid)
        /\ q.lastmsgid = 0 => \A i \in Logged : ~(i >= q.firstreplaymsgid)
    BY <1>1, <1>3, NextIs
  <2>3. /\ q.lastmsgid \in Nat /\ q.firstreplaymsgid \in Nat /\ Logged \subseteq Nat
    BY Fields, LoggedIs
  <2> SUFFICES ASSUME NEW i \in Logged, Wants(q, events[i]),
                      q.startTime <= events[i].time
               PROVE  i \in IdsIn(m)
    BY DEF Whole
  <2>4. q.firstreplaymsgid <= i /\ i \in Nat
    BY <2>1, <2>3
  <2>5. i <= q.lastmsgid
    BY <2>2, <2>3, <2>4
  <2> QED
    BY <2>1, <2>5
<1> QED
  BY <1>2, <1>3

(* A subscription that keeps its place and is told something, or nothing.  *)
LEMMA Stays ==
    ASSUME NEW L, NEW ev, NEW t, NEW going, Len(ev) \in Nat,
           NEW q \in Subscription, NEW m, Good(q, m, L, ev, t, going),
           NEW r \in Subscription, Same(q, r),
           r.lastmsg = q.lastmsg, r.lastmsgid = q.lastmsgid,
           r.state = "replay" => r.rc_ready /\ r.rc_done,
           NEW M, M \in Seq(Msgs), Sorted(M), IdsIn(M) = IdsIn(m),
           r.rc_done <=> Has(M, replayComplete),
           Has(M, notificationComplete) => r.nc_done,
           r.nc_done => r.state = "shutdown",
           r.state \in {"timed", "shutdown"} => r.rc_done,
           r.state = "replay" => q.state = "replay",
           r.rc_done => q.startTime # None, r.nc_done => q.stopTime # None
    PROVE  Good(r, M, L, ev, t, FALSE)
<1>1. /\ InPlace(q, L, Len(ev)) /\ Ordered(q, m) /\ Passed(q, m, L, ev)
  BY DEF Good
<1>2. InPlace(r, L, Len(ev))
  BY <1>1 DEF InPlace, Same
<1>3. Ordered(r, M)
  BY <1>1 DEF Ordered, Same
<1>4. Passed(r, M, L, ev)
  BY <1>1 DEF Passed, Wants, Same
<1>5. Replayed(r, M, L, ev, t, FALSE)
  BY DEF Replayed
<1> QED
  BY <1>2, <1>3, <1>4, <1>5 DEF Good

(* It is told that the replay is complete.                                 *)
LEMMA Completes ==
    ASSUME NEW L, NEW ev, NEW t, NEW going, Len(ev) \in Nat,
           NEW q \in Subscription, NEW m, Good(q, m, L, ev, t, going),
           q.state = "replay", ~q.rc_done,
           NEW r \in Subscription, Same(q, r),
           r.lastmsg = q.lastmsg, r.lastmsgid = q.lastmsgid,
           r.rc_ready, r.rc_done, r.nc_done = q.nc_done,
           r.state \in {"replay", "live", "timed"}
    PROVE  Good(r, m \o <<replayComplete>>, L, ev, t, FALSE)
<1> DEFINE M == m \o <<replayComplete>>
<1>1. m \in Seq(Msgs) /\ replayComplete \in Msgs
  BY DEF Good, Ordered, Msgs
<1>2. /\ replayComplete \notin Ids /\ replayComplete # notificationComplete
  BY SymbolAssumption
<1>3. /\ Sorted(m) /\ ~Has(m, notificationComplete) /\ ~Has(m, replayComplete)
      /\ ~q.nc_done
  BY DEF Good, Ordered
<1>4. M \in Seq(Msgs)
  BY <1>1, OneMore, Zenon
<1>5. /\ Has(M, replayComplete) <=> (Has(m, replayComplete) \/ replayComplete = replayComplete)
      /\ Has(M, notificationComplete) <=>
            (Has(m, notificationComplete) \/ replayComplete = notificationComplete)
      /\ IdsIn(M) = IdsIn(m) \cup ({replayComplete} \cap Ids)
  BY <1>1, OneMoreHas
<1>6. Sorted(M)
  BY <1>1, <1>2, <1>3, OneMoreSorted, Zenon
<1>7. IdsIn(M) = IdsIn(m)
  BY <1>2, <1>5
<1>8. /\ r.rc_done <=> Has(M, replayComplete)
      /\ Has(M, notificationComplete) => r.nc_done
  BY <1>2, <1>3, <1>5
<1>9. ~r.nc_done /\ q.startTime # None
  BY <1>3 DEF Good, Ordered
<1> HIDE DEF M
<1>10. Good(r, M, L, ev, t, FALSE)
  BY <1>4, <1>6, <1>7, <1>8, <1>9, Stays
<1> QED
  BY <1>10 DEF M

(* It is told that it is over.                                             *)
LEMMA Finishes ==
    ASSUME NEW L, NEW ev, NEW t, NEW going, Len(ev) \in Nat,
           NEW q \in Subscription, NEW m, Good(q, m, L, ev, t, going),
           q.rc_done, ~q.nc_done, q.stopTime # None,
           NEW r \in Subscription, Same(q, r),
           r.lastmsg = q.lastmsg, r.lastmsgid = q.lastmsgid,
           r.rc_done, r.nc_done, r.state = "shutdown"
    PROVE  Good(r, m \o <<notificationComplete>>, L, ev, t, FALSE)
<1> DEFINE M == m \o <<notificationComplete>>
<1>1. m \in Seq(Msgs) /\ notificationComplete \in Msgs
  BY DEF Good, Ordered, Msgs
<1>2. /\ notificationComplete \notin Ids /\ replayComplete # notificationComplete
  BY SymbolAssumption
<1>3. /\ Sorted(m) /\ ~Has(m, notificationComplete) /\ Has(m, replayComplete)
  BY DEF Good, Ordered
<1>4. M \in Seq(Msgs)
  BY <1>1, OneMore, Zenon
<1>5. /\ Has(M, replayComplete) <=> (Has(m, replayComplete) \/ notificationComplete = replayComplete)
      /\ Has(M, notificationComplete) <=>
            (Has(m, notificationComplete) \/ notificationComplete = notificationComplete)
      /\ IdsIn(M) = IdsIn(m) \cup ({notificationComplete} \cap Ids)
  BY <1>1, OneMoreHas, Zenon
<1>6. Sorted(M)
  BY <1>1, <1>2, <1>3, OneMoreSorted, Zenon
<1>7. IdsIn(M) = IdsIn(m)
  BY <1>2, <1>5
<1>8. (r.rc_done <=> Has(M, replayComplete)) /\ q.startTime # None
  BY <1>3, <1>5 DEF Good, Ordered
<1> HIDE DEF M
<1>9. Good(r, M, L, ev, t, FALSE)
  BY <1>4, <1>6, <1>7, <1>8, Stays
<1> QED
  BY <1>9 DEF M

(* Only its state changes.                                                 *)
LEMMA Restates ==
    ASSUME NEW L, NEW ev, NEW t, NEW going, Len(ev) \in Nat,
           NEW q \in Subscription, NEW m, Good(q, m, L, ev, t, going),
           q.state = "replay" => q.rc_ready /\ q.rc_done,
           ~q.nc_done,
           NEW r \in Subscription, Same(q, r),
           r.lastmsg = q.lastmsg, r.lastmsgid = q.lastmsgid,
           r.rc_ready = q.rc_ready, r.rc_done = q.rc_done, r.nc_done = q.nc_done,
           \/ r.state = q.state
           \/ q.state = "replay" /\ r.state \in {"live", "timed"}
           \/ q.state = "timed" /\ r.state = "shutdown"
    PROVE  Good(r, m \o <<>>, L, ev, t, FALSE)
<1>1. m \in Seq(Msgs) /\ Sorted(m)
  BY DEF Good, Ordered
<1>2. m \o <<>> = m
  BY <1>1, ConcatEmptySeq
<1>3. /\ r.rc_done <=> Has(m, replayComplete)
      /\ Has(m, notificationComplete) => r.nc_done
      /\ r.state \in {"timed", "shutdown"} => r.rc_done
      /\ r.state = "replay" => r.rc_ready /\ r.rc_done
      /\ r.rc_done => q.startTime # None
      /\ ~r.nc_done
  BY DEF Good, Ordered
<1>4. Good(r, m, L, ev, t, FALSE)
  BY <1>1, <1>3, Stays
<1> QED
  BY <1>2, <1>4

(* The fields that a pass changes.                                         *)
LEMMA AtIs ==
    ASSUME NEW q \in Subscription, NEW id \in Ids
    PROVE  /\ At(q, id) \in Subscription /\ Same(q, At(q, id))
           /\ At(q, id).lastmsg = id /\ At(q, id).lastmsgid = id
           /\ At(q, id).state = q.state /\ At(q, id).rc_ready = q.rc_ready
           /\ At(q, id).rc_done = q.rc_done /\ At(q, id).nc_done = q.nc_done
  BY DEF At, Same, Subscription

LEMMA RestatedIs ==
    ASSUME NEW q \in Subscription,
           NEW st \in {"replay", "timed", "live", "shutdown"},
           NEW r, r = [q EXCEPT !.state = st]
    PROVE  /\ r \in Subscription /\ Same(q, r) /\ r.state = st
           /\ r.lastmsg = q.lastmsg /\ r.lastmsgid = q.lastmsgid
           /\ r.rc_ready = q.rc_ready
           /\ r.rc_done = q.rc_done /\ r.nc_done = q.nc_done
  BY DEF Same, Subscription

LEMMA ReadyIs ==
    ASSUME NEW q \in Subscription, NEW b \in BOOLEAN,
           NEW r, r = [q EXCEPT !.rc_ready = b]
    PROVE  /\ r \in Subscription /\ Same(q, r) /\ r.state = q.state
           /\ r.lastmsg = q.lastmsg /\ r.lastmsgid = q.lastmsgid
           /\ r.rc_ready = b
           /\ r.rc_done = q.rc_done /\ r.nc_done = q.nc_done
  BY DEF Same, Subscription

LEMMA DoneIs ==
    ASSUME NEW q \in Subscription,
           NEW r, r = [q EXCEPT !.rc_done = TRUE]
    PROVE  /\ r \in Subscription /\ Same(q, r) /\ r.state = q.state
           /\ r.lastmsg = q.lastmsg /\ r.lastmsgid = q.lastmsgid
           /\ r.rc_ready = q.rc_ready /\ r.rc_done /\ r.nc_done = q.nc_done
  BY DEF Same, Subscription

LEMMA AllDoneIs ==
    ASSUME NEW q \in Subscription,
           NEW st \in {"replay", "timed", "live", "shutdown"},
           NEW r, r = [q EXCEPT !.rc_ready = TRUE, !.rc_done = TRUE, !.state = st]
    PROVE  /\ r \in Subscription /\ Same(q, r) /\ r.state = st
           /\ r.lastmsg = q.lastmsg /\ r.lastmsgid = q.lastmsgid
           /\ r.rc_ready /\ r.rc_done /\ r.nc_done = q.nc_done
  BY DEF Same, Subscription

LEMMA ToldIs ==
    ASSUME NEW q \in Subscription,
           NEW r, r = [q EXCEPT !.nc_done = TRUE, !.state = "shutdown"]
    PROVE  /\ r \in Subscription /\ Same(q, r) /\ r.state = "shutdown"
           /\ r.lastmsg = q.lastmsg /\ r.lastmsgid = q.lastmsgid
           /\ r.rc_ready = q.rc_ready /\ r.rc_done = q.rc_done /\ r.nc_done
  BY DEF Same, Subscription

LEMMA TellsIs ==
    ASSUME NEW q \in Subscription, NEW r, r = [q EXCEPT !.nc_done = TRUE]
    PROVE  /\ r \in Subscription /\ Same(q, r) /\ r.state = q.state
           /\ r.lastmsg = q.lastmsg /\ r.lastmsgid = q.lastmsgid
           /\ r.rc_ready = q.rc_ready /\ r.rc_done = q.rc_done /\ r.nc_done
  BY DEF Same, Subscription

LEMMA FinalIs ==
    ASSUME NEW q \in Subscription, q.state = "replay"
    PROVE  /\ FinalState(q) \in {"replay", "timed", "live", "shutdown"}
           /\ FinalState(q) \in {"replay", "timed", "live"}
           /\ q.stopTime = None \/ q.futurestop => FinalState(q) # "replay"
  BY DEF FinalState

(* What a pass may do to a subscription: the invariant holds of what it    *)
(* becomes; a replay that goes on has a place in the log; and              *)
(* replayComplete is sent when everything else was.                        *)
Serving(q, m, r) ==
    /\ r.count \in {0, 1}
    /\ r.sub # None =>
          /\ r.sub \in Subscription
          /\ Good(r.sub, m \o r.sent, Logged, events, now, FALSE)
          /\ r.sub.state = "replay" /\ ~r.sub.rc_ready => r.sub.lastmsgid # 0
          /\ r.sent = <<>> \/ \E x \in Msgs : r.sent = <<x>>
          /\ r.sent = <<replayComplete>> /\ ~q.futurestop => Whole(q, m)

LEMMA SentServes ==
    ASSUME LogInv, NEW q \in Subscription, NEW m,
           Good(q, m, Logged, events, now, sending),
           q.state \in {"replay", "timed", "live"},
           q.state = "replay" => ~q.rc_ready,
           NEW id, id = NextEntry(q), id # Null,
           NEW r \in Subscription, Same(q, r), r.lastmsg = id, r.lastmsgid = id,
           r.rc_done = q.rc_done, r.nc_done = q.nc_done,
           r.state = q.state \/ (q.state = "timed" /\ r.state = "shutdown"),
           q.state = "replay" =>
              (r.rc_ready <=> q.lastreplaymsgid # 0 /\ q.lastreplaymsgid <= id)
    PROVE  Serving(q, m, Sent(q, id, r))
<1> DEFINE S == Sent(q, id, r)
           x == IF events[id].type \in Readable /\ events[id].type \in q.filter
                THEN <<id>> ELSE <<>>
<1>1. S.sub = r /\ S.count \in {0, 1} /\ S.sent = x
  BY DEF Sent, Quiet
<1>2. x = <<>> \/ x = <<id>>
  OBVIOUS
<1>3. Wants(q, events[id]) => x = <<id>>
  BY DEF Wants
<1>4. Good(r, m \o x, Logged, events, now, FALSE)
  <2> HIDE DEF x
  <2> QED
    BY <1>2, <1>3, Advances
<1>5. id \in Ids
  BY NextIs, LoggedIs DEF Good
<1>6. id \in Nat /\ id # 0 /\ id \in Msgs /\ id # replayComplete
  BY <1>5, SymbolAssumption, ProfileAssumption DEF Ids, Msgs
<1>7. x # <<replayComplete>>
  BY <1>2, <1>6
<1> HIDE DEF S, x
<1>8. Serving(q, m, S)
  BY <1>1, <1>2, <1>4, <1>6, <1>7 DEF Serving
<1> QED
  BY <1>8 DEF S

LEMMA QuietServes ==
    ASSUME NEW q, NEW m, NEW r \in Subscription,
           Good(r, m \o <<>>, Logged, events, now, FALSE),
           r.state = "replay" => r.rc_ready
    PROVE  Serving(q, m, Quiet(r))
<1>1. <<>> # <<replayComplete>>
  OBVIOUS
<1> QED
  BY <1>1 DEF Serving, Quiet

LEMMA ToldServes ==
    ASSUME NEW q, NEW m, NEW r \in Subscription, NEW x \in Msgs,
           Good(r, m \o <<x>>, Logged, events, now, FALSE),
           r.state = "replay" => r.rc_ready,
           x = replayComplete /\ ~q.futurestop => Whole(q, m)
    PROVE  Serving(q, m, Told(r, x))
<1>1. <<x>> = <<replayComplete>> => x = replayComplete
  OBVIOUS
<1> QED
  BY <1>1 DEF Serving, Told

LEMMA ReplayMoreServes ==
    ASSUME LogInv, NEW q \in Subscription, NEW m,
           Good(q, m, Logged, events, now, sending),
           q.state = "replay", ~q.rc_ready
    PROVE  Serving(q, m, ReplayMore(q))
<1> DEFINE id == NextEntry(q)
           end == \/ q.lastreplaymsg = id
                  \/ q.lastreplaymsgid # 0 /\ q.lastreplaymsgid <= id
<1>1. InPlace(q, Logged, Len(events)) /\ Ordered(q, m)
  BY DEF Good
<1>2. id \in Logged \cup {Null} /\ Logged \subseteq Ids /\ Logged \subseteq Nat
  BY <1>1, NextIs, LoggedIs
<1>3. CASE id # Null
  <2> DEFINE a == At(q, id)
             r == [a EXCEPT !.rc_ready = end]
  <2>1. ReplayMore(q) = Sent(q, id, r)
    BY <1>3 DEF ReplayMore
  <2>2. id \in Ids
    BY <1>2, <1>3
  <2>3. /\ a \in Subscription /\ Same(q, a) /\ a.lastmsg = id /\ a.lastmsgid = id
        /\ a.state = q.state /\ a.rc_done = q.rc_done /\ a.nc_done = q.nc_done
    <3> HIDE DEF id
    <3> QED
      BY <2>2, AtIs
  <2>4. end <=> q.lastreplaymsgid # 0 /\ q.lastreplaymsgid <= id
    <3>1. id \in Nat /\ id # 0 /\ q.lastreplaymsgid \in Nat
      BY <1>2, <1>3, Fields DEF Null
    <3>2. q.lastreplaymsg = id => q.lastreplaymsgid = id
      BY <1>1, <1>3 DEF InPlace
    <3> HIDE DEF id
    <3> QED
      BY <3>1, <3>2
  <2>5. /\ r \in Subscription /\ Same(a, r) /\ r.state = a.state
        /\ r.lastmsg = a.lastmsg /\ r.lastmsgid = a.lastmsgid
        /\ r.rc_ready = end
        /\ r.rc_done = a.rc_done /\ r.nc_done = a.nc_done
    <3> HIDE DEF a, id
    <3>1. end \in BOOLEAN
      OBVIOUS
    <3> HIDE DEF end
    <3> QED
      BY <2>3, <3>1, ReadyIs
  <2>6. Same(q, r)
    <3> HIDE DEF a, r, id, end
    <3> QED
      BY <2>3, <2>5 DEF Same
  <2>7. Serving(q, m, Sent(q, id, r))
    <3>1. id = NextEntry(q)
      OBVIOUS
    <3> HIDE DEF a, r, id, end
    <3> QED
      BY <1>3, <2>3, <2>4, <2>5, <2>6, <3>1, SentServes
  <2> QED
    BY <2>1, <2>7
<1>4. CASE id = Null
  <2> DEFINE st == FinalState(q)
             r == [q EXCEPT !.rc_ready = TRUE, !.rc_done = TRUE, !.state = st]
  <2>1. ReplayMore(q) = Told(r, replayComplete)
    BY <1>4 DEF ReplayMore
  <2>2. ~q.rc_done
    BY <1>1 DEF Ordered
  <2>3. /\ r \in Subscription /\ Same(q, r) /\ r.state = st
        /\ r.lastmsg = q.lastmsg /\ r.lastmsgid = q.lastmsgid
        /\ r.rc_ready /\ r.rc_done /\ r.nc_done = q.nc_done
        /\ st \in {"replay", "live", "timed"}
    <3>1. /\ st \in {"replay", "timed", "live", "shutdown"}
          /\ st \in {"replay", "timed", "live"}
      BY FinalIs
    <3>2. r = [q EXCEPT !.rc_ready = TRUE, !.rc_done = TRUE, !.state = st]
      OBVIOUS
    <3> HIDE DEF st, r
    <3> QED
      BY <3>1, <3>2 DEF Same, Subscription
  <2>4. Good(r, m \o <<replayComplete>>, Logged, events, now, FALSE)
    <3>1. Len(events) \in Nat
      BY LogTypes
    <3> HIDE DEF r, st
    <3> QED
      BY <2>2, <2>3, <3>1, Completes
  <2>5. ~q.futurestop => Whole(q, m)
    BY <1>4, <2>2, WholeThen
  <2>6. Serving(q, m, Told(r, replayComplete))
    <3> HIDE DEF r, st
    <3>1. replayComplete \in Msgs
      BY DEF Msgs
    <3> QED
      BY <2>3, <2>4, <2>5, <3>1, ToldServes
  <2> QED
    BY <2>1, <2>6
<1> QED
  BY <1>3, <1>4

LEMMA ReplayOverServes ==
    ASSUME LogInv, NEW q \in Subscription, NEW m,
           Good(q, m, Logged, events, now, sending),
           q.state = "replay", q.rc_ready
    PROVE  Serving(q, m, ReplayOver(q))
<1>1. /\ Len(events) \in Nat
      /\ q.rc_done \in BOOLEAN /\ q.futurestop \in BOOLEAN
  BY LogTypes, Fields
<1>2. ~q.nc_done
  BY DEF Good, Ordered
<1>3. CASE ~q.rc_done
  <2> DEFINE r == [q EXCEPT !.rc_done = TRUE]
  <2>1. ReplayOver(q) = Told(r, replayComplete)
    BY <1>3 DEF ReplayOver
  <2>2. /\ r \in Subscription /\ Same(q, r) /\ r.state = q.state
        /\ r.lastmsg = q.lastmsg /\ r.lastmsgid = q.lastmsgid
        /\ r.rc_ready = q.rc_ready /\ r.rc_done /\ r.nc_done = q.nc_done
    BY DoneIs
  <2>3. replayComplete \in Msgs
    BY DEF Msgs
  <2>4. ~q.futurestop => Whole(q, m)
    BY <1>3, WholeThen
  <2> HIDE DEF r
  <2>5. Good(r, m \o <<replayComplete>>, Logged, events, now, FALSE)
    BY <1>1, <1>3, <2>2, Completes
  <2> QED
    BY <2>1, <2>2, <2>3, <2>4, <2>5, ToldServes
<1>4. CASE q.rc_done /\ q.stopTime # None /\ ~q.futurestop
  <2> DEFINE r == [q EXCEPT !.nc_done = TRUE, !.state = "shutdown"]
  <2>1. ReplayOver(q) = Told(r, notificationComplete)
    BY <1>4 DEF ReplayOver
  <2>2. /\ r \in Subscription /\ Same(q, r) /\ r.state = "shutdown"
        /\ r.lastmsg = q.lastmsg /\ r.lastmsgid = q.lastmsgid
        /\ r.rc_ready = q.rc_ready /\ r.rc_done = q.rc_done /\ r.nc_done
    BY ToldIs
  <2>3. notificationComplete \in Msgs /\ notificationComplete # replayComplete
    BY SymbolAssumption DEF Msgs
  <2> HIDE DEF r
  <2>4. Good(r, m \o <<notificationComplete>>, Logged, events, now, FALSE)
    BY <1>1, <1>2, <1>4, <2>2, Finishes
  <2> QED
    BY <2>1, <2>2, <2>3, <2>4, ToldServes
<1>5. CASE q.rc_done /\ ~(q.stopTime # None /\ ~q.futurestop)
  <2> DEFINE st == FinalState(q)
             r == [q EXCEPT !.state = st]
  <2>1. ReplayOver(q) = Quiet(r)
    BY <1>5 DEF ReplayOver
  <2>2. /\ st \in {"replay", "timed", "live", "shutdown"}
        /\ st \in {"live", "timed"}
    BY <1>5, FinalIs
  <2> HIDE DEF st
  <2>3. /\ r \in Subscription /\ Same(q, r) /\ r.state = st
        /\ r.lastmsg = q.lastmsg /\ r.lastmsgid = q.lastmsgid
        /\ r.rc_ready = q.rc_ready
        /\ r.rc_done = q.rc_done /\ r.nc_done = q.nc_done
    <3>1. r = [q EXCEPT !.state = st]
      OBVIOUS
    <3> HIDE DEF r
    <3> QED
      BY <2>2, <3>1 DEF Same, Subscription
  <2> HIDE DEF r
  <2>4. Good(r, m \o <<>>, Logged, events, now, FALSE)
    BY <1>1, <1>2, <1>5, <2>2, <2>3, Restates
  <2> QED
    BY <2>1, <2>2, <2>3, <2>4, QuietServes
<1> QED
  BY <1>1, <1>3, <1>4, <1>5

LEMMA LiveServes ==
    ASSUME LogInv, NEW q \in Subscription, NEW m,
           Good(q, m, Logged, events, now, sending), q.state = "live"
    PROVE  Serving(q, m, Live(q))
<1> DEFINE id == NextEntry(q)
           r == At(q, id)
<1>1. InPlace(q, Logged, Len(events)) /\ ~q.nc_done /\ Len(events) \in Nat
  BY LogTypes DEF Good, Ordered
<1>2. id \in Logged \cup {Null} /\ Logged \subseteq Ids
  BY <1>1, NextIs, LoggedIs
<1>3. CASE id = Null
  <2>1. Live(q) = Quiet(q)
    BY <1>3 DEF Live
  <2>2. Same(q, q)
    BY DEF Same
  <2>3. Good(q, m \o <<>>, Logged, events, now, FALSE)
    BY <1>1, <2>2, Restates
  <2> QED
    BY <2>1, <2>3, QuietServes
<1>4. CASE id # Null
  <2>1. Live(q) = Sent(q, id, r)
    BY <1>4 DEF Live
  <2>2. id \in Ids /\ id = NextEntry(q)
    BY <1>2, <1>4
  <2> HIDE DEF id
  <2>3. /\ r \in Subscription /\ Same(q, r) /\ r.lastmsg = id /\ r.lastmsgid = id
        /\ r.state = q.state /\ r.rc_done = q.rc_done /\ r.nc_done = q.nc_done
    BY <2>2, AtIs
  <2> HIDE DEF r
  <2> QED
    BY <1>4, <2>1, <2>2, <2>3, SentServes
<1> QED
  BY <1>3, <1>4

LEMMA TimedServes ==
    ASSUME LogInv, NEW q \in Subscription, NEW m,
           Good(q, m, Logged, events, now, sending), q.state = "timed"
    PROVE  Serving(q, m, Timed(q))
<1> DEFINE id == NextEntry(q)
           time == IF id = Null THEN now ELSE events[id].time
           over == q.stopTime <= time
           stop(r) == IF over THEN [r EXCEPT !.state = "shutdown"] ELSE r
<1>1. InPlace(q, Logged, Len(events)) /\ ~q.nc_done /\ Len(events) \in Nat
  BY LogTypes DEF Good, Ordered
<1>2. id \in Logged \cup {Null} /\ Logged \subseteq Ids
  BY <1>1, NextIs, LoggedIs
<1>3. ASSUME NEW p \in Subscription, p.state = "timed"
      PROVE  /\ stop(p) \in Subscription /\ Same(p, stop(p))
             /\ stop(p).state \in {"timed", "shutdown"}
             /\ stop(p).lastmsg = p.lastmsg /\ stop(p).lastmsgid = p.lastmsgid
             /\ stop(p).rc_ready = p.rc_ready
             /\ stop(p).rc_done = p.rc_done /\ stop(p).nc_done = p.nc_done
  <2> HIDE DEF over
  <2>1. CASE over
    <3> DEFINE r == [p EXCEPT !.state = "shutdown"]
    <3>1. stop(p) = r
      BY <2>1
    <3>2. /\ r \in Subscription /\ Same(p, r) /\ r.state = "shutdown"
          /\ r.lastmsg = p.lastmsg /\ r.lastmsgid = p.lastmsgid
          /\ r.rc_ready = p.rc_ready
          /\ r.rc_done = p.rc_done /\ r.nc_done = p.nc_done
      BY RestatedIs
    <3> HIDE DEF r, stop
    <3> QED
      BY <3>1, <3>2
  <2>2. CASE ~over
    BY <1>3, <2>2 DEF Same
  <2> QED
    BY <2>1, <2>2
<1>4. CASE id = Null
  <2> DEFINE r == stop(q)
  <2>1. Timed(q) = Quiet(r)
    BY <1>4 DEF Timed
  <2>2. /\ r \in Subscription /\ Same(q, r)
        /\ r.state \in {"timed", "shutdown"}
        /\ r.lastmsg = q.lastmsg /\ r.lastmsgid = q.lastmsgid
        /\ r.rc_ready = q.rc_ready
        /\ r.rc_done = q.rc_done /\ r.nc_done = q.nc_done
    <3> HIDE DEF stop
    <3> QED
      BY <1>3
  <2> HIDE DEF r
  <2>3. Good(r, m \o <<>>, Logged, events, now, FALSE)
    BY <1>1, <2>2, Restates
  <2> QED
    BY <2>1, <2>2, <2>3, QuietServes
<1>5. CASE id # Null
  <2> DEFINE a == At(q, id)
             r == stop(a)
  <2>1. Timed(q) = Sent(q, id, r)
    BY <1>5 DEF Timed
  <2>2. id \in Ids /\ id = NextEntry(q)
    BY <1>2, <1>5
  <2>3. /\ a \in Subscription /\ Same(q, a) /\ a.lastmsg = id /\ a.lastmsgid = id
        /\ a.state = q.state /\ a.rc_done = q.rc_done /\ a.nc_done = q.nc_done
    <3> HIDE DEF id
    <3> QED
      BY <2>2, AtIs
  <2>4. /\ r \in Subscription /\ Same(a, r)
        /\ r.state \in {"timed", "shutdown"}
        /\ r.lastmsg = a.lastmsg /\ r.lastmsgid = a.lastmsgid
        /\ r.rc_done = a.rc_done /\ r.nc_done = a.nc_done
    <3> HIDE DEF stop, a
    <3> QED
      BY <1>3, <2>3
  <2> HIDE DEF id, a, r, stop
  <2>5. Same(q, r)
    BY <2>3, <2>4 DEF Same
  <2>6. /\ r.lastmsg = id /\ r.lastmsgid = id
        /\ r.rc_done = q.rc_done /\ r.nc_done = q.nc_done
        /\ r.state = q.state \/ (q.state = "timed" /\ r.state = "shutdown")
    BY <2>3, <2>4
  <2> QED
    BY <1>5, <2>1, <2>2, <2>4, <2>5, <2>6, SentServes
<1> QED
  BY <1>4, <1>5

LEMMA ShutdownServes ==
    ASSUME LogInv, NEW q \in Subscription, NEW m,
           Good(q, m, Logged, events, now, sending), q.state = "shutdown"
    PROVE  Serving(q, m, Shutdown(q))
<1>1. Len(events) \in Nat /\ q.rc_done /\ q.nc_done \in BOOLEAN
  BY LogTypes, Fields DEF Good, Ordered
<1>2. CASE q.stopTime # None /\ ~q.nc_done
  <2> DEFINE r == [q EXCEPT !.nc_done = TRUE]
  <2>1. Shutdown(q) = Told(r, notificationComplete)
    BY <1>2 DEF Shutdown
  <2>2. /\ r \in Subscription /\ Same(q, r) /\ r.state = q.state
        /\ r.lastmsg = q.lastmsg /\ r.lastmsgid = q.lastmsgid
        /\ r.rc_ready = q.rc_ready /\ r.rc_done = q.rc_done /\ r.nc_done
    BY TellsIs
  <2>3. notificationComplete \in Msgs /\ notificationComplete # replayComplete
    BY SymbolAssumption DEF Msgs
  <2> HIDE DEF r
  <2>4. Good(r, m \o <<notificationComplete>>, Logged, events, now, FALSE)
    BY <1>1, <1>2, <2>2, Finishes
  <2> QED
    BY <2>1, <2>2, <2>3, <2>4, ToldServes
<1>3. CASE ~(q.stopTime # None /\ ~q.nc_done)
  BY <1>3 DEF Shutdown, Serving, Quiet
<1> QED
  BY <1>2, <1>3

LEMMA Serves ==
    ASSUME LogInv, NEW q \in Subscription, NEW m,
           Good(q, m, Logged, events, now, sending)
    PROVE  Serving(q, m, Served(q))
<1>1. q # None
  BY SymbolAssumption
<1>2. q.state \in {"replay", "timed", "live", "shutdown"} /\ q.rc_ready \in BOOLEAN
  BY Fields
<1>3. CASE q.state = "replay" /\ ~q.rc_ready
  <2>1. Served(q) = ReplayMore(q)
    BY <1>1, <1>3 DEF Served
  <2> QED
    BY <1>3, <2>1, ReplayMoreServes
<1>4. CASE q.state = "replay" /\ q.rc_ready
  <2>1. Served(q) = ReplayOver(q)
    BY <1>1, <1>4 DEF Served
  <2> QED
    BY <1>4, <2>1, ReplayOverServes
<1>5. CASE q.state = "live"
  <2>1. Served(q) = Live(q)
    BY <1>1, <1>5 DEF Served
  <2> QED
    BY <1>5, <2>1, LiveServes
<1>6. CASE q.state = "timed"
  <2>1. Served(q) = Timed(q)
    BY <1>1, <1>6 DEF Served
  <2> QED
    BY <1>6, <2>1, TimedServes
<1>7. CASE q.state = "shutdown"
  <2>1. Served(q) = Shutdown(q)
    BY <1>1, <1>7 DEF Served
  <2> QED
    BY <1>7, <2>1, ShutdownServes
<1> QED
  BY <1>2, <1>3, <1>4, <1>5, <1>6, <1>7

-----------------------------------------------------------------------------
(* The clock and the log go on.                                            *)

LEMMA LaterGood ==
    ASSUME NEW L, NEW ev, NEW t \in Nat, NEW t2 \in Nat, t <= t2, NEW going,
           NEW q \in Subscription, NEW m, Good(q, m, L, ev, t, going)
    PROVE  Good(q, m, L, ev, t2, going)
<1>1. /\ q.startTime \in Nat \cup {None} /\ q.stopTime \in Nat \cup {None}
  BY Fields
<1>2. q.state = "replay" => q.startTime # None
  BY DEF Good, Ordered
<1>3. Replayed(q, m, L, ev, t, going)
  BY DEF Good
<1>4. q.state = "replay" /\ ~q.rc_done /\ ~q.futurestop =>
         /\ q.startTime <= t2
         /\ q.stopTime # None => q.stopTime <= t2
  BY <1>1, <1>2, <1>3 DEF Replayed
<1>5. Replayed(q, m, L, ev, t2, going)
  BY <1>3, <1>4 DEF Replayed
<1> QED
  BY <1>5 DEF Good

(* Where no replay needs a pass that goes on, one may.                     *)
LEMMA GoingGood ==
    ASSUME NEW L, NEW ev, NEW t, NEW going, NEW q, NEW m,
           Good(q, m, L, ev, t, FALSE)
    PROVE  Good(q, m, L, ev, t, going)
<1>1. Replayed(q, m, L, ev, t, going)
  BY DEF Good, Replayed
<1> QED
  BY <1>1 DEF Good

(* An event at time t is queued: the log L of the events ev becomes L2 and *)
(* ev2, and the entry id may be deleted, if there is one.                  *)
Grown(t, L, ev, L2, ev2, n, id) ==
    /\ t \in Nat /\ n \in Nat /\ id \in Nat
    /\ Len(ev) = n /\ Len(ev2) = n + 1 /\ L \subseteq 1..n
    /\ \A i \in 1..n : ev2[i] = ev[i]
    /\ ev2[n + 1].time = t
    /\ L2 \subseteq L \cup {n + 1} /\ L \ {id} \subseteq L2 /\ id \notin L2

ClearedTo(q, r, id) ==
    /\ r.lastmsg = Unless(q.lastmsg, id)
    /\ r.firstreplaymsg = Unless(q.firstreplaymsg, id)
    /\ r.lastreplaymsg = Unless(q.lastreplaymsg, id)
    /\ r.lastmsgid = q.lastmsgid
    /\ r.firstreplaymsgid = q.firstreplaymsgid
    /\ r.lastreplaymsgid = q.lastreplaymsgid
    /\ r.startTime = q.startTime /\ r.stopTime = q.stopTime
    /\ r.futurestop = q.futurestop /\ r.filter = q.filter
    /\ r.state = q.state /\ r.rc_ready = q.rc_ready
    /\ r.rc_done = q.rc_done /\ r.nc_done = q.nc_done

LEMMA QueuedGood ==
    ASSUME NEW t, NEW L, NEW ev, NEW L2, NEW ev2, NEW n, NEW id,
           Grown(t, L, ev, L2, ev2, n, id),
           NEW q \in Subscription, NEW m, Good(q, m, L, ev, t, FALSE),
           NEW r \in Subscription, ClearedTo(q, r, id)
    PROVE  Good(r, m, L2, ev2, t, FALSE)
<1> USE DEF Grown, ClearedTo
<1>1. /\ InPlace(q, L, n) /\ Ordered(q, m) /\ Passed(q, m, L, ev)
      /\ Replayed(q, m, L, ev, t, FALSE)
  BY DEF Good
<1>2. /\ q.lastmsgid \in Nat /\ q.firstreplaymsgid \in Nat
      /\ q.lastreplaymsgid \in Nat /\ q.lastmsg \in Nat
      /\ q.firstreplaymsg \in Nat /\ q.lastreplaymsg \in Nat
      /\ q.startTime \in Nat \cup {None} /\ q.stopTime \in Nat \cup {None}
  BY Fields
<1>3. ASSUME NEW p \in L \cup {Null}
      PROVE  /\ Unless(p, id) \in L2 \cup {Null}
             /\ Unless(p, id) # Null => Unless(p, id) = p /\ p \in L2
             /\ p # Null /\ Unless(p, id) = Null => p \notin L2
  BY DEF Unless
<1>4. InPlace(r, L2, n + 1)
  <2>1. /\ q.lastmsg \in L \cup {Null}
        /\ q.lastmsg # Null => q.lastmsg = q.lastmsgid
        /\ q.lastmsgid <= n /\ q.firstreplaymsgid <= n /\ q.lastreplaymsgid <= n
    BY <1>1 DEF InPlace
  <2>2. /\ r.lastmsg \in L2 \cup {Null}
        /\ r.lastmsg # Null => r.lastmsg = r.lastmsgid
    BY <1>3, <2>1
  <2>3. /\ r.lastmsgid <= n + 1 /\ r.firstreplaymsgid <= n + 1
        /\ r.lastreplaymsgid <= n + 1
    BY <1>2, <2>1
  <2>4. ASSUME r.state = "replay", ~r.rc_ready
        PROVE  /\ r.firstreplaymsgid # 0
               /\ r.lastreplaymsg \in L2 \cup {Null}
               /\ r.lastreplaymsg # Null => r.lastreplaymsg = r.lastreplaymsgid
               /\ r.lastmsgid # 0 /\ r.lastreplaymsgid # 0 =>
                     r.lastreplaymsgid > r.lastmsgid
               /\ r.lastmsgid = 0 =>
                     IF r.firstreplaymsg = Null THEN r.firstreplaymsgid \notin L2
                     ELSE /\ r.firstreplaymsg = r.firstreplaymsgid
                          /\ r.firstreplaymsg \in L2
    <3>1. /\ q.firstreplaymsgid # 0
          /\ q.lastreplaymsg \in L \cup {Null}
          /\ q.lastreplaymsg # Null => q.lastreplaymsg = q.lastreplaymsgid
          /\ q.lastmsgid # 0 /\ q.lastreplaymsgid # 0 =>
                q.lastreplaymsgid > q.lastmsgid
          /\ q.lastmsgid = 0 =>
                IF q.firstreplaymsg = Null THEN q.firstreplaymsgid \notin L
                ELSE /\ q.firstreplaymsg = q.firstreplaymsgid
                     /\ q.firstreplaymsg \in L
      BY <1>1, <2>4 DEF InPlace
    <3>2. /\ r.lastreplaymsg \in L2 \cup {Null}
          /\ r.lastreplaymsg # Null => r.lastreplaymsg = r.lastreplaymsgid
      BY <1>3, <3>1
    <3>3. ASSUME q.lastmsgid = 0, q.firstreplaymsg = Null
          PROVE  r.firstreplaymsg = Null /\ r.firstreplaymsgid \notin L2
      <4>1. r.firstreplaymsg = Null
        BY <3>3 DEF Unless
      <4>2. q.firstreplaymsgid # n + 1 /\ q.firstreplaymsgid \notin L
        BY <1>2, <2>1, <3>1, <3>3
      <4> QED
        BY <4>1, <4>2
    <3>4. ASSUME q.lastmsgid = 0, q.firstreplaymsg # Null
          PROVE  IF r.firstreplaymsg = Null THEN r.firstreplaymsgid \notin L2
                 ELSE /\ r.firstreplaymsg = r.firstreplaymsgid
                      /\ r.firstreplaymsg \in L2
      BY <1>3, <3>1, <3>4
    <3> QED
      BY <3>1, <3>2, <3>3, <3>4
  <2> QED
    BY <2>2, <2>3, <2>4 DEF InPlace
<1>5. Ordered(r, m)
  BY <1>1 DEF Ordered
<1>6. ASSUME NEW i \in L2
      PROVE  \/ i = n + 1 /\ i \notin L /\ ev2[i].time = t
             \/ i \in L /\ ev2[i] = ev[i] /\ i \in 1..n
  BY <1>6
<1>7. \A e : Wants(r, e) <=> Wants(q, e)
  BY DEF Wants
<1>8. Passed(r, m, L2, ev2)
  <2> SUFFICES ASSUME NEW i \in L2, Wants(r, ev2[i]), i <= r.lastmsgid,
                      NEW a \in IdsIn(m), a < i
               PROVE  i \in IdsIn(m)
    BY Zenon DEF Passed
  <2>1. q.lastmsgid <= n
    BY <1>1 DEF InPlace
  <2>2. i \in L /\ ev2[i] = ev[i]
    BY <1>2, <1>6, <2>1
  <2> QED
    BY <1>1, <1>7, <2>2 DEF Passed
<1>9. Replayed(r, m, L2, ev2, t, FALSE)
  <2> SUFFICES ASSUME r.state = "replay", ~r.rc_done, ~r.futurestop
               PROVE  /\ r.startTime <= t
                      /\ r.stopTime # None => r.stopTime <= t
                      /\ \A i \in L2 : /\ Wants(r, ev2[i]) /\ r.startTime <= ev2[i].time
                                       /\ i <= r.lastmsgid
                                       => i \in IdsIn(m)
                      /\ ~r.rc_ready =>
                            /\ \A i \in L2 : r.startTime <= ev2[i].time =>
                                                r.firstreplaymsgid <= i
                            /\ IF r.stopTime = None THEN r.lastreplaymsgid = 0
                               ELSE \A i \in L2 : r.lastreplaymsgid < i
                                                     => r.stopTime <= ev2[i].time
                      /\ r.rc_ready =>
                            /\ r.stopTime = None => FALSE
                            /\ \A i \in L2 :
                                  /\ Wants(r, ev2[i]) /\ r.startTime <= ev2[i].time
                                  /\ r.stopTime # None => ev2[i].time < r.stopTime
                                  => i \in IdsIn(m)
    BY Zenon DEF Replayed
  <2>1. /\ q.startTime <= t
        /\ q.stopTime # None => q.stopTime <= t
        /\ \A i \in L : /\ Wants(q, ev[i]) /\ q.startTime <= ev[i].time
                        /\ i <= q.lastmsgid
                        => i \in IdsIn(m)
        /\ ~q.rc_ready =>
              /\ \A i \in L : q.startTime <= ev[i].time => q.firstreplaymsgid <= i
              /\ IF q.stopTime = None THEN q.lastreplaymsgid = 0
                 ELSE \A i \in L : q.lastreplaymsgid < i => q.stopTime <= ev[i].time
        /\ q.rc_ready =>
              /\ q.stopTime = None => FALSE
              /\ \A i \in L : /\ Wants(q, ev[i]) /\ q.startTime <= ev[i].time
                              /\ q.stopTime # None => ev[i].time < q.stopTime
                              => i \in IdsIn(m)
    BY <1>1 DEF Replayed
  <2>2. /\ q.lastmsgid <= n /\ q.firstreplaymsgid <= n
    BY <1>1 DEF InPlace
  <2>3. ASSUME NEW i \in L2, Wants(r, ev2[i]), r.startTime <= ev2[i].time,
               i <= r.lastmsgid
        PROVE  i \in IdsIn(m)
    <3>1. i \in L /\ ev2[i] = ev[i]
      BY <1>2, <1>6, <2>2, <2>3
    <3> QED
      BY <1>7, <2>1, <2>3, <3>1
  <2>4. ASSUME NEW i \in L2, ~r.rc_ready, r.startTime <= ev2[i].time
        PROVE  r.firstreplaymsgid <= i
    BY <1>2, <1>6, <2>1, <2>2, <2>4
  <2>5. ASSUME NEW i \in L2, ~r.rc_ready, r.stopTime # None, r.lastreplaymsgid < i
        PROVE  r.stopTime <= ev2[i].time
    BY <1>6, <2>1, <2>5
  <2>6. ASSUME NEW i \in L2, r.rc_ready, Wants(r, ev2[i]),
               r.startTime <= ev2[i].time,
               r.stopTime # None => ev2[i].time < r.stopTime
        PROVE  i \in IdsIn(m)
    <3>1. r.stopTime # None /\ r.stopTime \in Nat
      BY <1>2, <2>1, <2>6
    <3>2. ~(ev2[i].time = t)
      BY <2>1, <2>6, <3>1
    <3>3. i \in L /\ ev2[i] = ev[i]
      BY <1>6, <3>2
    <3> QED
      BY <1>7, <2>1, <2>6, <3>3
  <2>7. ~r.rc_ready /\ r.stopTime = None => r.lastreplaymsgid = 0
    BY <2>1
  <2> QED
    BY <2>1, <2>3, <2>4, <2>5, <2>6, <2>7
<1> QED
  BY <1>4, <1>5, <1>8, <1>9 DEF Good

(* Entries are deleted to which no subscription points.                    *)
LEMMA CleanedGood ==
    ASSUME NEW L, NEW L2, L2 \subseteq L, NEW ev, NEW t, NEW going,
           NEW q, NEW m, Good(q, m, L, ev, t, going),
           q.lastmsg \in L2 \cup {Null},
           q.state = "replay" /\ ~q.rc_ready =>
              q.lastmsgid # 0 /\ q.lastreplaymsg \in L2 \cup {Null}
    PROVE  Good(q, m, L2, ev, t, going)
<1>1. /\ InPlace(q, L, Len(ev)) /\ Ordered(q, m) /\ Passed(q, m, L, ev)
      /\ Replayed(q, m, L, ev, t, going)
  BY DEF Good
<1>2. InPlace(q, L2, Len(ev))
  BY <1>1 DEF InPlace
<1>3. Passed(q, m, L2, ev)
  BY <1>1 DEF Passed
<1>4. Replayed(q, m, L2, ev, t, going)
  BY <1>1 DEF Replayed
<1> QED
  BY <1>1, <1>2, <1>3, <1>4 DEF Good

(* What stays of such a sequence from its place f on.                      *)
CutAt(q, r, n, f) ==
    /\ n \in Nat /\ q \in Seq(Nat) /\ Len(q) <= n
    /\ \A i \in DOMAIN q : q[i] = n - Len(q) + i
    /\ f \in 1..(Len(q) + 1)
    /\ r = SubSeq(q, f, Len(q))

LEMMA SuffixOfSuffix ==
    ASSUME NEW n, NEW q, NEW f, NEW r, CutAt(q, r, n, f)
    PROVE  /\ r \in Seq(Nat) /\ Len(r) = Len(q) - f + 1
           /\ \A i \in DOMAIN r : r[i] = n - Len(r) + i
<1> USE DEF CutAt
<1>1. Len(q) \in Nat /\ DOMAIN q = 1..Len(q)
  BY LenProperties
<1>2. \A i \in f..Len(q) : q[i] \in Nat
  BY <1>1, ElementOfSeq
<1>3. /\ r \in Seq(Nat)
      /\ Len(r) = IF f <= Len(q) THEN Len(q) - f + 1 ELSE 0
      /\ \A i \in 1..(Len(q) - f + 1) : r[i] = q[f + i - 1]
  BY <1>1, <1>2, SubSeqProperties
<1>4. Len(r) = Len(q) - f + 1
  BY <1>1, <1>3
<1>5. DOMAIN r = 1..(Len(q) - f + 1)
  BY <1>3, <1>4, LenProperties
<1>6. ASSUME NEW i \in DOMAIN r
      PROVE  r[i] = n - Len(r) + i
  <2>1. f + i - 1 \in 1..Len(q)
    BY <1>1, <1>5
  <2>2. r[i] = n - Len(q) + (f + i - 1)
    BY <1>1, <1>3, <1>5, <2>1
  <2> QED
    BY <1>1, <1>4, <1>5, <2>2
<1> QED
  BY <1>3, <1>4, <1>6

-----------------------------------------------------------------------------
(* The actions.                                                            *)

Cleared(q, id) == [q EXCEPT !.firstreplaymsg = Unless(@, id),
                            !.lastreplaymsg = Unless(@, id),
                            !.lastmsg = Unless(@, id)]

LEMMA ClearedIs ==
    ASSUME NEW q \in Subscription, NEW id, NEW r, r = Cleared(q, id)
    PROVE  r \in Subscription /\ ClearedTo(q, r, id)
<1>1. \A p \in Ids \cup {Null} : Unless(p, id) \in Ids \cup {Null}
  BY DEF Unless
<1>2. /\ q.firstreplaymsg \in Ids \cup {Null} /\ q.lastreplaymsg \in Ids \cup {Null}
      /\ q.lastmsg \in Ids \cup {Null}
  BY DEF Subscription
<1> DEFINE a == Unless(q.firstreplaymsg, id)
           b == Unless(q.lastreplaymsg, id)
           c == Unless(q.lastmsg, id)
<1>3. r = [q EXCEPT !.firstreplaymsg = a, !.lastreplaymsg = b, !.lastmsg = c]
  BY DEF Subscription, Cleared
<1>4. a \in Ids \cup {Null} /\ b \in Ids \cup {Null} /\ c \in Ids \cup {Null}
  BY <1>1, <1>2
<1> HIDE DEF a, b, c
<1>5. r \in Subscription
  BY <1>3, <1>4 DEF Subscription
<1>6. r.firstreplaymsg = a /\ r.lastreplaymsg = b /\ r.lastmsg = c
  BY <1>3, <1>4 DEF Subscription
<1>7. /\ r.lastmsgid = q.lastmsgid
      /\ r.firstreplaymsgid = q.firstreplaymsgid
      /\ r.lastreplaymsgid = q.lastreplaymsgid
      /\ r.startTime = q.startTime /\ r.stopTime = q.stopTime
      /\ r.futurestop = q.futurestop /\ r.filter = q.filter
      /\ r.state = q.state /\ r.rc_ready = q.rc_ready
      /\ r.rc_done = q.rc_done /\ r.nc_done = q.nc_done
  BY <1>3, <1>4 DEF Subscription
<1> QED
  BY <1>5, <1>6, <1>7 DEF a, b, c, ClearedTo

LEMMA QueueKeeps ==
    ASSUME NotInv, NEW type \in EventTypes, agt_not_queue_notification(type)
    PROVE  NotInv'
<1> DEFINE n == Len(events)
<1>1. LogInv /\ SubInv
  BY DEF NotInv
<1>2. /\ LogInv'
      /\ Len(events') = n + 1
      /\ \A i \in 1..n : events'[i] = events[i]
      /\ events'[n + 1] = [time |-> now, type |-> type]
      /\ Logged' \subseteq Logged \cup {n + 1}
      /\ \/ sub' = sub /\ Logged \subseteq Logged'
         \/ /\ notificationQ # <<>>
            /\ ClearPointers(Head(notificationQ))
            /\ Logged \ {Head(notificationQ)} \subseteq Logged'
            /\ Head(notificationQ) \notin Logged'
  BY <1>1, QueueLog
<1>3. sending = FALSE /\ sending' = FALSE /\ now' = now /\ sent' = sent
  BY <1>1 DEF agt_not_queue_notification, LogInv
<1>4. now \in Nat /\ n \in Nat /\ Logged \subseteq 1..n
  BY <1>1, LogTypes, LoggedIs DEF LogInv, Time
<1>5. events'[n + 1].time = now
  BY <1>2
<1>6. /\ sub \in [Sessions -> Subscription \cup {None}]
      /\ sent \in [Sessions -> Seq(Msgs)]
      /\ \A s \in Sessions :
            IF sub[s] = None THEN sent[s] = <<>>
            ELSE Good(sub[s], sent[s], Logged, events, now, FALSE)
  BY <1>1, <1>3 DEF SubInv
<1>7. None \notin Subscription
  BY SymbolAssumption
<1>8. PICK id \in Nat :
         /\ Logged \ {id} \subseteq Logged' /\ id \notin Logged'
         /\ sub' \in [Sessions -> Subscription \cup {None}]
         /\ \A s \in Sessions : sub[s] = None => sub'[s] = None
         /\ \A s \in Sessions : sub[s] # None =>
               \/ id = 0 /\ sub'[s] = sub[s]
               \/ sub'[s] = Cleared(sub[s], id)
  <2>1. CASE sub' = sub /\ Logged \subseteq Logged'
    <3>1. 0 \notin Logged'
      BY <1>2, <1>4
    <3> QED
      BY <1>6, <2>1, <3>1
  <2>2. CASE /\ notificationQ # <<>>
             /\ ClearPointers(Head(notificationQ))
             /\ Logged \ {Head(notificationQ)} \subseteq Logged'
             /\ Head(notificationQ) \notin Logged'
    <3> DEFINE id == Head(notificationQ)
    <3>1. id \in Nat
      BY <1>1, <2>2, HeadTailProperties DEF LogInv
    <3>2. sub' = [s \in Sessions |->
                     IF sub[s] = None THEN None
                     ELSE Cleared(sub[s], id)]
      BY <2>2 DEF ClearPointers, Cleared
    <3> HIDE DEF id
    <3>3. ASSUME NEW s \in Sessions, sub[s] # None
          PROVE  Cleared(sub[s], id) \in Subscription
      BY <1>6, <3>3, ClearedIs
    <3>4. sub' \in [Sessions -> Subscription \cup {None}]
      BY <3>2, <3>3
    <3>5. Logged \ {id} \subseteq Logged' /\ id \notin Logged'
      BY <2>2 DEF id
    <3> QED
      BY <3>1, <3>2, <3>4, <3>5
  <2> QED
    BY <1>2, <2>1, <2>2
<1>9. ASSUME NEW s \in Sessions, sub[s] # None
      PROVE  /\ sub'[s] # None
             /\ Good(sub'[s], sent'[s], Logged', events', now', sending')
  <2> DEFINE q == sub[s]
             r == sub'[s]
             m == sent[s]
  <2>1. q \in Subscription /\ Good(q, m, Logged, events, now, FALSE)
    BY <1>6, <1>9
  <2>2. r \in Subscription /\ ClearedTo(q, r, id)
    <3>1. CASE id = 0 /\ r = q
      BY <2>1, <3>1 DEF ClearedTo, Unless, Null
    <3>2. CASE r = Cleared(q, id)
      <4> HIDE DEF q, r, m
      <4>1. q \in Subscription
        BY <2>1
      <4> QED
        BY <3>2, <4>1, ClearedIs
    <3> QED
      BY <1>8, <1>9, <3>1, <3>2
  <2> HIDE DEF q, r, m
  <2>3. Good(r, m, Logged', events', now, FALSE)
    <3> HIDE DEF n
    <3> DEFINE L2 == Logged'
               ev2 == events'
    <3>1. Grown(now, Logged, events, L2, ev2, n, id)
      BY <1>2, <1>4, <1>5, <1>8 DEF n, Grown
    <3> HIDE DEF L2, ev2
    <3>2. Good(r, m, L2, ev2, now, FALSE)
      BY <2>1, <2>2, <3>1, QueuedGood
    <3> QED
      BY <3>2 DEF L2, ev2
  <2>4. r # None
    BY <1>7, <2>2
  <2> QED
    BY <1>3, <2>3, <2>4 DEF r, m
<1>10. SubInv'
  <2>1. \A s \in Sessions :
           IF sub'[s] = None THEN sent'[s] = <<>>
           ELSE Good(sub'[s], sent'[s], Logged', events', now', sending')
    BY <1>3, <1>6, <1>8, <1>9
  <2> QED
    BY <1>3, <1>6, <1>8, <2>1 DEF SubInv
<1> QED
  BY <1>2, <1>10 DEF NotInv

LEMMA ReplayEndIs ==
    ASSUME LogInv, NEW first \in Logged, NEW stop \in Nat
    PROVE  /\ \A future \in BOOLEAN : ReplayEnd(first, stop, future) \in Logged \cup {Null}
           /\ \A i \in Logged : ReplayEnd(first, stop, FALSE) < i =>
                 stop <= events[i].time
<1> DEFINE over == {i \in Logged : i > first /\ events[i].time > stop}
           o == Least(over)
           c == CHOOSE i \in Logged : get_entry_after(i) = o
<1>1. /\ Logged = (Len(events) - Len(notificationQ) + 1)..Len(events)
      /\ Logged \subseteq 1..Len(events)
      /\ Len(events) \in Nat /\ Len(notificationQ) \in Nat
      /\ Len(notificationQ) <= Len(events)
  BY LoggedIs, LogTypes DEF LogInv
<1>2. /\ LastEntry \in Logged \cup {Null}
      /\ LastEntry # Null => LastEntry = Len(events)
      /\ LastEntry = Null => Logged = {}
  BY LastEntryIs
<1>3. \A future \in BOOLEAN :
         ReplayEnd(first, stop, future) =
            IF future \/ over = {} THEN LastEntry ELSE c
  BY DEF ReplayEnd
<1>4. CASE over = {}
  <2>1. \A future \in BOOLEAN : ReplayEnd(first, stop, future) = LastEntry
    BY <1>3, <1>4
  <2>2. \A i \in Logged : ~(LastEntry < i)
    BY <1>1, <1>2
  <2> QED
    BY <1>2, <2>1, <2>2
<1>5. CASE over # {}
  <2>1. over \subseteq Nat
    BY <1>1
  <2>2. o \in over
    <3> HIDE DEF over
    <3> QED
      BY <1>5, <2>1, LeastIs
  <2>3. /\ o \in Logged /\ o > first /\ events[o].time > stop
    BY <2>2
  <2>4. o - 1 \in Logged /\ o - 1 \in Nat
    <3> HIDE DEF o
    <3> QED
      BY <1>1, <2>3
  <2>5. get_entry_after(o - 1) = o
    <3> HIDE DEF o
    <3>1. /\ get_entry_after(o - 1) \in Logged \cup {Null}
          /\ get_entry_after(o - 1) # Null =>
                /\ get_entry_after(o - 1) > o - 1
                /\ \A i \in Logged : i > o - 1 => get_entry_after(o - 1) <= i
          /\ get_entry_after(o - 1) = Null => \A i \in Logged : i <= o - 1
      BY <2>4, AfterIs
    <3>2. o \in Nat /\ o > o - 1
      BY <1>1, <2>3
    <3>3. get_entry_after(o - 1) # Null
      BY <2>3, <3>1, <3>2
    <3>4. get_entry_after(o - 1) \in Nat
      BY <1>1, <3>1, <3>3
    <3> QED
      BY <2>3, <3>1, <3>2, <3>3, <3>4
  <2>6. c \in Logged /\ get_entry_after(c) = o
    <3> HIDE DEF o
    <3> QED
      BY <2>4, <2>5
  <2> HIDE DEF c, o, over
  <2>7. o # Null /\ c \in Nat /\ o \in Nat
    BY <1>1, <2>3, <2>6 DEF Null
  <2>8. \A i \in Logged : i > c => o <= i
    BY <2>6, <2>7, AfterIs
  <2>9. ASSUME NEW i \in Logged, c < i
        PROVE  stop <= events[i].time
    <3>1. o <= i /\ i \in 1..Len(events) /\ o \in 1..Len(events)
      BY <1>1, <2>3, <2>7, <2>8, <2>9
    <3>2. events[o].time <= events[i].time
      BY <3>1 DEF LogInv
    <3>3. events[o].time \in Nat /\ events[i].time \in Nat
      BY <3>1, LogTypes DEF Time
    <3> QED
      BY <2>3, <3>2, <3>3
  <2>10. \A future \in BOOLEAN :
            ReplayEnd(first, stop, future) = IF future THEN LastEntry ELSE c
    BY <1>3, <1>5
  <2> QED
    BY <1>2, <2>6, <2>9, <2>10
<1> QED
  BY <1>4, <1>5

(* A new subscription.                                                     *)
Created(start, stop, filter) ==
    LET future == stop # None /\ stop > now
        matching == IF start = None THEN {} ELSE LaterThan(start)
        first == IF matching = {} THEN Null ELSE Least(matching)
        none == ReplayNothing(stop, first, future)
        begin == IF none THEN Null ELSE first
        last == IF none \/ stop = None THEN Null
                ELSE ReplayEnd(first, stop, future)
        place == IF start = None THEN LastEntry ELSE Null
    IN  [state |-> IF start = None THEN "live" ELSE "replay",
         startTime |-> start, stopTime |-> stop,
         futurestop |-> future, filter |-> filter,
         firstreplaymsg |-> begin, firstreplaymsgid |-> begin,
         lastreplaymsg |-> last, lastreplaymsgid |-> last,
         lastmsg |-> place, lastmsgid |-> place,
         rc_ready |-> start # None /\ none,
         rc_done |-> FALSE, nc_done |-> FALSE]

LEMMA CreatedGood ==
    ASSUME LogInv, NEW start \in Time \cup {None}, NEW stop \in Time \cup {None},
           NEW filter \in SUBSET EventTypes,
           start # None => start <= now /\ (stop # None => start <= stop),
           start = None => stop = None,
           NEW r, r = Created(start, stop, filter)
    PROVE  r \in Subscription /\ Good(r, <<>>, Logged, events, now, TRUE)
<1> DEFINE future == stop # None /\ stop > now
           matching == IF start = None THEN {} ELSE LaterThan(start)
           first == IF matching = {} THEN Null ELSE Least(matching)
           none == ReplayNothing(stop, first, future)
           begin == IF none THEN Null ELSE first
           last == IF none \/ stop = None THEN Null
                   ELSE ReplayEnd(first, stop, future)
           place == IF start = None THEN LastEntry ELSE Null
<1>0. /\ future = (stop # None /\ stop > now)
      /\ first = IF (IF start = None THEN {} ELSE LaterThan(start)) = {} THEN Null
                 ELSE Least(IF start = None THEN {} ELSE LaterThan(start))
      /\ none = ReplayNothing(stop, first, future)
      /\ begin = IF none THEN Null ELSE first
      /\ last = IF none \/ stop = None THEN Null
                ELSE ReplayEnd(first, stop, future)
      /\ place = IF start = None THEN LastEntry ELSE Null
      /\ r = [state |-> IF start = None THEN "live" ELSE "replay",
              startTime |-> start, stopTime |-> stop,
              futurestop |-> future, filter |-> filter,
              firstreplaymsg |-> begin, firstreplaymsgid |-> begin,
              lastreplaymsg |-> last, lastreplaymsgid |-> last,
              lastmsg |-> place, lastmsgid |-> place,
              rc_ready |-> start # None /\ none,
              rc_done |-> FALSE, nc_done |-> FALSE]
  BY DEF Created
<1> HIDE DEF future, matching, first, none, begin, last, place
<1> USE <1>0
<1> DEFINE n == Len(events)
           T == IF start = None THEN {} ELSE LaterThan(start)
<1>1. /\ Logged \subseteq 1..n /\ Logged \subseteq Ids /\ Logged \subseteq Nat
      /\ n \in Nat /\ now \in Nat
      /\ \A i \in Logged : events[i].time \in Nat
  <2>1. \A i \in 1..n : events[i].time \in Nat
    BY LogTypes DEF Time
  <2>2. Logged \subseteq 1..n /\ Logged \subseteq Ids /\ Logged \subseteq Nat
    BY LoggedIs
  <2>3. n \in Nat
    BY LogTypes
  <2>4. now \in Nat
    BY DEF LogInv, Time
  <2> QED
    BY <2>1, <2>2, <2>3, <2>4
<1>2. /\ start # None => start \in Nat
      /\ stop # None => stop \in Nat
      /\ future \in BOOLEAN
  BY DEF Time
<1>3. /\ T \subseteq Logged
      /\ start # None => \A i \in Logged : start <= events[i].time => i \in T
      /\ start = None => T = {}
  BY <1>1, <1>2 DEF LaterThan
<1>4. /\ first \in Logged \cup {Null}
      /\ first = Null => T = {}
      /\ first # Null => first \in T /\ \A i \in T : first <= i
      /\ start = None => first = Null
  <2>1. first = IF T = {} THEN Null ELSE Least(T)
    OBVIOUS
  <2> HIDE DEF T
  <2>2. T \subseteq Nat
    BY <1>1, <1>3
  <2>3. T # {} => Least(T) \in T /\ \A i \in T : Least(T) <= i
    BY <2>2, LeastIs
  <2>4. T # {} => Least(T) # Null
    BY <1>1, <1>3, <2>3 DEF Null
  <2> QED
    BY <1>1, <1>3, <2>1, <2>3, <2>4
<1>5. none \in BOOLEAN /\ (none <=> \/ first = Null
                                    \/ stop # None /\ ~future /\ stop <= events[first].time)
  BY DEF ReplayNothing
<1>6. /\ last \in Logged \cup {Null}
      /\ ~none /\ stop = None => last = 0
      /\ ~none /\ stop # None /\ ~future =>
            \A i \in Logged : last < i => stop <= events[i].time
  <2>1. CASE none \/ stop = None
    BY <2>1 DEF Null
  <2>2. CASE ~none /\ stop # None
    <3>1. first \in Logged /\ stop \in Nat
      BY <1>2, <1>4, <1>5, <2>2
    <3>2. last = ReplayEnd(first, stop, future)
      BY <2>2
    <3>3. /\ ReplayEnd(first, stop, future) \in Logged \cup {Null}
          /\ \A i \in Logged : ReplayEnd(first, stop, FALSE) < i =>
                 stop <= events[i].time
      BY <1>2, <3>1, ReplayEndIs
    <3>4. ~future => future = FALSE
      BY <1>2
    <3> QED
      BY <2>2, <3>2, <3>3, <3>4
  <2> QED
    BY <2>1, <2>2
<1>7. /\ place \in Logged \cup {Null}
      /\ start # None => place = Null
  BY LastEntryIs
<1>8. begin \in Logged \cup {Null}
  BY <1>4
<1> HIDE DEF T
<1>9. r \in Subscription
  <2>1. /\ place \in Ids \cup {Null} /\ place \in Ids \cup {0}
        /\ begin \in Ids \cup {Null} /\ begin \in Ids \cup {0}
        /\ last \in Ids \cup {Null} /\ last \in Ids \cup {0}
    BY <1>1, <1>6, <1>7, <1>8 DEF Null
  <2>2. (start # None /\ none) \in BOOLEAN
    BY <1>5
  <2> QED
    BY <1>2, <2>1, <2>2 DEF Subscription
<1>10. /\ r.state = IF start = None THEN "live" ELSE "replay"
       /\ r.startTime = start /\ r.stopTime = stop
       /\ r.futurestop = future /\ r.filter = filter
       /\ r.firstreplaymsg = begin /\ r.firstreplaymsgid = begin
       /\ r.lastreplaymsg = last /\ r.lastreplaymsgid = last
       /\ r.lastmsg = place /\ r.lastmsgid = place
       /\ r.rc_ready = (start # None /\ none)
       /\ r.rc_done = FALSE /\ r.nc_done = FALSE
  OBVIOUS
<1>11. \A p \in Logged \cup {Null} : p <= n /\ (p \in Logged <=> p # Null)
  <2> TAKE p \in Logged \cup {Null}
  <2>1. 0 <= n /\ 0 \notin 1..n
    BY <1>1
  <2>2. \A i \in 1..n : i <= n
    BY <1>1
  <2> HIDE DEF n
  <2> QED
    BY <1>1, <2>1, <2>2 DEF Null
<1>12. InPlace(r, Logged, n)
  <2>1. /\ r.lastmsgid <= n /\ r.firstreplaymsgid <= n /\ r.lastreplaymsgid <= n
    BY <1>6, <1>7, <1>8, <1>10, <1>11
  <2>2. ASSUME r.state = "replay", ~r.rc_ready
        PROVE  /\ begin # Null /\ begin \in Logged /\ place = Null
    BY <1>4, <1>5, <1>7, <1>10, <1>11, <2>2
  <2> HIDE DEF n
  <2> QED
    BY <1>6, <1>7, <1>8, <1>10, <2>1, <2>2 DEF InPlace, Null
<1>13. /\ IdsIn(<<>>) = {} /\ ~Has(<<>>, replayComplete)
       /\ ~Has(<<>>, notificationComplete)
       /\ <<>> \in Seq(Msgs) /\ Sorted(<<>>)
  <2>1. DOMAIN <<>> = {}
    OBVIOUS
  <2>2. <<>> \in Seq(Msgs)
    BY EmptySeq
  <2> QED
    BY <2>1, <2>2 DEF IdsIn, Has, Sorted
<1>14. Ordered(r, <<>>)
  BY <1>10, <1>13 DEF Ordered
<1>15. Passed(r, <<>>, Logged, events)
  BY <1>13 DEF Passed
<1>16. Replayed(r, <<>>, Logged, events, now, TRUE)
  <2> SUFFICES ASSUME r.state = "replay", ~r.futurestop
               PROVE  /\ r.startTime <= now
                      /\ r.stopTime # None => r.stopTime <= now
                      /\ \A i \in Logged : ~(i <= r.lastmsgid)
                      /\ ~r.rc_ready =>
                            /\ \A i \in Logged : r.startTime <= events[i].time
                                                 => r.firstreplaymsgid <= i
                            /\ IF r.stopTime = None THEN r.lastreplaymsgid = 0
                               ELSE \A i \in Logged : r.lastreplaymsgid < i
                                       => r.stopTime <= events[i].time
                      /\ r.rc_ready =>
                            \A i \in Logged : ~ /\ r.startTime <= events[i].time
                                                /\ r.stopTime # None =>
                                                      events[i].time < r.stopTime
    BY DEF Replayed
  <2>1. start # None /\ ~future
    <3>1. r.state = IF start = None THEN "live" ELSE "replay"
      BY <1>10
    <3>2. r.futurestop = future
      BY <1>10
    <3> QED
      BY <3>1, <3>2
  <2>2. stop # None => stop <= now
    <3>1. ~(stop # None /\ stop > now)
      BY <2>1, Zenon
    <3> QED
      BY <1>1, <1>2, <3>1
  <2>3. \A i \in Logged : ~(i <= r.lastmsgid)
    BY <1>1, <1>7, <1>10, <2>1 DEF Null
  <2>4. ASSUME ~r.rc_ready
        PROVE  /\ \A i \in Logged : start <= events[i].time => begin <= i
               /\ IF stop = None THEN last = 0
                  ELSE \A i \in Logged : last < i => stop <= events[i].time
    <3>1. ~none
      BY <1>5, <1>10, <2>1, <2>4
    <3>2. begin = first /\ first # Null
      BY <1>5, <3>1
    <3> QED
      BY <1>3, <1>4, <1>6, <2>1, <3>1, <3>2
  <2>5. ASSUME r.rc_ready, NEW i \in Logged, start <= events[i].time,
               stop # None => events[i].time < stop
        PROVE  FALSE
    <3>1. none
      BY <1>10, <2>5
    <3>2. i \in T
      BY <1>3, <2>1, <2>5
    <3>3. first # Null /\ first \in T /\ first <= i
      BY <1>4, <3>2
    <3>4. stop # None /\ stop <= events[first].time
      BY <1>5, <3>1, <3>3
    <3>5. first \in 1..n /\ i \in 1..n /\ first \in Logged
      BY <1>1, <1>3, <3>2, <3>3
    <3>6. events[first].time <= events[i].time
      BY <3>3, <3>5 DEF LogInv
    <3> QED
      BY <1>1, <1>2, <2>5, <3>4, <3>5, <3>6
  <2> QED
    BY <1>10, <2>1, <2>2, <2>3, <2>4, <2>5
<1> QED
  BY <1>9, <1>12, <1>14, <1>15, <1>16 DEF Good

(* The log does not change.                                                *)
LEMMA SameLog ==
    ASSUME LogInv, UNCHANGED log, UNCHANGED profile, now' \in Time, now <= now',
           sending' \in BOOLEAN, sendtotal' \in Nat
    PROVE  LogInv' /\ Logged' = Logged /\ events' = events
<1>1. /\ events' = events /\ notificationQ' = notificationQ
      /\ notification_count' = notification_count
      /\ eventlog_size' = eventlog_size /\ maxburst' = maxburst
  BY DEF log, profile
<1>2. now \in Nat /\ now' \in Nat
  BY ProfileAssumption DEF LogInv, Time
<1>3. \A i \in 1..Len(events) : events[i].time <= now'
  <2> TAKE i \in 1..Len(events)
  <2>1. events[i].time \in Nat
    <3>1. events[i].time \in Time
      BY LogTypes
    <3> QED
      BY <3>1 DEF Time
  <2>2. events[i].time <= now
    BY DEF LogInv
  <2> QED
    BY <1>2, <2>1, <2>2
<1> QED
  BY <1>1, <1>3 DEF LogInv, Logged

LEMMA CreateKeeps ==
    ASSUME NotInv, NEW s \in Sessions, NEW w \in Windows, NEW f \in Filters,
           create_subscription(s, w[1], w[2], f)
    PROVE  NotInv'
<1> DEFINE start == w[1]
           stop == w[2]
           r == Created(start, stop, f)
<1>1. LogInv /\ SubInv
  BY DEF NotInv
<1>2. /\ start \in Time \cup {None} /\ stop \in Time \cup {None}
      /\ f \in SUBSET EventTypes
  BY ProfileAssumption DEF Time
<1>3. /\ sending = FALSE
      /\ start # None => start <= now /\ (stop # None => start <= stop)
      /\ start = None => stop = None
      /\ sub' = [sub EXCEPT ![s] = r]
      /\ sent' = [sent EXCEPT ![s] = <<>>]
      /\ sending' = TRUE
      /\ UNCHANGED profile /\ UNCHANGED log
      /\ now' = now /\ sendtotal' = sendtotal
  BY <1>1, Zenon DEF create_subscription, Created, LogInv
<1> HIDE DEF r
<1>4. r \in Subscription /\ Good(r, <<>>, Logged, events, now, TRUE)
  <2>1. r = Created(start, stop, f)
    BY DEF r
  <2> HIDE DEF start, stop
  <2> QED
    BY <1>1, <1>2, <1>3, <2>1, CreatedGood
<1>5. LogInv' /\ Logged' = Logged /\ events' = events
  <2>1. now \in Time /\ now \in Nat /\ sendtotal \in Nat
    BY <1>1, ProfileAssumption DEF LogInv, Time
  <2>2. now <= now' /\ now' \in Time
    BY <1>3, <2>1
  <2> QED
    BY <1>1, <1>3, <2>1, <2>2, SameLog
<1>6. /\ sub \in [Sessions -> Subscription \cup {None}]
      /\ sent \in [Sessions -> Seq(Msgs)]
      /\ \A t \in Sessions :
            IF sub[t] = None THEN sent[t] = <<>>
            ELSE Good(sub[t], sent[t], Logged, events, now, FALSE)
  BY <1>1, <1>3 DEF SubInv
<1>7. <<>> \in Seq(Msgs)
  BY EmptySeq
<1>8. /\ sub' \in [Sessions -> Subscription \cup {None}]
      /\ sent' \in [Sessions -> Seq(Msgs)]
  BY <1>3, <1>4, <1>6, <1>7
<1>9. ASSUME NEW t \in Sessions
      PROVE  IF sub'[t] = None THEN sent'[t] = <<>>
             ELSE Good(sub'[t], sent'[t], Logged, events, now, TRUE)
  <2>1. CASE t = s
    <3>1. sub'[t] = r /\ sent'[t] = <<>>
      BY <1>3, <1>6, <2>1
    <3>2. r # None
      BY <1>4, SymbolAssumption
    <3> QED
      BY <1>4, <3>1, <3>2
  <2>2. CASE t # s
    <3>1. sub'[t] = sub[t] /\ sent'[t] = sent[t]
      BY <1>3, <1>6, <2>2
    <3>2. now \in Nat
      BY <1>1, ProfileAssumption DEF LogInv, Time
    <3>3. ASSUME sub[t] # None
          PROVE  Good(sub[t], sent[t], Logged, events, now, TRUE)
      <4>1. Good(sub[t], sent[t], Logged, events, now, FALSE)
        BY <1>6, <3>3
      <4> QED
        BY <4>1, GoingGood
    <3> QED
      BY <1>6, <3>1, <3>3
  <2> QED
    BY <2>1, <2>2
<1>10. SubInv'
  BY <1>3, <1>5, <1>8, <1>9 DEF SubInv
<1> QED
  BY <1>5, <1>10 DEF NotInv

LEMMA RemoveKeeps ==
    ASSUME NotInv, NEW s \in Sessions, agt_not_remove_subscription(s)
    PROVE  NotInv'
<1>1. LogInv /\ SubInv
  BY DEF NotInv
<1>2. /\ sub' = [sub EXCEPT ![s] = None]
      /\ sent' = [sent EXCEPT ![s] = <<>>]
      /\ UNCHANGED profile /\ UNCHANGED log
      /\ now' = now /\ sendtotal' = sendtotal /\ sending' = sending
  BY DEF agt_not_remove_subscription
<1>3. LogInv' /\ Logged' = Logged /\ events' = events
  <2>1. now \in Time /\ now \in Nat /\ sendtotal \in Nat /\ sending \in BOOLEAN
    BY <1>1, ProfileAssumption DEF LogInv, Time
  <2>2. now <= now' /\ now' \in Time
    BY <1>2, <2>1
  <2> QED
    BY <1>1, <1>2, <2>1, <2>2, SameLog
<1>4. <<>> \in Seq(Msgs)
  BY EmptySeq
<1>5. /\ sub' \in [Sessions -> Subscription \cup {None}]
      /\ sent' \in [Sessions -> Seq(Msgs)]
      /\ \A t \in Sessions : IF t = s THEN sub'[t] = None /\ sent'[t] = <<>>
                             ELSE sub'[t] = sub[t] /\ sent'[t] = sent[t]
  BY <1>1, <1>2, <1>4 DEF SubInv
<1>6. SubInv'
  BY <1>1, <1>2, <1>3, <1>5 DEF SubInv
<1> QED
  BY <1>3, <1>6 DEF NotInv

LEMMA TickKeeps ==
    ASSUME NotInv, Tick
    PROVE  NotInv'
<1>1. LogInv /\ SubInv
  BY DEF NotInv
<1>2. /\ now < MaxTime /\ now' = now + 1
      /\ UNCHANGED profile /\ UNCHANGED log
      /\ sub' = sub /\ sent' = sent
      /\ sendtotal' = sendtotal /\ sending' = sending
  BY DEF Tick
<1>3. /\ now \in Nat /\ now' \in Nat /\ now <= now' /\ now' \in Time
      /\ sendtotal \in Nat /\ sending \in BOOLEAN
  BY <1>1, <1>2, ProfileAssumption DEF LogInv, Time
<1>4. LogInv' /\ Logged' = Logged /\ events' = events
  BY <1>1, <1>2, <1>3, SameLog
<1>5. ASSUME NEW t \in Sessions
      PROVE  IF sub[t] = None THEN sent[t] = <<>>
             ELSE Good(sub[t], sent[t], Logged, events, now', sending)
  <2>1. ASSUME sub[t] # None
        PROVE  Good(sub[t], sent[t], Logged, events, now', sending)
    <3>1. /\ sub[t] \in Subscription
          /\ Good(sub[t], sent[t], Logged, events, now, sending)
      BY <1>1, <2>1 DEF SubInv
    <3> QED
      BY <1>3, <3>1, LaterGood
  <2> QED
    BY <1>1, <2>1 DEF SubInv
<1>6. SubInv'
  BY <1>1, <1>2, <1>4, <1>5 DEF SubInv
<1> QED
  BY <1>4, <1>6 DEF NotInv

(* What the cleaning of the log keeps: everything from the least place of  *)
(* a subscription on.                                                      *)
Reached == {sub[s].lastmsgid : s \in {t \in Sessions : sub[t] # None}} \ {0}

LEMMA CleanLog ==
    ASSUME LogInv, UNCHANGED profile, now' = now, events' = events,
           notification_count' = notification_count, eventlog_size = 0,
           sending' \in BOOLEAN, sendtotal' \in Nat,
           notificationQ' = SubSeq(notificationQ, FirstKept, Len(notificationQ)),
           Reached' \subseteq Nat
    PROVE  /\ LogInv' /\ Logged' \subseteq Logged
           /\ \A i \in Logged, k \in Reached' : k <= i => i \in Logged'
<1> DEFINE n == Len(events)
           q == notificationQ
           R == Reached'
           kept == {i \in DOMAIN q : R # {} /\ Least(R) <= q[i]}
           f == FirstKept
<1>1. /\ n \in Nat /\ Len(q) \in Nat /\ Len(q) <= n /\ q \in Seq(Nat)
      /\ DOMAIN q = 1..Len(q)
      /\ \A i \in DOMAIN q : q[i] = n - Len(q) + i
      /\ notification_count = 0
  BY LogTypes DEF LogInv
<1>2. f = Least(kept \cup {Len(q) + 1})
  BY DEF FirstKept, Reached
<1>3. f \in 1..(Len(q) + 1) /\ \A i \in kept : f <= i
  <2> DEFINE K == kept \cup {Len(q) + 1}
  <2>1. K \subseteq 1..(Len(q) + 1) /\ K \subseteq Nat /\ K # {}
    BY <1>1
  <2>2. f = Least(K)
    BY <1>2
  <2>3. kept \subseteq K
    OBVIOUS
  <2> HIDE DEF K, f, kept
  <2>4. f \in K /\ \A i \in K : f <= i
    BY <2>1, <2>2, LeastIs
  <2> QED
    BY <2>1, <2>3, <2>4
<1>4. /\ notificationQ' \in Seq(Nat)
      /\ Len(notificationQ') = Len(q) - f + 1
      /\ \A i \in DOMAIN notificationQ' :
            notificationQ'[i] = n - Len(notificationQ') + i
  <2> DEFINE r == notificationQ'
  <2>1. CutAt(q, r, n, f)
    BY <1>1, <1>3 DEF CutAt
  <2>2. /\ r \in Seq(Nat) /\ Len(r) = Len(q) - f + 1
        /\ \A i \in DOMAIN r : r[i] = n - Len(r) + i
    <3> HIDE DEF n, q, f, r
    <3> QED
      BY <2>1, SuffixOfSuffix
  <2> QED
    BY <2>2
<1>5. Len(notificationQ') <= n /\ Len(notificationQ') \in Nat
  <2> HIDE DEF n, q, f
  <2> QED
    BY <1>1, <1>3, <1>4
<1>6. LogInv'
  <2>1. /\ now' \in Time
        /\ eventlog_size' \in EventlogSizes /\ maxburst' \in Bursts
        /\ eventlog_size' = 0 => notification_count' = 0
        /\ events' \in Seq([time : Time, type : EventTypes])
        /\ Len(events') <= MaxEvents
    BY <1>1 DEF LogInv, profile
  <2>2. notification_count' \in 0..Len(notificationQ')
    <3>1. notification_count' = 0
      BY <1>1
    <3>2. 0 \in 0..Len(notificationQ')
      <4> DEFINE k == Len(notificationQ')
      <4>1. k \in Nat
        BY <1>5
      <4> HIDE DEF k
      <4>2. 0 \in 0..k
        BY <4>1
      <4> QED
        BY <4>2 DEF k
    <3> QED
      BY <3>1, <3>2
  <2>3. /\ \A i, j \in 1..Len(events') :
              i <= j => events'[i].time <= events'[j].time
        /\ \A i \in 1..Len(events') : events'[i].time <= now'
    BY DEF LogInv
  <2>4. /\ Len(notificationQ') <= Len(events')
        /\ \A i \in DOMAIN notificationQ' :
              notificationQ'[i] = Len(events') - Len(notificationQ') + i
    BY <1>4, <1>5
  <2> QED
    BY <1>4, <2>1, <2>2, <2>3, <2>4 DEF LogInv
<1>7. Logged' = (n - Len(notificationQ') + 1)..n
  <2>1. {notificationQ'[i] : i \in DOMAIN notificationQ'} =
           (n - Len(notificationQ') + 1)..n
    <3> HIDE DEF n
    <3> QED
      BY <1>1, <1>4, <1>5, Suffix
  <2> QED
    BY <2>1 DEF Logged
<1>8. Logged = (n - Len(q) + 1)..n
  BY LoggedIs
<1>9. Logged' \subseteq Logged
  <2> HIDE DEF n, q, f
  <2> QED
    BY <1>1, <1>3, <1>4, <1>7, <1>8
<1>10. ASSUME NEW i \in Logged, NEW k \in R, k <= i
       PROVE  i \in Logged'
  <2>1. R \subseteq Nat /\ R # {}
    OBVIOUS
  <2>2. Least(R) \in Nat /\ Least(R) <= k /\ k \in Nat
    <3> HIDE DEF R
    <3> QED
      BY <2>1, LeastIs
  <2> DEFINE j == i - (n - Len(q))
  <2>3. i \in Nat /\ i <= n /\ j \in DOMAIN q /\ q[j] = i
    <3>1. i \in (n - Len(q) + 1)..n
      BY <1>8
    <3> HIDE DEF n, q
    <3>2. i \in Nat /\ i <= n /\ j \in DOMAIN q
      BY <1>1, <3>1
    <3>3. q[j] = n - Len(q) + j
      BY <1>1, <3>2
    <3> QED
      BY <1>1, <3>1, <3>2, <3>3
  <2>4. Least(R) <= i
    <3> HIDE DEF R
    <3> QED
      BY <1>10, <2>2, <2>3
  <2>5. j \in kept
    <3> HIDE DEF R, j
    <3> QED
      BY <2>1, <2>3, <2>4
  <2>6. f <= j
    <3> HIDE DEF kept, f, j
    <3> QED
      BY <1>3, <2>5
  <2> HIDE DEF n, q, f
  <2> QED
    BY <1>1, <1>3, <1>4, <1>7, <2>3, <2>6
<1> QED
  BY <1>6, <1>9, <1>10

(* What a pass does to one subscription.                                   *)
LEMMA PassServes ==
    ASSUME NotInv, agt_not_send_notifications, NEW s \in Sessions
    PROVE  /\ sub[s] = None => sub'[s] = None /\ sent'[s] = <<>>
           /\ sub[s] # None =>
                 /\ Serving(sub[s], sent[s], Served(sub[s]))
                 /\ sub'[s] = Served(sub[s]).sub
                 /\ sent'[s] = IF sub'[s] = None THEN <<>>
                               ELSE sent[s] \o Served(sub[s]).sent
           /\ Served(sub[s]).count \in {0, 1}
<1>1. LogInv /\ SubInv
  BY DEF NotInv
<1>2. /\ sub'[s] = Served(sub[s]).sub
      /\ sent'[s] = IF Served(sub[s]).sub = None THEN <<>>
                    ELSE sent[s] \o Served(sub[s]).sent
  BY DEF agt_not_send_notifications
<1>3. CASE sub[s] = None
  <2>1. Served(sub[s]) = Quiet(None)
    BY <1>3 DEF Served
  <2>2. Served(sub[s]).sub = None /\ Served(sub[s]).count = 0
    BY <2>1 DEF Quiet
  <2> QED
    BY <1>2, <1>3, <2>2
<1>4. CASE sub[s] # None
  <2>1. sub[s] \in Subscription /\ Good(sub[s], sent[s], Logged, events, now, sending)
    BY <1>1, <1>4 DEF SubInv
  <2>2. Serving(sub[s], sent[s], Served(sub[s]))
    BY <1>1, <2>1, Serves
  <2>3. Served(sub[s]).count \in {0, 1}
    BY <2>2 DEF Serving
  <2> QED
    BY <1>2, <1>4, <2>2, <2>3
<1> QED
  BY <1>3, <1>4

LEMMA PassKeeps ==
    ASSUME NotInv, agt_not_send_notifications
    PROVE  NotInv'
<1> DEFINE served == [s \in Sessions |-> Served(sub[s])]
           C == {s \in Sessions : served[s].count = 1}
           count == Cardinality(C)
           total == sendtotal + count
           again == count # 0 /\ (maxburst = 0 \/ total < maxburst)
<1>1. LogInv /\ SubInv
  BY DEF NotInv
<1>2. /\ sub' = [s \in Sessions |-> served[s].sub]
      /\ sent' = [s \in Sessions |-> IF served[s].sub = None THEN <<>>
                                     ELSE sent[s] \o served[s].sent]
      /\ sending' = again
      /\ sendtotal' = IF again /\ maxburst # 0 THEN total ELSE 0
      /\ notificationQ' = IF again \/ eventlog_size > 0 THEN notificationQ
                          ELSE SubSeq(notificationQ, FirstKept, Len(notificationQ))
      /\ UNCHANGED profile /\ now' = now /\ events' = events
      /\ notification_count' = notification_count
  BY DEF agt_not_send_notifications
<1>3. /\ eventlog_size \in Nat /\ sendtotal \in Nat /\ now \in Nat /\ now \in Time
      /\ Len(events) \in Nat /\ Logged \subseteq Nat
  BY <1>1, LogTypes, LoggedIs DEF LogInv, Time
<1>4. sending' \in BOOLEAN /\ sendtotal' \in Nat
  <2>1. C \subseteq Sessions
    OBVIOUS
  <2>2. count \in Nat
    <3> HIDE DEF C
    <3> QED
      BY <2>1, ProfileAssumption, FS_Subset, FS_CardinalityType
  <2> HIDE DEF count
  <2>3. total \in Nat /\ again \in BOOLEAN
    BY <1>3, <2>2
  <2> QED
    BY <1>2, <2>3
<1> HIDE DEF served, count, total, again
<1>5. ASSUME NEW s \in Sessions
      PROVE  /\ sub'[s] \in Subscription \cup {None}
             /\ sent'[s] \in Seq(Msgs)
             /\ sub'[s] = None => sent'[s] = <<>>
             /\ sub'[s] # None =>
                   /\ Good(sub'[s], sent'[s], Logged, events, now, FALSE)
                   /\ sub'[s].state = "replay" /\ ~sub'[s].rc_ready =>
                         sub'[s].lastmsgid # 0
  <2>1. <<>> \in Seq(Msgs)
    BY EmptySeq
  <2>2. CASE sub'[s] = None
    <3>1. sent'[s] = <<>>
      BY <2>2, PassServes
    <3> QED
      BY <2>1, <2>2, <3>1
  <2>3. CASE sub'[s] # None
    <3>1. /\ Serving(sub[s], sent[s], Served(sub[s]))
          /\ sub'[s] = Served(sub[s]).sub
          /\ sent'[s] = sent[s] \o Served(sub[s]).sent
      BY <2>3, PassServes
    <3>2. /\ sub'[s] \in Subscription
          /\ Good(sub'[s], sent'[s], Logged, events, now, FALSE)
          /\ sub'[s].state = "replay" /\ ~sub'[s].rc_ready => sub'[s].lastmsgid # 0
      BY <2>3, <3>1, Zenon DEF Serving
    <3>3. sent'[s] \in Seq(Msgs)
      BY <3>2 DEF Good, Ordered
    <3> QED
      BY <2>3, <3>2, <3>3
  <2> QED
    BY <2>2, <2>3
<1>6. /\ sub' \in [Sessions -> Subscription \cup {None}]
      /\ sent' \in [Sessions -> Seq(Msgs)]
  <2>1. DOMAIN sub' = Sessions /\ sub' = [s \in Sessions |-> sub'[s]]
    BY <1>2
  <2>2. DOMAIN sent' = Sessions /\ sent' = [s \in Sessions |-> sent'[s]]
    BY <1>2
  <2> QED
    BY <1>5, <2>1, <2>2
<1>7. CASE again \/ eventlog_size > 0
  <2>1. notificationQ' = notificationQ
    BY <1>2, <1>7
  <2>2. LogInv' /\ Logged' = Logged /\ events' = events
    <3>1. UNCHANGED log
      BY <1>2, <2>1 DEF log
    <3>2. now <= now' /\ now' \in Time
      BY <1>2, <1>3
    <3> QED
      BY <1>1, <1>2, <1>4, <3>1, <3>2, SameLog
  <2>3. ASSUME NEW s \in Sessions, sub'[s] # None
        PROVE  Good(sub'[s], sent'[s], Logged', events', now', sending')
    <3>1. /\ sub'[s] \in Subscription
          /\ Good(sub'[s], sent'[s], Logged, events, now, FALSE)
      BY <1>3, <1>5, <2>3
    <3>2. Good(sub'[s], sent'[s], Logged, events, now, sending')
      BY <3>1, GoingGood
    <3> QED
      BY <1>2, <2>2, <3>2
  <2>4. SubInv'
    BY <1>5, <1>6, <2>3 DEF SubInv
  <2> QED
    BY <2>2, <2>4 DEF NotInv
<1>8. CASE ~(again \/ eventlog_size > 0)
  <2>1. /\ notificationQ' = SubSeq(notificationQ, FirstKept, Len(notificationQ))
        /\ eventlog_size = 0
    <3>1. ~(eventlog_size > 0)
      BY <1>8
    <3>2. eventlog_size = 0
      BY <1>3, <3>1
    <3>3. notificationQ' = IF again \/ eventlog_size > 0 THEN notificationQ
                           ELSE SubSeq(notificationQ, FirstKept, Len(notificationQ))
      BY <1>2
    <3>4. notificationQ' = SubSeq(notificationQ, FirstKept, Len(notificationQ))
      BY <1>8, <3>3, Zenon
    <3> QED
      BY <3>2, <3>4
  <2>2. Reached' \subseteq Nat
    <3>1. ASSUME NEW s \in Sessions, sub'[s] # None
          PROVE  sub'[s].lastmsgid \in Nat
      BY <1>5, <3>1, Fields
    <3> QED
      BY <3>1 DEF Reached
  <2>3. /\ LogInv' /\ Logged' \subseteq Logged
        /\ \A i \in Logged, k \in Reached' : k <= i => i \in Logged'
    BY <1>1, <1>2, <1>4, <2>1, <2>2, CleanLog
  <2>4. ASSUME NEW s \in Sessions, sub'[s] # None
        PROVE  Good(sub'[s], sent'[s], Logged', events', now', sending')
    <3> DEFINE q == sub'[s]
               m == sent'[s]
    <3>1. /\ q \in Subscription /\ Good(q, m, Logged, events, now, FALSE)
          /\ q.state = "replay" /\ ~q.rc_ready => q.lastmsgid # 0
      BY <1>5, <2>4
    <3>2. q.lastmsgid # 0 => q.lastmsgid \in Reached'
      BY <2>4 DEF Reached
    <3> HIDE DEF q, m
    <3>3. /\ q.lastmsg \in Nat /\ q.lastmsgid \in Nat
          /\ q.lastreplaymsg \in Nat /\ q.lastreplaymsgid \in Nat
      BY <3>1, Fields
    <3>4. InPlace(q, Logged, Len(events))
      BY <3>1 DEF Good
    <3>5. q.lastmsg \in Logged' \cup {Null}
      <4>1. CASE q.lastmsg # Null
        <5>1. q.lastmsg = q.lastmsgid /\ q.lastmsg \in Logged
          BY <3>4, <4>1 DEF InPlace
        <5>2. q.lastmsgid \in Reached' /\ q.lastmsgid <= q.lastmsg
          BY <3>2, <3>3, <4>1, <5>1 DEF Null
        <5> QED
          BY <2>3, <5>1, <5>2
      <4> QED
        BY <4>1
    <3>6. ASSUME q.state = "replay", ~q.rc_ready
          PROVE  q.lastmsgid # 0 /\ q.lastreplaymsg \in Logged' \cup {Null}
      <4>1. q.lastmsgid # 0 /\ q.lastmsgid \in Reached'
        BY <3>1, <3>2, <3>6
      <4>2. CASE q.lastreplaymsg # Null
        <5>1. /\ q.lastreplaymsg \in Logged
              /\ q.lastreplaymsg = q.lastreplaymsgid
              /\ q.lastreplaymsgid > q.lastmsgid
          <6>1. /\ q.lastreplaymsg \in Logged
                /\ q.lastreplaymsg = q.lastreplaymsgid
            BY <3>4, <3>6, <4>2 DEF InPlace
          <6>2. q.lastreplaymsgid # 0
            BY <4>2, <6>1 DEF Null
          <6> QED
            BY <3>4, <3>6, <4>1, <6>1, <6>2 DEF InPlace
        <5>2. q.lastmsgid <= q.lastreplaymsg
          BY <3>3, <5>1
        <5> QED
          BY <2>3, <4>1, <5>1, <5>2
      <4> QED
        BY <4>1, <4>2
    <3>7. Good(q, m, Logged', events, now, FALSE)
      BY <2>3, <3>1, <3>5, <3>6, CleanedGood
    <3>8. Good(q, m, Logged', events, now, sending')
      BY <3>7, GoingGood
    <3> QED
      BY <1>2, <3>8 DEF q, m
  <2>5. SubInv'
    BY <1>5, <1>6, <2>4 DEF SubInv
  <2> QED
    BY <2>3, <2>5 DEF NotInv
<1> QED
  BY <1>7, <1>8

LEMMA NotInit == Init => NotInv
<1> SUFFICES ASSUME Init PROVE NotInv
  OBVIOUS
<1>1. /\ eventlog_size \in EventlogSizes /\ maxburst \in Bursts
      /\ now = 0 /\ events = <<>> /\ notificationQ = <<>>
      /\ notification_count = 0
      /\ sub = [s \in Sessions |-> None] /\ sent = [s \in Sessions |-> <<>>]
      /\ sending = FALSE /\ sendtotal = 0
  BY DEF Init
<1>2. /\ Len(events) = 0 /\ Len(notificationQ) = 0
      /\ DOMAIN notificationQ = {} /\ 1..Len(events) = {}
      /\ events \in Seq([time : Time, type : EventTypes])
      /\ notificationQ \in Seq(Nat)
  BY <1>1, EmptySeq
<1>3. now \in Time /\ Len(events) <= MaxEvents
  BY <1>1, <1>2, ProfileAssumption DEF Time
<1>4. LogInv
  <2>1. Len(notificationQ) <= Len(events) /\ notification_count \in 0..Len(notificationQ)
    BY <1>1, <1>2
  <2> QED
    BY <1>1, <1>2, <1>3, <2>1 DEF LogInv
<1>5. <<>> \in Seq(Msgs)
  BY EmptySeq
<1>6. SubInv
  BY <1>1, <1>5 DEF SubInv
<1> QED
  BY <1>4, <1>6 DEF NotInv

LEMMA NotStep == NotInv /\ [Next]_vars => NotInv'
<1> SUFFICES ASSUME NotInv, [Next]_vars PROVE NotInv'
  OBVIOUS
<1>1. ASSUME NEW type \in EventTypes, agt_not_queue_notification(type)
      PROVE  NotInv'
  BY <1>1, QueueKeeps
<1>2. ASSUME NEW s \in Sessions, NEW w \in Windows, NEW f \in Filters,
             create_subscription(s, w[1], w[2], f)
      PROVE  NotInv'
  BY <1>2, CreateKeeps
<1>3. ASSUME NEW s \in Sessions, agt_not_remove_subscription(s)
      PROVE  NotInv'
  BY <1>3, RemoveKeeps
<1>4. CASE agt_not_send_notifications
  BY <1>4, PassKeeps
<1>5. CASE Tick
  BY <1>5, TickKeeps
<1>6. CASE UNCHANGED vars
  <2>1. /\ eventlog_size' = eventlog_size /\ maxburst' = maxburst /\ now' = now
        /\ events' = events /\ notificationQ' = notificationQ
        /\ notification_count' = notification_count
        /\ sub' = sub /\ sent' = sent /\ sending' = sending
        /\ sendtotal' = sendtotal
    BY <1>6 DEF vars, profile, log
  <2>2. Logged' = Logged
    BY <2>1 DEF Logged
  <2> QED
    BY <2>1, <2>2 DEF NotInv, LogInv, SubInv
<1> QED
  BY <1>1, <1>2, <1>3, <1>4, <1>5, <1>6 DEF Next

-----------------------------------------------------------------------------
(* The theorems.                                                           *)

LEMMA TypesFollow == NotInv => TypeOK
<1> SUFFICES ASSUME NotInv PROVE TypeOK
  OBVIOUS
<1>1. LogInv /\ SubInv
  BY DEF NotInv
<1>2. notificationQ \in Seq(1..Len(events))
  <2> DEFINE T == 1..Len(events)
  <2>1. /\ notificationQ \in [1..Len(notificationQ) -> Nat]
        /\ Len(notificationQ) \in Nat
        /\ DOMAIN notificationQ = 1..Len(notificationQ)
    BY <1>1, LenProperties DEF LogInv
  <2>2. \A i \in DOMAIN notificationQ : notificationQ[i] \in T
    BY <1>1, LoggedIs DEF Logged
  <2> HIDE DEF T
  <2>3. notificationQ \in [1..Len(notificationQ) -> T]
    BY <2>1, <2>2
  <2>4. notificationQ \in Seq(T)
    BY <2>1, <2>3, SeqDef
  <2> QED
    BY <2>4 DEF T
<1>3. \A s \in Sessions : /\ sub[s] \in Subscription \cup {None}
                          /\ sent[s] \in Seq(Ids \cup {replayComplete, notificationComplete})
  BY <1>1 DEF SubInv, Msgs
<1> QED
  BY <1>1, <1>2, <1>3 DEF TypeOK, LogInv

(* Every variable keeps its type, for any number of sessions and any size  *)
(* of the log (agt_not.c).                                                 *)
THEOREM NotTypeCorrect == Spec => []TypeOK
<1> QED
  BY TypesFollow, NotInit, NotStep, PTL DEF Spec

LEMMA LiveFollow == NotInv => PointersLive
<1> SUFFICES ASSUME NotInv, NEW s \in Subscribed
             PROVE  /\ sub[s].lastmsg \in Logged \cup {Null}
                    /\ sub[s].state = "replay" /\ ~sub[s].rc_ready =>
                          /\ sub[s].lastreplaymsg \in Logged \cup {Null}
                          /\ sub[s].lastmsgid = 0 =>
                                sub[s].firstreplaymsg \in Logged \cup {Null}
  BY DEF PointersLive
<1>1. InPlace(sub[s], Logged, Len(events))
  BY DEF NotInv, SubInv, Good, Subscribed
<1> QED
  BY <1>1 DEF InPlace

(* No pointer of a subscription that a pass may follow dangles, whatever   *)
(* delete_oldest_notification and agt_not_clean_eventlog have freed.       *)
THEOREM PointersStayLive == Spec => []PointersLive
<1> QED
  BY LiveFollow, NotInit, NotStep, PTL DEF Spec

LEMMA OrderFollows == NotInv => InOrder
<1> SUFFICES ASSUME NotInv, NEW s \in Sessions, NEW j \in DOMAIN sent[s]
             PROVE  LET what == sent[s][j]
                        before == {sent[s][i] : i \in 1..(j - 1)}
                    IN  /\ what \in Ids => \A id \in before \cap Ids : id < what
                        /\ notificationComplete \notin before
                        /\ what = replayComplete =>
                              sub[s].startTime # None /\ replayComplete \notin before
                        /\ what = notificationComplete =>
                              sub[s].stopTime # None /\ replayComplete \in before
  BY DEF InOrder
<1> DEFINE m == sent[s]
           before == {m[i] : i \in 1..(j - 1)}
<1>1. sub[s] # None
  <2>1. sub[s] = None => m = <<>>
    BY DEF NotInv, SubInv
  <2> QED
    BY <2>1
<1>2. Ordered(sub[s], m)
  BY <1>1 DEF NotInv, SubInv, Good
<1>3. /\ DOMAIN m = 1..Len(m) /\ Len(m) \in Nat
      /\ Sorted(m)
  BY <1>2, LenProperties DEF Ordered
<1>4. \A i \in 1..(j - 1) : i \in DOMAIN m /\ i < j
  BY <1>3
<1>5. m[j] \in Ids => \A id \in before \cap Ids : id < m[j]
  BY <1>3, <1>4 DEF Sorted
<1>6. notificationComplete \notin before
  BY <1>3, <1>4 DEF Sorted
<1>7. ASSUME m[j] = replayComplete
      PROVE  sub[s].startTime # None /\ replayComplete \notin before
  <2>1. sub[s].rc_done
    BY <1>2, <1>7 DEF Ordered, Has
  <2> QED
    BY <1>2, <1>3, <1>4, <1>7, <2>1 DEF Ordered, Sorted
<1>8. ASSUME m[j] = notificationComplete
      PROVE  sub[s].stopTime # None /\ replayComplete \in before
  <2>1. sub[s].nc_done /\ sub[s].rc_done
    BY <1>2, <1>8 DEF Ordered, Has
  <2>2. PICK k \in DOMAIN m : m[k] = replayComplete
    BY <1>2, <2>1 DEF Ordered, Has
  <2>3. k # j /\ ~(j < k)
    BY <1>3, <1>8, <2>2, SymbolAssumption DEF Sorted
  <2>4. k \in 1..(j - 1)
    BY <1>3, <2>3
  <2> QED
    BY <1>2, <2>1, <2>2, <2>4 DEF Ordered
<1> QED
  BY <1>5, <1>6, <1>7, <1>8

(* Events are sent in order and never twice, replayComplete once and only  *)
(* if there is a startTime, and notificationComplete last, after it and    *)
(* only if there is a stopTime (expire_subscription, send_replayComplete). *)
THEOREM SentInOrder == Spec => []InOrder
<1> QED
  BY OrderFollows, NotInit, NotStep, PTL DEF Spec

LEMMA GaplessFollows == NotInv => Gapless
<1> SUFFICES ASSUME NotInv, NEW s \in Subscribed, NEW i \in Logged,
                    Wanted(s, i),
                    NEW a \in EventIds(s), NEW b \in EventIds(s), a < i, i < b
             PROVE  i \in EventIds(s)
  BY DEF Gapless
<1>1. /\ Ordered(sub[s], sent[s]) /\ Passed(sub[s], sent[s], Logged, events)
      /\ sub[s] \in Subscription /\ LogInv
  BY DEF NotInv, SubInv, Good, Subscribed
<1>2. EventIds(s) = IdsIn(sent[s])
  BY DEF EventIds, IdsIn
<1>3. Wants(sub[s], events[i])
  BY DEF Wanted, Wants
<1>4. b <= sub[s].lastmsgid
  BY <1>1, <1>2 DEF Ordered
<1>5. i \in Nat /\ b \in Nat /\ sub[s].lastmsgid \in Nat
  BY <1>1, <1>2, LoggedIs, Fields, ProfileAssumption DEF IdsIn, Ids
<1>6. i <= sub[s].lastmsgid
  BY <1>4, <1>5
<1> QED
  BY <1>1, <1>2, <1>3, <1>6 DEF Passed

(* No entry between two that were sent is left out, however the log was    *)
(* cut and the place found again (get_entry_after).                        *)
THEOREM NothingSkipped == Spec => []Gapless
<1> QED
  BY GaplessFollows, NotInit, NotStep, PTL DEF Spec

(* replayComplete is the last message of s, and new.                       *)
Completed(s) ==
    /\ Len(sent'[s]) > Len(sent[s])
    /\ sent'[s][Len(sent'[s])] = replayComplete
    /\ ~sub[s].futurestop

WholeSent(s) ==
    \A i \in Logged :
        /\ Wanted(s, i)
        /\ sub[s].startTime <= events[i].time
        /\ sub[s].stopTime # None => events[i].time < sub[s].stopTime
        => i \in EventIds(s)

LEMMA CompletedWhole ==
    ASSUME NotInv, [Next]_vars, NEW s \in Subscribed, Completed(s)
    PROVE  WholeSent(s)
<1>1. /\ sub[s] \in Subscription /\ sent[s] \in Seq(Msgs) /\ s \in Sessions
      /\ sent \in [Sessions -> Seq(Msgs)] /\ Len(sent[s]) \in Nat
  BY LenProperties DEF NotInv, SubInv, Subscribed
<1>2. Len(<<>>) = 0
  OBVIOUS
<1>3. sent'[s] # sent[s] /\ sent'[s] # <<>>
  BY <1>1, <1>2 DEF Completed
<1>4. ASSUME agt_not_send_notifications
      PROVE  WholeSent(s)
  <2> DEFINE S == Served(sub[s])
  <2>1. /\ Serving(sub[s], sent[s], S) /\ S.sub # None
        /\ sent'[s] = sent[s] \o S.sent
    BY <1>1, <1>3, <1>4, PassServes DEF Subscribed
  <2> HIDE DEF S
  <2>2. /\ S.sent = <<>> \/ \E x \in Msgs : S.sent = <<x>>
        /\ S.sent = <<replayComplete>> /\ ~sub[s].futurestop => Whole(sub[s], sent[s])
    BY <2>1 DEF Serving
  <2>3. S.sent # <<>>
    <3> SUFFICES ASSUME S.sent = <<>> PROVE FALSE
      OBVIOUS
    <3>1. sent'[s] = sent[s]
      BY <1>1, <2>1, ConcatEmptySeq
    <3> QED
      BY <1>3, <3>1
  <2>4. ASSUME NEW x \in Msgs, S.sent = <<x>>
        PROVE  S.sent = <<replayComplete>>
    <3> DEFINE r == sent'[s]
    <3>1. r = sent[s] \o <<x>>
      BY <2>1, <2>4
    <3>2. r[Len(r)] = replayComplete
      BY DEF Completed
    <3> HIDE DEF r
    <3>3. Len(r) = Len(sent[s]) + 1 /\ r[Len(sent[s]) + 1] = x
      BY <1>1, <3>1, OneMore, Zenon
    <3> QED
      BY <2>4, <3>2, <3>3
  <2>5. Whole(sub[s], sent[s])
    <3>1. S.sent = <<replayComplete>>
      BY <2>2, <2>3, <2>4, Zenon
    <3>2. ~sub[s].futurestop
      BY DEF Completed
    <3> QED
      BY <2>2, <3>1, <3>2
  <2> QED
    BY <2>5 DEF WholeSent, Whole, Wants, Wanted, EventIds, IdsIn
<1>5. ASSUME NEW t \in Sessions, NEW w \in Windows, NEW f \in Filters,
             create_subscription(t, w[1], w[2], f)
      PROVE  FALSE
  <2>1. sent' = [sent EXCEPT ![t] = <<>>]
    BY <1>5 DEF create_subscription
  <2> QED
    BY <1>1, <1>3, <2>1
<1>6. ASSUME NEW t \in Sessions, agt_not_remove_subscription(t)
      PROVE  FALSE
  <2>1. sent' = [sent EXCEPT ![t] = <<>>]
    BY <1>6 DEF agt_not_remove_subscription
  <2> QED
    BY <1>1, <1>3, <2>1
<1>7. ASSUME NEW type \in EventTypes, agt_not_queue_notification(type)
      PROVE  FALSE
  BY <1>3, <1>7 DEF agt_not_queue_notification
<1>8. CASE Tick
  BY <1>3, <1>8 DEF Tick
<1>9. CASE UNCHANGED vars
  BY <1>3, <1>9 DEF vars
<1> QED
  BY <1>4, <1>5, <1>6, <1>7, <1>8, <1>9 DEF Next

(* When replayComplete is sent, everything that was asked for and is still *)
(* in the log has been sent before (agt_not_send_notifications).           *)
THEOREM ReplaysAreWhole == Spec => ReplayWhole
<1>1. NotInv /\ [Next]_vars =>
         [\A s \in Subscribed : Completed(s) => WholeSent(s)]_vars
  BY CompletedWhole
<1>2. (\A s \in Subscribed : Completed(s) => WholeSent(s)) <=>
         \A s \in Subscribed :
             /\ Len(sent'[s]) > Len(sent[s])
             /\ sent'[s][Len(sent'[s])] = replayComplete
             /\ ~sub[s].futurestop
             => \A i \in Logged :
                   /\ Wanted(s, i)
                   /\ sub[s].startTime <= events[i].time
                   /\ sub[s].stopTime # None => events[i].time < sub[s].stopTime
                   => i \in EventIds(s)
  BY DEF Completed, WholeSent
<1> QED
  BY <1>1, <1>2, NotInit, NotStep, PTL DEF Spec, ReplayWhole
=============================================================================
