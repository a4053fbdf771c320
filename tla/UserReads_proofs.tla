--------------------------- MODULE UserReads_proofs ---------------------------
(***************************************************************************)
(* What the reads of users promise: how old a value the two-tier cache may *)
(* serve, for any number of processes and readers and any lifetimes; and   *)
(* that a walk through the listing fits together, for any users and        *)
(* limits, by cursor whoever comes and goes, by pages while nobody does.   *)
(***************************************************************************)
EXTENDS CacheAside, UserListing, FiniteSetTheorems, TLAPS

(* The cache.                                                              *)

\* Version v was current at some time up to d ticks before t.
CurrentSince(v, t, d) == v < version => t <= writtenAt[v + 1] + d

WritesInOrder == \A v \in Versions : v <= version => writtenAt[v] <= now

\* A value a read holds is fresh up to the tier it came from.
HeldInTime ==
    \A r \in Readers :
        /\ value[r] <= version
        /\ pc[r] \in {"set", "fill"} => at[r] <= now /\ now <= at[r] + Delay
        /\ pc[r] = "set" => CurrentSince(value[r], at[r], 0)
        /\ pc[r] = "fill" => CurrentSince(value[r], at[r], Delay + TTL2 - 1)

L2InTime ==
    l2 # NoEntry =>
        /\ l2.version <= version
        /\ l2.until <= now + TTL2
        /\ CurrentSince(l2.version, l2.until, Delay + TTL2)

L1InTime ==
    \A n \in Nodes : l1[n] # NoEntry =>
        /\ l1[n].version <= version
        /\ CurrentSince(l1[n].version, l1[n].until, 2 * Delay + TTL1 + TTL2 - 1)

\* The inductive invariant: TypeOK bounds an L1 entry that is not stale yet.
Fresh == WritesInOrder /\ HeldInTime /\ L2InTime /\ L1InTime
CacheInv == TypeOK /\ Fresh

LEMMA InitCache == Init => CacheInv
<1> SUFFICES ASSUME Init PROVE CacheInv
  OBVIOUS
<1> USE CacheAssumption DEF Init, Versions, Times
<1>1. TypeOK
  <2>1. 0 \in Versions /\ 0 \in Times
    OBVIOUS
  <2>2. writtenAt \in [Versions -> Times] /\ value \in [Readers -> Versions]
    BY <2>1
  <2>3. at \in [Readers -> Times] /\ l1 \in [Nodes -> Entry \cup {NoEntry}]
    BY <2>1
  <2>4. \A n \in Nodes : l1[n] = NoEntry
    OBVIOUS
  <2>5. inbox \in [Nodes -> Nat] /\ purging \in [Nodes -> Nat]
    OBVIOUS
  <2>6. pc \in [Readers -> {"idle", "get", "find", "set", "fill"}]
    OBVIOUS
  <2>7. /\ now \in Times /\ version \in Versions /\ deleted \in BOOLEAN
        /\ l2 \in Entry \cup {NoEntry} /\ unpublished \in Nat
    BY <2>1
  <2>8. QED
    BY ONLY <2>2, <2>3, <2>4, <2>5, <2>6, <2>7 DEF TypeOK
<1>2. Fresh
  BY DEF Fresh, WritesInOrder, HeldInTime, L2InTime, L1InTime
<1>3. QED
  BY <1>1, <1>2 DEF CacheInv

LEMMA StepTypes == TypeOK /\ [Next]_vars => TypeOK'
<1> SUFFICES ASSUME TypeOK, [Next]_vars PROVE TypeOK'
  OBVIOUS
<1> USE CacheAssumption DEF TypeOK, Versions, Times, Entry, Goto, Hold, Done, db, bus, reads
<1>1. ASSUME NEW r \in Readers, MissL1(r) PROVE TypeOK'
  BY <1>1 DEF MissL1
<1>2. ASSUME NEW r \in Readers, GetL2(r) PROVE TypeOK'
  <2>1. CASE Live(l2) /\ Hold(r, l2.version) /\ Goto(r, "fill")
    <3>1. l2.version \in Versions
      BY <2>1 DEF Live
    <3>2. QED
      BY <1>2, <2>1, <3>1 DEF GetL2
  <2>2. CASE Goto(r, "find") /\ UNCHANGED <<value, at>>
    BY <1>2, <2>2 DEF GetL2
  <2>3. QED
    BY <1>2, <2>1, <2>2 DEF GetL2
<1>3. ASSUME NEW r \in Readers, FindUser(r) PROVE TypeOK'
  BY <1>3 DEF FindUser
<1>4. ASSUME NEW r \in Readers, SetL2(r) PROVE TypeOK'
  BY <1>4 DEF SetL2
<1>5. ASSUME NEW r \in Readers, FillL1(r) PROVE TypeOK'
  BY <1>5 DEF FillL1
<1>6. ASSUME NEW r \in Readers, ReadFails(r) PROVE TypeOK'
  BY <1>6 DEF ReadFails
<1>7. ASSUME NEW remove \in BOOLEAN, Write(remove) PROVE TypeOK'
  BY <1>7 DEF Write
<1>8. ASSUME NEW reached \in SUBSET Nodes, Publish(reached) PROVE TypeOK'
  BY <1>8 DEF Publish
<1>9. ASSUME NEW n \in Nodes, Deliver(n) PROVE TypeOK'
  BY <1>9 DEF Deliver
<1>10. ASSUME NEW n \in Nodes, PurgeL2(n) PROVE TypeOK'
  BY <1>10 DEF PurgeL2
<1>11. ASSUME NEW n \in Nodes, Restart(n) PROVE TypeOK'
  BY <1>11 DEF Restart
<1>12. ASSUME Tick PROVE TypeOK'
  BY <1>12 DEF Tick
<1>13. ASSUME UNCHANGED vars PROVE TypeOK'
  BY <1>13 DEF vars
<1>14. QED
  BY <1>1, <1>2, <1>3, <1>4, <1>5, <1>6, <1>7, <1>8, <1>9, <1>10, <1>11, <1>12, <1>13
  DEF Next, Read

LEMMA NextWritten ==
  ASSUME TypeOK, NEW v \in Versions, v < version
  PROVE  writtenAt[v + 1] \in Nat
  BY CacheAssumption DEF TypeOK, Versions, Times

\* The bounds survive each step of a read: each concerns what the step reads and
\* what it leaves behind.
LEMMA StepRead ==
  ASSUME CacheInv, NEW r \in Readers, Read(r)
  PROVE  Fresh'
<1>8. TypeOK /\ Fresh
  BY DEF CacheInv
<1>9. /\ Delay \in Nat /\ TTL1 \in Nat /\ TTL2 \in Nat /\ TTL2 > 0
      /\ Delay + TTL2 \in Nat /\ Delay + TTL2 - 1 \in Nat
      /\ 2 * Delay + TTL1 + TTL2 - 1 \in Nat
  BY CacheAssumption
<1>10. \A v \in Versions : v < version => writtenAt[v + 1] \in Nat
  BY ONLY <1>8, NextWritten
<1> USE CacheAssumption, <1>8 DEF CacheInv, TypeOK, Goto, Done, db, bus
<1>0. /\ UNCHANGED <<now, version, writtenAt>>
      /\ version \in Nat /\ now \in Nat
      /\ \A v \in Versions : v \in Nat /\ writtenAt[v] \in Nat
      /\ version \in Versions
  BY DEF Read, MissL1, GetL2, FindUser, SetL2, FillL1, ReadFails, Versions, Times
<1>1. WritesInOrder'
  BY <1>0 DEF Fresh, WritesInOrder, Versions
<1>2. CASE MissL1(r) \/ ReadFails(r)
  <2>1. L2InTime' /\ L1InTime'
    BY <1>0, <1>2 DEF MissL1, ReadFails, Fresh, L2InTime, L1InTime, CurrentSince
  <2>2. HeldInTime'
    BY <1>0, <1>2 DEF MissL1, ReadFails, Fresh, HeldInTime, CurrentSince
  <2>3. QED
    BY <1>1, <2>1, <2>2 DEF Fresh
<1>3. CASE GetL2(r)
  <2>1. L2InTime' /\ L1InTime'
    BY <1>0, <1>3 DEF GetL2, Hold, Fresh, L2InTime, L1InTime, CurrentSince
  <2>2. CASE ~Live(l2) /\ Goto(r, "find") /\ UNCHANGED <<value, at>>
    <3>1. HeldInTime'
      BY <1>0, <1>3, <2>2 DEF GetL2, Fresh, HeldInTime, CurrentSince
    <3>2. QED
      BY <1>1, <2>1, <3>1 DEF Fresh
  <2>3. CASE Live(l2) /\ Hold(r, l2.version) /\ Goto(r, "fill")
    <3>1. /\ l2.version \in Versions /\ l2.until \in Nat
          /\ l2.version <= version /\ now < l2.until
          /\ CurrentSince(l2.version, l2.until, Delay + TTL2)
      BY <2>3 DEF Live, Entry, Fresh, L2InTime
    <3>2. now + (Delay + TTL2) <= l2.until + (Delay + TTL2 - 1)
      BY <1>0, <3>1
    <3>3. CurrentSince(l2.version, now, Delay + TTL2 - 1)
      <4>1. SUFFICES ASSUME l2.version < version PROVE now <= writtenAt[l2.version + 1] + (Delay + TTL2 - 1)
        BY DEF CurrentSince
      <4>2. writtenAt[l2.version + 1] \in Nat
        BY ONLY <1>10, <3>1, <4>1
      <4>3. l2.until <= writtenAt[l2.version + 1] + (Delay + TTL2)
        BY ONLY <3>1, <4>1 DEF CurrentSince
      <4>4. QED
        BY ONLY <1>0, <1>9, <3>1, <3>2, <4>2, <4>3
    <3>4. HeldInTime'
      BY <1>0, <1>3, <2>3, <3>1, <3>3 DEF GetL2, Hold, Fresh, HeldInTime, CurrentSince
    <3>5. QED
      BY <1>1, <2>1, <3>4 DEF Fresh
  <2>4. QED
    BY <1>3, <2>2, <2>3 DEF GetL2
<1>4. CASE FindUser(r)
  <2>1. L2InTime' /\ L1InTime'
    BY <1>0, <1>4 DEF FindUser, Hold, Fresh, L2InTime, L1InTime, CurrentSince
  <2>2. HeldInTime'
    BY <1>0, <1>4 DEF FindUser, Hold, Fresh, HeldInTime, CurrentSince
  <2>3. QED
    BY <1>1, <2>1, <2>2 DEF Fresh
<1>5. CASE SetL2(r)
  <2>1. /\ value[r] \in Versions /\ at[r] \in Nat
        /\ value[r] <= version /\ at[r] <= now /\ now <= at[r] + Delay
        /\ CurrentSince(value[r], at[r], 0)
    BY <1>5 DEF SetL2, Fresh, HeldInTime, Times
  <2>2. CurrentSince(value[r], now + TTL2, Delay + TTL2)
    <3>1. SUFFICES ASSUME value[r] < version PROVE now + TTL2 <= writtenAt[value[r] + 1] + (Delay + TTL2)
      BY DEF CurrentSince
    <3>2. writtenAt[value[r] + 1] \in Nat
      BY ONLY <1>10, <2>1, <3>1
    <3>3. at[r] <= writtenAt[value[r] + 1] + (0)
      BY ONLY <2>1, <3>1 DEF CurrentSince
    <3>4. QED
      BY ONLY <1>0, <1>9, <2>1, <3>2, <3>3
  <2>3. L2InTime'
    BY <1>0, <1>5, <2>1, <2>2 DEF SetL2, L2InTime, CurrentSince
  <2>4. CurrentSince(value[r], at[r], Delay + TTL2 - 1)
    <3>1. SUFFICES ASSUME value[r] < version PROVE at[r] <= writtenAt[value[r] + 1] + (Delay + TTL2 - 1)
      BY DEF CurrentSince
    <3>2. writtenAt[value[r] + 1] \in Nat
      BY ONLY <1>10, <2>1, <3>1
    <3>3. at[r] <= writtenAt[value[r] + 1] + (0)
      BY ONLY <2>1, <3>1 DEF CurrentSince
    <3>4. QED
      BY ONLY <1>0, <1>9, <2>1, <3>2, <3>3
  <2>5. HeldInTime'
    BY <1>0, <1>5, <2>1, <2>4 DEF SetL2, Fresh, HeldInTime, CurrentSince
  <2>6. L1InTime'
    BY <1>0, <1>5 DEF SetL2, Fresh, L1InTime, CurrentSince
  <2>7. QED
    BY <1>1, <2>3, <2>5, <2>6 DEF Fresh
<1>6. CASE FillL1(r)
  <2>1. /\ value[r] \in Versions /\ at[r] \in Nat
        /\ value[r] <= version /\ at[r] <= now /\ now <= at[r] + Delay
        /\ CurrentSince(value[r], at[r], Delay + TTL2 - 1)
    BY <1>6 DEF FillL1, Fresh, HeldInTime, Times
  <2>2. (now + TTL1) + (Delay + TTL2 - 1) <= at[r] + (2 * Delay + TTL1 + TTL2 - 1)
    BY <1>0, <2>1
  <2>3. CurrentSince(value[r], now + TTL1, 2 * Delay + TTL1 + TTL2 - 1)
    <3>1. SUFFICES ASSUME value[r] < version PROVE now + TTL1 <= writtenAt[value[r] + 1] + (2 * Delay + TTL1 + TTL2 - 1)
      BY DEF CurrentSince
    <3>2. writtenAt[value[r] + 1] \in Nat
      BY ONLY <1>10, <2>1, <3>1
    <3>3. at[r] <= writtenAt[value[r] + 1] + (Delay + TTL2 - 1)
      BY ONLY <2>1, <3>1 DEF CurrentSince
    <3>4. QED
      BY ONLY <1>0, <1>9, <2>1, <2>2, <3>2, <3>3
  <2>4. L1InTime'
    BY <1>0, <1>6, <2>1, <2>3 DEF FillL1, Fresh, L1InTime, CurrentSince
  <2>5. HeldInTime'
    BY <1>0, <1>6 DEF FillL1, Fresh, HeldInTime, CurrentSince
  <2>6. L2InTime'
    BY <1>0, <1>6 DEF FillL1, Fresh, L2InTime, CurrentSince
  <2>7. QED
    BY <1>1, <2>4, <2>5, <2>6 DEF Fresh
<1>7. QED
  BY <1>2, <1>3, <1>4, <1>5, <1>6 DEF Read

LEMMA StepFresh == CacheInv /\ [Next]_vars => Fresh'
<1> SUFFICES ASSUME CacheInv, [Next]_vars PROVE Fresh'
  OBVIOUS
<1> USE CacheAssumption
<1> USE DEF CacheInv, TypeOK, Fresh, WritesInOrder, HeldInTime, L2InTime,
      L1InTime, CurrentSince, Versions, Times, Entry, db, bus, reads
<1>1. ASSUME NEW r \in Readers, Read(r) PROVE Fresh'
  BY ONLY <1>1, CacheInv, StepRead
<1>2. ASSUME NEW remove \in BOOLEAN, Write(remove) PROVE Fresh'
  <2>1. /\ version \in Nat /\ now \in Nat /\ version + 1 \in Versions
        /\ version' = version + 1 /\ writtenAt' = [writtenAt EXCEPT ![version + 1] = now]
        /\ UNCHANGED <<now, l1, l2, pc, value, at>>
    BY <1>2 DEF Write
  <2>2. WritesInOrder'
    <3>1. ASSUME NEW v \in Versions, v <= version' PROVE writtenAt'[v] <= now
      <4>1. CASE v = version + 1
        BY <2>1, <4>1
      <4>2. CASE v <= version
        BY <2>1, <4>2
      <4>3. QED
        BY <2>1, <3>1, <4>1, <4>2
    <3>2. QED
      BY <2>1, <3>1
  <2>3. HeldInTime'
    <3>1. ASSUME NEW r \in Readers, pc[r] \in {"set", "fill"}, value[r] < version'
          PROVE  /\ at[r] <= writtenAt'[value[r] + 1] + (Delay + TTL2 - 1)
                 /\ pc[r] = "set" => at[r] <= writtenAt'[value[r] + 1]
      <4>1. CASE value[r] = version
        BY <2>1, <3>1, <4>1
      <4>2. CASE value[r] < version
        <5>1. value[r] + 1 \in Versions /\ writtenAt'[value[r] + 1] = writtenAt[value[r] + 1]
          BY <2>1, <3>1, <4>2
        <5>2. /\ pc[r] = "set" => at[r] <= writtenAt[value[r] + 1]
              /\ pc[r] = "fill" => at[r] <= writtenAt[value[r] + 1] + (Delay + TTL2 - 1)
          BY <3>1, <4>2
        <5>3. /\ at[r] \in Nat /\ writtenAt[value[r] + 1] \in Nat
              /\ Delay + TTL2 - 1 >= 0
          BY <3>1, <5>1
        <5>4. QED
          BY <3>1, <5>1, <5>2, <5>3
      <4>3. QED
        BY <2>1, <3>1, <4>1, <4>2
    <3>2. \A r \in Readers : value[r] <= version'
      BY <2>1
    <3>3. QED
      BY <2>1, <3>1, <3>2
  <2>4. L2InTime'
    <3>1. ASSUME l2 # NoEntry, l2.version < version'
          PROVE  l2.until <= writtenAt'[l2.version + 1] + (Delay + TTL2)
      <4>1. CASE l2.version = version
        BY <2>1, <3>1, <4>1
      <4>2. CASE l2.version < version
        BY <2>1, <3>1, <4>2
      <4>3. QED
        BY <2>1, <3>1, <4>1, <4>2
    <3>2. l2 # NoEntry => l2.version <= version' /\ l2.until <= now + TTL2
      BY <2>1
    <3>3. QED
      BY <2>1, <3>1, <3>2
  <2>5. L1InTime'
    <3>1. ASSUME NEW n \in Nodes, l1[n] # NoEntry, l1[n].version < version'
          PROVE  l1[n].until <= writtenAt'[l1[n].version + 1] + (2 * Delay + TTL1 + TTL2 - 1)
      <4>1. CASE l1[n].version = version
        BY <2>1, <3>1, <4>1
      <4>2. CASE l1[n].version < version
        BY <2>1, <3>1, <4>2
      <4>3. QED
        BY <2>1, <3>1, <4>1, <4>2
    <3>2. \A n \in Nodes : l1[n] # NoEntry => l1[n].version <= version'
      BY <2>1
    <3>3. QED
      BY <2>1, <3>1, <3>2
  <2>6. QED
    BY <2>2, <2>3, <2>4, <2>5
<1>3. ASSUME NEW reached \in SUBSET Nodes, Publish(reached) PROVE Fresh'
  BY <1>3 DEF Publish
<1>4. ASSUME NEW n \in Nodes, Deliver(n) PROVE Fresh'
  BY <1>4 DEF Deliver
<1>5. ASSUME NEW n \in Nodes, PurgeL2(n) PROVE Fresh'
  BY <1>5 DEF PurgeL2
<1>6. ASSUME NEW n \in Nodes, Restart(n) PROVE Fresh'
  BY <1>6 DEF Restart
<1>7. ASSUME Tick PROVE Fresh'
  BY <1>7 DEF Tick
<1>8. ASSUME UNCHANGED vars PROVE Fresh'
  BY <1>8 DEF vars
<1>9. QED
  BY <1>1, <1>2, <1>3, <1>4, <1>5, <1>6, <1>7, <1>8 DEF Next

LEMMA CacheInvariance == Spec => []CacheInv
<1>1. Init => CacheInv
  BY InitCache
<1>2. CacheInv /\ [Next]_vars => CacheInv'
  BY StepTypes, StepFresh DEF CacheInv
<1>3. QED
  BY <1>1, <1>2, PTL DEF Spec

\* Every reachable state is well typed, and no L1 entry lives longer than TTL1.
THEOREM CacheTypeCorrect == Spec => []TypeOK
<1>1. CacheInv => TypeOK
  BY DEF CacheInv
<1>2. QED
  BY <1>1, CacheInvariance, PTL

\* However invalidations are lost, late or raced, no process serves a value that
\* was overwritten or deleted TTL1 + TTL2 + 2 * Delay - 1 ticks ago or more.
THEOREM StaleForTwoLifetimesAtMost == Spec => []StalenessBounded
<1>1. CacheInv => StalenessBounded
  BY CacheAssumption, SMTT(30) DEF CacheInv, TypeOK, Fresh, WritesInOrder, L1InTime, CurrentSince,
     StalenessBounded, StaleFor, Live, Versions, Times, Entry
<1>2. QED
  BY <1>1, CacheInvariance, PTL

\* Redis alone serves none that is older than its own lifetime and the delay.
THEOREM L2StaleForOneLifetimeAtMost == Spec => []L2StalenessBounded
<1>1. CacheInv => L2StalenessBounded
  BY CacheAssumption DEF CacheInv, TypeOK, Fresh, WritesInOrder, L2InTime, CurrentSince,
     L2StalenessBounded, StaleFor, Live, Versions, Times, Entry
<1>2. QED
  BY <1>1, CacheInvariance, PTL

-----------------------------------------------------------------------------
(* A walk by cursor.  Between two pages it knows only its cursor, which    *)
(* divides those who have stayed and been shown from those who are still   *)
(* to be.                                                                  *)

\* The cursor divides the users.
Divides ==
    position # NoCursor =>
        /\ \A u \in shown : u <= position
        /\ \A u \in stayed : u <= position => u \in shown

CursorInv ==
    /\ ListTypeOK
    /\ query.type = "cursor" => found = NotYet
    /\ query.type # "cursor" => position \in Nat
    /\ query.type = "cursor" =>
        /\ Divides
        /\ state = "new" => more /\ position = 0 /\ shown = {}
        /\ state = "asked" => more /\ position # NoCursor
        /\ stayed \subseteq matching
        /\ CursorWalksAreStable

\* What has come first by _id comes before the rest, and is all if it is fewer than asked for.
LEMMA FirstById ==
    ASSUME NEW S \in SUBSET Users, NEW k \in Nat, NEW F \in First(S, k, ById)
    PROVE  /\ F \subseteq S
           /\ \A u \in F, v \in S \ F : u <= v
           /\ Cardinality(F) \in Nat
           /\ Cardinality(F) < k => F = S
<1>1. IsFiniteSet(S)
  BY FS_Subset, ListingAssumption
<1>2. F \in SUBSET S
  BY DEF First
<1>3. \A u \in F, v \in S \ F : u <= v
  BY <1>2 DEF First, ById
<1>4. Cardinality(F) = IF k < Cardinality(S) THEN k ELSE Cardinality(S)
  BY DEF First
<1>5. Cardinality(S) \in Nat
  BY <1>1, FS_CardinalityType
<1>6. Cardinality(F) < k => Cardinality(S) = Cardinality(F)
  BY <1>4, <1>5
<1>7. QED
  BY <1>1, <1>2, <1>3, <1>4, <1>5, <1>6, FS_Subset

LEMMA LimitType == ASSUME ListTypeOK PROVE Limit \in Int
<1>1. query.limit \in Asked
  BY DEF ListTypeOK, Query
<1>2. query.limit \in Int
  BY <1>1, ListingAssumption, Zenon
<1>3. DefaultLimit \in Int /\ MaxLimit \in Int
  BY ListingAssumption
<1>4. QED
  BY <1>2, <1>3 DEF Limit

\* The pages of a walk are of users.
LEMMA AnswerTypes ==
    ASSUME ListTypeOK, NEW page \in SUBSET Users, NEW hasNext \in BOOLEAN,
           NEW next \in Nat \cup {NoCursor}, Answer(page, hasNext, next)
    PROVE  ListTypeOK'
BY DEF ListTypeOK, Answer

\* One step of the walk by cursor.
LEMMA FindAfterStep == ASSUME CursorInv, FindAfter PROVE CursorInv'
<1> DEFINE after == {u \in matching : u > position}
<1> DEFINE k == Batch(after, Limit + 1)
<1>1. /\ ListTypeOK /\ query.type = "cursor" /\ state = "asked" /\ more
      /\ position \in Nat /\ stayed \subseteq matching /\ twice = {} /\ Divides
  BY DEF CursorInv, FindAfter, ListTypeOK, CursorWalksAreStable
<1>2. /\ matching \subseteq Users /\ shown \subseteq Users /\ stayed \subseteq Users
      /\ Users \subseteq Nat /\ Limit \in Int
  BY <1>1, LimitType, ListingAssumption DEF ListTypeOK
<1>3. /\ \A u \in shown : u <= position
      /\ \A u \in stayed : u <= position => u \in shown
  BY <1>1, ListingAssumption DEF Divides
<1>4. after \in SUBSET Users
  BY <1>2
<1>5. k \in Nat
  <2>1. IsFiniteSet(after)
    BY <1>4, FS_Subset, ListingAssumption
  <2>2. Cardinality(after) \in Nat
    BY <2>1, FS_CardinalityType
  <2>3. QED
    BY <1>2, <2>2 DEF Batch
<1>6. PICK fetched \in First(after, k, ById) :
          IF Cardinality(fetched) > Limit
          THEN LET page == fetched \ Highest(fetched)
               IN page # {} /\ \E next \in NextCursor(fetched, page) : Answer(page, TRUE, next)
          ELSE Answer(fetched, FALSE, NoCursor)
  BY DEF FindAfter
<1>7. /\ fetched \subseteq after
      /\ \A u \in fetched, v \in after \ fetched : u <= v
      /\ Cardinality(fetched) \in Nat
      /\ Cardinality(fetched) < k => fetched = after
  BY <1>4, <1>5, FirstById
<1>8. CASE Cardinality(fetched) > Limit
  <2> DEFINE page == fetched \ Highest(fetched)
  <2>1. PICK next \in NextCursor(fetched, page) : Answer(page, TRUE, next)
    BY <1>6, <1>8
  <2>2. page \in SUBSET Users
    BY <1>4, <1>7
  <2>3. shown \cap page = {}
    <3>1. \A u \in shown : u <= position
      BY <1>3
    <3>2. \A u \in page : u > position
      BY <1>7
    <3>3. \A u \in shown : u \in Nat
      BY <1>2
    <3>4. QED
      BY <3>1, <3>2, <3>3, <1>1
  <2>4. next \in Nat \cup {NoCursor}
    BY <1>2, <2>2 DEF NextCursor, Highest
  <2>5. ListTypeOK'
    BY <1>1, <2>1, <2>2, <2>4, AnswerTypes
  <2>6. Divides'
    <3>1. SUFFICES ASSUME next # NoCursor
                   PROVE  /\ \A u \in shown \cup page : u <= next
                          /\ \A u \in stayed : u <= next => u \in shown \cup page
      BY <2>1 DEF Divides, Answer
    <3>2. next \in page /\ \A u \in page : u <= next
      BY <3>1, <2>1 DEF NextCursor, Highest
    <3>3. next \in Nat /\ next > position
      BY <3>2, <1>2, <1>7
    <3>4. \A u \in shown \cup page : u <= next
      BY <1>1, <1>2, <1>3, <3>2, <3>3
    <3>5. ASSUME NEW u \in stayed, u <= next PROVE u \in shown \cup page
      <4>1. CASE u <= position
        BY <4>1, <1>3
      <4>2. CASE u > position /\ u \notin fetched
        <5>1. u \in after \ fetched
          BY <4>2, <1>1
        <5>2. next <= u /\ u \in Nat
          BY <5>1, <3>2, <1>7, <1>2
        <5>3. u = next
          BY <5>2, <3>3, <3>5
        <5>4. QED
          BY <5>3, <3>2
      <4>3. CASE u \in fetched
        <5>1. u \in Highest(fetched) => u = next
          BY <3>2, <3>3, <3>5, <1>2 DEF Highest
        <5>2. QED
          BY <4>3, <5>1, <3>2
      <4>4. u \in Nat
        BY <1>2
      <4>5. QED
        BY <4>1, <4>2, <4>3, <4>4, <1>1
    <3>6. QED
      BY <3>4, <3>5
  <2>7. QED
    BY <1>1, <2>1, <2>3, <2>5, <2>6 DEF CursorInv, CursorWalksAreStable, Answer
<1>9. CASE ~(Cardinality(fetched) > Limit)
  <2>1. Answer(fetched, FALSE, NoCursor)
    BY <1>6, <1>9
  <2>2. fetched = after
    <3>1. Limit >= 0
      BY <1>2, <1>7, <1>9
    <3>2. k = Limit + 1
      BY <3>1, <1>2 DEF Batch
    <3>3. QED
      BY <3>2, <1>2, <1>7, <1>9
  <2>3. stayed \subseteq shown \cup fetched
    BY <1>1, <1>2, <1>3, <2>2
  <2>4. shown \cap fetched = {}
    <3>1. \A u \in shown : u <= position /\ u \in Nat
      BY <1>2, <1>3
    <3>2. \A u \in fetched : u > position
      BY <2>2
    <3>3. QED
      BY <3>1, <3>2, <1>1
  <2>5. ListTypeOK'
    BY <1>1, <1>4, <2>1, <2>2, AnswerTypes
  <2>6. Divides'
    BY <2>1 DEF Divides, Answer
  <2>7. QED
    BY <1>1, <2>1, <2>3, <2>4, <2>5, <2>6 DEF CursorInv, CursorWalksAreStable, Answer
<1>10. QED
  BY <1>8, <1>9

\* The steps of a walk by pages keep to the types.
LEMMA PagesStep ==
    ASSUME CursorInv, FindPage \/ CountAll \/ AnswerPage
    PROVE  ListTypeOK'
<1>0. ListTypeOK /\ (found # NotYet => position \in Nat)
  BY DEF CursorInv
<1>1. CASE FindPage
  <2>1. PICK A, B \in SUBSET matching : found' = B \ A
    BY <1>1 DEF FindPage, First
  <2>2. QED
    BY <1>0, <1>1, <2>1 DEF FindPage, ListTypeOK
<1>2. CASE CountAll
  <2>1. Cardinality(matching) \in Nat
    BY <1>0, FS_Subset, FS_CardinalityType, ListingAssumption DEF ListTypeOK
  <2>2. QED
    BY <1>0, <1>2, <2>1 DEF CountAll, ListTypeOK
<1>3. CASE AnswerPage
  <2>1. found \in SUBSET Users
    BY <1>0, <1>3 DEF ListTypeOK, AnswerPage
  <2>2. position + 1 \in Nat \cup {NoCursor}
    BY <1>0, <1>3 DEF AnswerPage
  <2>3. QED
    <3>1. Answer(found, position < TotalPages, position + 1) /\ (position < TotalPages) \in BOOLEAN
      BY <1>3 DEF AnswerPage
    <3>2. QED
      BY <1>0, <2>1, <2>2, <3>1, AnswerTypes, Zenon
<1>4. QED
  BY <1>1, <1>2, <1>3

LEMMA CursorStep == ASSUME CursorInv, [ListNext]_lvars PROVE CursorInv'
<1> USE DEF CursorInv
<1>0. ListTypeOK /\ Users \subseteq Nat \ {0}
  BY ListingAssumption
<1>1. ASSUME NEW u \in Users, Enter(u) PROVE CursorInv'
  BY <1>0, <1>1 DEF Enter, ListTypeOK, Divides, CursorWalksAreStable
<1>2. ASSUME NEW u \in Users, Leave(u) PROVE CursorInv'
  BY <1>0, <1>2 DEF Leave, ListTypeOK, Divides, CursorWalksAreStable
<1>3. CASE Ask
  <2>1. CASE state = "new"
    <3>1. query.type = "cursor" => ~ \E u \in matching : u <= position
      <4>1. \A u \in matching : u \in Nat \ {0}
        BY <1>0 DEF ListTypeOK
      <4>2. query.type = "cursor" => position = 0
        BY <2>1
      <4>3. QED
        BY <4>1, <4>2
    <3>2. QED
      BY <1>0, <1>3, <2>1, <3>1 DEF Ask, ListTypeOK, Divides, CursorWalksAreStable
  <2>2. CASE state # "new"
    BY <1>0, <1>3, <2>2 DEF Ask, ListTypeOK, Divides, CursorWalksAreStable
  <2>3. QED
    BY <2>1, <2>2
<1>4. CASE Reject
  BY <1>0, <1>4 DEF Reject, ListTypeOK, Divides, CursorWalksAreStable
<1>5. CASE FindAfter
  BY <1>5, FindAfterStep
<1>6. CASE FindPage \/ CountAll \/ AnswerPage
  <2>1. ListTypeOK'
    BY <1>6, PagesStep
  <2>2. query.type # "cursor" /\ query' = query /\ position' \in Nat
    BY <1>0, <1>6 DEF FindPage, CountAll, AnswerPage, Answer
  <2>3. QED
    BY <2>1, <2>2 DEF CursorWalksAreStable
<1>7. CASE UNCHANGED lvars
  BY <1>0, <1>7 DEF lvars, ListTypeOK, Divides, CursorWalksAreStable
<1>8. QED
  BY <1>1, <1>2, <1>3, <1>4, <1>5, <1>6, <1>7 DEF ListNext

LEMMA CursorStart == ListInit => CursorInv
BY ListingAssumption
   DEF ListInit, CursorInv, ListTypeOK, Divides, CursorWalksAreStable

\* Whoever comes and goes, a walk by cursor shows nobody twice and misses nobody who
\* stays, whatever the limits are.
THEOREM WalksByCursorAreStable == ListSpec => []CursorWalksAreStable
<1>1. CursorInv => CursorWalksAreStable
  BY DEF CursorInv, CursorWalksAreStable
<1>2. QED
  BY <1>1, CursorStart, CursorStep, PTL DEF ListSpec

-----------------------------------------------------------------------------
(* A walk by pages.  While nobody comes or goes, what has been shown is    *)
(* always the first users by _id, as many as the pages before hold: two    *)
(* queries for a number of first users give the same users, so that a page *)
(* starts where the last one has ended.                                    *)

LEMMA FirstIsUnique ==
    ASSUME NEW S \in SUBSET Users, NEW k \in Nat,
           NEW F \in First(S, k, ById), NEW G \in First(S, k, ById)
    PROVE  F = G
<1>1. /\ IsFiniteSet(S) /\ Users \subseteq Nat
      /\ F \in SUBSET S /\ G \in SUBSET S
      /\ Cardinality(F) = Cardinality(G)
      /\ \A u \in F, v \in S \ F : u <= v
      /\ \A u \in G, v \in S \ G : u <= v
  BY FirstById, FS_Subset, ListingAssumption DEF First
<1>2. IsFiniteSet(F) /\ IsFiniteSet(G)
  BY <1>1, FS_Subset
<1>3. ASSUME NEW u \in F, u \notin G PROVE F = G
  <2>1. CASE G \subseteq F
    BY <1>1, <1>2, <2>1, FS_Subset
  <2>2. CASE \E v \in G : v \notin F
    <3>1. PICK v \in G : v \notin F
      BY <2>2
    <3>2. u <= v /\ v <= u /\ u \in Nat /\ v \in Nat
      BY <1>1, <1>3, <3>1
    <3>3. QED
      BY <1>3, <3>1, <3>2
  <2>3. QED
    BY <2>1, <2>2
<1>4. CASE F \subseteq G
  BY <1>1, <1>2, <1>4, FS_Subset
<1>5. QED
  BY <1>3, <1>4

LEMMA FirstOfAll ==
    ASSUME NEW S \in SUBSET Users, NEW k \in Nat, NEW F \in First(S, k, ById), k >= Cardinality(S)
    PROVE  F = S
<1>1. IsFiniteSet(S) /\ Cardinality(S) \in Nat /\ F \in SUBSET S
  BY FS_Subset, FS_CardinalityType, ListingAssumption DEF First
<1>2. Cardinality(F) = Cardinality(S)
  BY <1>1 DEF First
<1>3. QED
  BY <1>1, <1>2, FS_Subset

LEMMA FirstOfNone ==
    ASSUME NEW S \in SUBSET Users
    PROVE  {} \in First(S, 0, ById)
<1>1. IsFiniteSet(S) /\ Cardinality(S) \in Nat /\ Cardinality({}) = 0
  BY FS_Subset, FS_CardinalityType, FS_EmptySet, ListingAssumption
<1>2. QED
  BY <1>1 DEF First

\* Rounded up, the number of pages covers everybody.
LEMMA PagesCover ==
    ASSUME NEW n \in Nat, NEW d \in Nat \ {0}, NEW p \in Nat, p >= (n + d - 1) \div d
    PROVE  p * d >= n
<1> DEFINE q == (n + d - 1) \div d
<1>1. q \in Int /\ n + d - 1 < d * (q + 1)
  OBVIOUS
<1>2. d * (q + 1) = d * q + d
  BY <1>1
<1>3. d * q >= n
  BY <1>1, <1>2
<1>4. p - q \in Nat
  BY <1>1
<1> HIDE DEF q
<1>5. (p - q) * d \in Nat
  <2>1. \A a, b \in Nat : a * b \in Nat
    OBVIOUS
  <2>2. QED
    BY <1>4, <2>1
<1>6. (p - q) * d = p * d - d * q
  <2>1. \A a, b, c \in Int : (a - b) * c = a * c - c * b
    OBVIOUS
  <2>2. q \in Int /\ p \in Int /\ d \in Int
    BY <1>1
  <2>3. QED
    BY <2>1, <2>2
<1>7. p * d \in Int /\ d * q \in Int
  BY <1>1
<1>8. QED
  BY <1>3, <1>5, <1>6, <1>7

ByPages == query.type = "offset" /\ ~query.sorted /\ query.limit >= 0

\* What has been shown, and what has been found for the next page.
Fitting ==
    /\ shown \in First(matching, (position - 1) * Limit, ById)
    /\ found # NotYet => /\ shown \cup found \in First(matching, position * Limit, ById)
                         /\ shown \cap found = {}
    /\ count # NotYet => count = Cardinality(matching)
    /\ twice = {} /\ (~more => shown = matching)

PagesInv ==
    /\ CursorInv
    /\ ByPages =>
        /\ position \in Nat \ {0}
        /\ found # NotYet => state = "asked"
        /\ state = "new" => /\ position = 1 /\ shown = {} /\ twice = {} /\ more
                            /\ found = NotYet /\ count = NotYet
        /\ quiet => Fitting

LEMMA PageLimit == ASSUME ListTypeOK, ByPages PROVE Limit \in Nat \ {0}
<1>1. query.limit \in Asked
  BY DEF ListTypeOK, Query
<1>2. query.limit \in Int
  BY <1>1, ListingAssumption, Zenon
<1>3. query.limit >= 0 /\ DefaultLimit \in Nat \ {0} /\ MaxLimit \in Nat \ {0}
  BY ListingAssumption DEF ByPages
<1>4. QED
  BY <1>2, <1>3 DEF Limit

\* The page that is answered, and the next position.
LEMMA Multiples ==
    ASSUME NEW p \in Nat \ {0}, NEW d \in Nat \ {0}
    PROVE  /\ (p - 1) * d \in Nat /\ p * d \in Nat
           /\ (p - 1) * d + d = p * d /\ ((p + 1) - 1) * d = p * d
<1>1. p - 1 \in Nat
  OBVIOUS
<1>2. (p - 1) * d \in Nat /\ p * d \in Nat
  BY <1>1
<1>3. (p - 1) * d + d = p * d /\ (p + 1) - 1 = p
  BY <1>1
<1>4. QED
  BY <1>2, <1>3

LEMMA FindPageFits ==
    ASSUME PagesInv, ByPages, quiet, FindPage
    PROVE  Fitting'
<1> DEFINE skip == (position - 1) * Limit
<1>0. /\ ListTypeOK /\ position \in Nat \ {0} /\ Limit \in Nat \ {0}
      /\ matching \in SUBSET Users /\ Fitting /\ query.type = "offset" /\ ~query.sorted
  BY PageLimit DEF PagesInv, CursorInv, ListTypeOK, ByPages
<1>1. /\ skip \in Nat /\ Batch(matching, Limit) = Limit
      /\ skip + Batch(matching, Limit) = position * Limit /\ position * Limit \in Nat
  BY <1>0, Multiples DEF Batch
<1>2. PICK skipped \in First(matching, skip, ById),
           upTo \in First(matching, position * Limit, ById) :
               skipped \subseteq upTo /\ found' = upTo \ skipped
  BY <1>0, <1>1 DEF FindPage
<1>3. skipped = shown
  BY <1>0, <1>1, <1>2, FirstIsUnique DEF Fitting
<1>4. shown \cup (upTo \ shown) = upTo
  BY <1>2, <1>3
<1>5. Limit' = Limit /\ UNCHANGED <<matching, position, shown, count, twice, more>>
  BY DEF FindPage, Limit
<1>6. found' = upTo \ shown
  BY <1>2, <1>3
<1> HIDE DEF skip
<1>7. shown' \cup found' = upTo /\ shown' \cap found' = {}
  BY <1>4, <1>5, <1>6
<1>8. QED
  BY <1>0, <1>2, <1>5, <1>7 DEF Fitting

LEMMA AnswerPageFits ==
    ASSUME PagesInv, ByPages, quiet, AnswerPage
    PROVE  Fitting'
<1>0. /\ ListTypeOK /\ position \in Nat \ {0} /\ Limit \in Nat \ {0}
      /\ matching \in SUBSET Users /\ Fitting /\ found # NotYet /\ count # NotYet
      /\ shown \in SUBSET Users /\ found \in SUBSET Users
  BY PageLimit DEF PagesInv, CursorInv, ListTypeOK, AnswerPage
<1>1. /\ position' = position + 1 /\ shown' = shown \cup found
      /\ twice' = twice \cup (shown \cap found)
      /\ more' = (position < TotalPages) /\ found' = NotYet /\ count' = NotYet
      /\ matching' = matching /\ query' = query
  BY DEF AnswerPage, Answer
<1>2. Limit' = Limit
  BY <1>1 DEF Limit
<1>3. position * Limit \in Nat /\ (position' - 1) * Limit' = position * Limit
  BY <1>0, <1>1, <1>2, Multiples
<1>4. shown \cup found \in First(matching, position * Limit, ById) /\ shown \cap found = {}
      /\ count = Cardinality(matching) /\ twice = {}
  BY <1>0 DEF Fitting
<1>5. ~more' => shown' = matching
  <2> SUFFICES ASSUME ~(position < TotalPages) PROVE shown \cup found = matching
    BY <1>1
  <2>1. count \in Nat
    BY <1>0 DEF ListTypeOK
  <2>2. TotalPages = (count + Limit - 1) \div Limit
    BY <1>0 DEF TotalPages
  <2>3. TotalPages \in Int
    BY <1>0, <2>1, <2>2
  <2>4. position >= TotalPages
    BY <1>0, <2>3
  <2>5. position * Limit >= count
    BY <1>0, <2>1, <2>2, <2>4, PagesCover
  <2>6. QED
    BY <1>0, <1>3, <1>4, <2>5, FirstOfAll
<1>6. QED
  BY <1>1, <1>3, <1>4, <1>5 DEF Fitting

LEMMA PagesInvStart == ListInit => PagesInv
<1> SUFFICES ASSUME ListInit PROVE PagesInv
  OBVIOUS
<1>1. CursorInv
  BY CursorStart
<1>2. /\ matching \in SUBSET Users /\ shown = {} /\ twice = {} /\ more /\ state = "new"
      /\ found = NotYet /\ count = NotYet /\ (ByPages => position = 1)
  BY DEF ListInit, ByPages
<1>3. ByPages => Fitting
  <2> SUFFICES ASSUME ByPages PROVE Fitting
    OBVIOUS
  <2>1. Limit \in Nat \ {0}
    BY <1>1, PageLimit DEF CursorInv
  <2>2. (position - 1) * Limit = 0
    BY <1>2, <2>1
  <2>3. {} \in First(matching, 0, ById)
    BY <1>2, FirstOfNone
  <2>4. QED
    BY <1>2, <2>2, <2>3 DEF Fitting
<1>4. QED
  BY <1>1, <1>2, <1>3 DEF PagesInv

\* Somebody comes or goes.
LEMMA ChangedUsers ==
    ASSUME PagesInv, matching' \in SUBSET Users, quiet' = (state = "new"),
           UNCHANGED <<query, state, position, found, count, more, shown, twice>>, CursorInv'
    PROVE  PagesInv'
<1>1. ByPages' = ByPages /\ Limit' = Limit
  BY DEF ByPages, Limit
<1>2. ASSUME ByPages, state = "new" PROVE Fitting'
  <2>1. position = 1 /\ shown = {} /\ found = NotYet /\ count = NotYet /\ twice = {} /\ more
    BY <1>2 DEF PagesInv
  <2>2. Limit \in Nat \ {0}
    BY <1>2, PageLimit DEF PagesInv, CursorInv
  <2>3. (position' - 1) * Limit' = 0
    BY <1>1, <2>1, <2>2
  <2>4. {} \in First(matching', 0, ById)
    BY FirstOfNone
  <2>5. QED
    BY <2>1, <2>3, <2>4 DEF Fitting
<1>3. QED
  BY <1>1, <1>2 DEF PagesInv

LEMMA PagesInvStep == PagesInv /\ [ListNext]_lvars => PagesInv'
<1> SUFFICES ASSUME PagesInv, [ListNext]_lvars PROVE PagesInv'
  OBVIOUS
<1>0. CursorInv' /\ ListTypeOK
  BY CursorStep DEF PagesInv, CursorInv
<1>1. ASSUME NEW u \in Users, Enter(u) PROVE PagesInv'
  BY <1>0, <1>1, ChangedUsers DEF Enter, ListTypeOK
<1>2. ASSUME NEW u \in Users, Leave(u) PROVE PagesInv'
  BY <1>0, <1>2, ChangedUsers DEF Leave, ListTypeOK
<1>3. CASE Ask
  <2>1. ByPages' = ByPages /\ Fitting' = Fitting
    BY <1>3 DEF Ask, ByPages, Fitting, Limit
  <2>2. QED
    BY <1>0, <1>3, <2>1 DEF PagesInv, Ask
<1>4. CASE Reject
  <2>1. ByPages' = ByPages /\ (Fitting => Fitting') /\ (ByPages => state' = "idle")
    BY <1>4 DEF Reject, ByPages, Fitting, Limit
  <2>2. QED
    BY <1>0, <1>4, <2>1 DEF PagesInv, Reject
<1>5. CASE FindAfter
  <2>1. query.type = "cursor" /\ query' = query
    BY <1>5 DEF FindAfter, Answer
  <2>2. QED
    BY <1>0, <2>1 DEF PagesInv, ByPages
<1>6. CASE FindPage
  <2>1. ByPages' = ByPages /\ UNCHANGED <<state, position, quiet>> /\ state = "asked"
    BY <1>6 DEF FindPage, ByPages
  <2>2. ByPages /\ quiet => Fitting'
    BY <1>6, FindPageFits
  <2>3. QED
    BY <1>0, <2>1, <2>2 DEF PagesInv
<1>7. CASE CountAll
  <2>1. ByPages' = ByPages /\ UNCHANGED <<state, position, quiet, found>> /\ state = "asked"
    BY <1>7 DEF CountAll, ByPages
  <2>2. Fitting => Fitting'
    BY <1>7 DEF CountAll, Fitting, Limit
  <2>3. QED
    BY <1>0, <2>1, <2>2 DEF PagesInv
<1>8. CASE AnswerPage
  <2>1. /\ ByPages' = ByPages /\ quiet' = quiet /\ position' = position + 1
        /\ state' = "idle" /\ found' = NotYet
    BY <1>8 DEF AnswerPage, Answer, ByPages
  <2>2. ByPages /\ quiet => Fitting'
    BY <1>8, AnswerPageFits
  <2>3. QED
    BY <1>0, <2>1, <2>2 DEF PagesInv
<1>9. CASE UNCHANGED lvars
  <2>1. ByPages' = ByPages /\ Fitting' = Fitting
    BY <1>9 DEF lvars, ByPages, Fitting, Limit
  <2>2. QED
    BY <1>0, <1>9, <2>1 DEF PagesInv, lvars
<1>10. QED
  BY <1>1, <1>2, <1>3, <1>4, <1>5, <1>6, <1>7, <1>8, <1>9 DEF ListNext

\* While nobody comes or goes, and by _id, a walk by pages shows nobody twice and ends
\* having shown everybody, whatever the limit asked for, as long as it is not negative.
THEOREM WalksByPagesFit == ListSpec => []PagesFitTogether
<1>1. PagesInv => PagesFitTogether
  BY DEF PagesInv, PagesFitTogether, Fitting, ByPages
<1>2. QED
  BY <1>1, PagesInvStart, PagesInvStep, PTL DEF ListSpec
=============================================================================
