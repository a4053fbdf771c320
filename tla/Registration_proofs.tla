------------------------ MODULE Registration_proofs ------------------------
(* An address has one account, stored with its token, and its event.       *)
EXTENDS Registration, TLAPS

\* Where a request stands against what it has written.
WrittenInOrder ==
    \A r \in Reqs :
        /\ staged[r] # {} => ~standalone /\ Transactional(r)
        /\ pc[r] \in {"stage", "stageToken", "commit", "abort"} => Transactional(r)
        /\ pc[r] \in {"stageToken", "commit"} => ~standalone
        /\ pc[r] \in {"lookup", "stage", "insert", "link", "grant"} => staged[r] = {}
        /\ pc[r] = "insert" /\ Transactional(r) => standalone
        /\ kind[r] # "register" => pc[r] # "commit"
        /\ kind[r] = "demo" => pc[r] \notin {"insert", "link", "grant"}
        /\ pc[r] = "stageToken" => staged[r] \in {{}, {"user"}}
        /\ pc[r] = "commit" => staged[r] \in {{}, {"user", "token"}}
        /\ pc[r] \notin {"done", "grant"} => r \notin users
        /\ pc[r] # "done" => r \notin tokens /\ answer[r] = "none"

\* An address is held by one user or one open transaction.
AddressHeldOnce ==
    /\ \A u, v \in users : EmailOf[u] = EmailOf[v] => u = v
    /\ \A r \in Reqs : "user" \in staged[r] =>
           /\ \A u \in users : EmailOf[u] # EmailOf[r]
           /\ \A s \in Reqs : "user" \in staged[s] /\ EmailOf[s] = EmailOf[r] => s = r

\* A request past the choice of its account has one, which is stored.
AccountsStand ==
    \A r \in Reqs :
        /\ account[r] # Nobody => account[r] \in users /\ EmailOf[account[r]] = EmailOf[r]
        /\ pc[r] \in {"link", "grant"} \/ answer[r] = "ok" => account[r] # Nobody
        /\ pc[r] = "link" => kind[r] = "google"
        /\ pc[r] = "grant" => kind[r] \in {"google", "register"}
        /\ kind[r] = "register" /\ account[r] # Nobody => account[r] = r
        /\ pc[r] = "grant" /\ kind[r] = "register" => standalone

\* The inductive invariant.
IInv ==
    /\ TypeOK
    /\ WrittenInOrder
    /\ AddressHeldOnce
    /\ AccountsStand
    /\ AllOrNothing
    /\ EventsMatchAccounts

LEMMA InitIInv == Init => IInv
  BY DEF Init, IInv, TypeOK, Await, Told, Fate, WrittenInOrder, AddressHeldOnce,
         AccountsStand, AllOrNothing, EventsMatchAccounts

LEMMA StepIInv == IInv /\ [Next]_vars => IInv'
<1> SUFFICES ASSUME IInv, [Next]_vars PROVE IInv'
  OBVIOUS
<1> USE RegistrationAssumption DEF IInv, TypeOK, Kind, Await, Told, Fate, dbVars
<1>1. ASSUME NEW r \in Reqs, LookUp(r) PROVE IInv'
  <2> USE <1>1 DEF LookUp, Goto, Answer, Hurt, SignIn, Found, Transactional
  <2>1. TypeOK'
    <3>1. pc' \in [Reqs -> Await \cup {"done"}] /\ answer' \in [Reqs -> Told]
      OBVIOUS
    <3>2. account' \in [Reqs -> Reqs \cup {Nobody}]
      OBVIOUS
    <3> QED BY <3>1, <3>2
  <2>2. WrittenInOrder'
    BY <2>1 DEF WrittenInOrder
  <2>3. AddressHeldOnce'
    BY <2>1 DEF AddressHeldOnce
  <2>4. AccountsStand'
    BY <2>1 DEF AccountsStand, WrittenInOrder
  <2>5. AllOrNothing'
    BY <2>1 DEF AllOrNothing, WrittenInOrder
  <2>6. EventsMatchAccounts'
    BY <2>1 DEF EventsMatchAccounts, WrittenInOrder
  <2> QED BY <2>1, <2>2, <2>3, <2>4, <2>5, <2>6
<1>2. ASSUME NEW r \in Reqs, Stage(r) PROVE IInv'
  <2> USE <1>2 DEF Stage, Goto, Answer, Hurt, Write, Found, Taken, Locked,
             LockedBy, Transactional
  <2>1. TypeOK'
    <3>1. pc' \in [Reqs -> Await \cup {"done"}] /\ answer' \in [Reqs -> Told]
      OBVIOUS
    <3>2. staged' \in [Reqs -> SUBSET {"user", "token"}]
      OBVIOUS
    <3> QED BY <3>1, <3>2
  <2>2. WrittenInOrder'
    <3>1. staged[r] = {} /\ staged'[r] \in {{}, {"user"}}
      BY DEF WrittenInOrder
    <3>2. \A s \in Reqs : s # r =>
             staged'[s] = staged[s] /\ pc'[s] = pc[s] /\ answer'[s] = answer[s]
      OBVIOUS
    <3>3. \/ pc'[r] = "insert" /\ standalone /\ kind[r] = "register" /\ staged'[r] = {}
          \/ pc'[r] = "done" /\ staged'[r] = {}
          \/ pc'[r] = "abort" /\ (staged'[r] # {} => ~standalone)
          \/ pc'[r] = "stageToken" /\ ~standalone
      BY <3>1
    <3>4. pc'[r] # "done" => answer'[r] = "none"
      BY DEF WrittenInOrder
    <3>5. Transactional(r) /\ r \notin users /\ r \notin tokens
      BY DEF WrittenInOrder
    <3> QED BY <2>1, <3>1, <3>2, <3>3, <3>4, <3>5 DEF WrittenInOrder
  <2>3. AddressHeldOnce'
    <3>1. \A s \in Reqs : staged'[s] = staged[s] \/ s = r
      OBVIOUS
    <3>2. "user" \in staged'[r] => "user" \in staged[r] \/ (~Found(r) /\ ~Locked(r))
      OBVIOUS
    <3> QED BY <2>1, <3>1, <3>2 DEF AddressHeldOnce, Found, Locked, LockedBy
  <2>4. AccountsStand'
    BY <2>1 DEF AccountsStand, WrittenInOrder
  <2>5. AllOrNothing'
    BY <2>1 DEF AllOrNothing, WrittenInOrder
  <2>6. EventsMatchAccounts'
    BY <2>1 DEF EventsMatchAccounts, WrittenInOrder
  <2> QED BY <2>1, <2>2, <2>3, <2>4, <2>5, <2>6
<1>3. ASSUME NEW r \in Reqs, StageToken(r) PROVE IInv'
  <2> USE <1>3 DEF StageToken, Goto, Hurt, Write, Transactional
  <2>1. TypeOK'
    <3>1. pc' \in [Reqs -> Await \cup {"done"}] /\ answer' \in [Reqs -> Told]
      OBVIOUS
    <3>2. staged' \in [Reqs -> SUBSET {"user", "token"}]
      OBVIOUS
    <3> QED BY <3>1, <3>2
  <2>2. WrittenInOrder'
    BY <2>1 DEF WrittenInOrder
  <2>3. AddressHeldOnce'
    <3>1. \A s \in Reqs : staged'[s] = staged[s] \/ s = r
      OBVIOUS
    <3>2. "user" \in staged'[r] => "user" \in staged[r] \/ (~Found(r) /\ ~Locked(r))
      BY DEF WrittenInOrder
    <3> QED BY <2>1, <3>1, <3>2 DEF AddressHeldOnce, WrittenInOrder, Found, Locked, LockedBy
  <2>4. AccountsStand'
    BY <2>1 DEF AccountsStand, WrittenInOrder
  <2>5. AllOrNothing'
    BY <2>1 DEF AllOrNothing, WrittenInOrder
  <2>6. EventsMatchAccounts'
    BY <2>1 DEF EventsMatchAccounts, WrittenInOrder
  <2> QED BY <2>1, <2>2, <2>3, <2>4, <2>5, <2>6
<1>4. ASSUME NEW r \in Reqs, Commit(r) PROVE IInv'
  <2> USE <1>4 DEF Commit, Answer, Hurt, SignIn, Succeed, Apply, Discard, Transactional
  <2>1. TypeOK'
    <3>1. pc' \in [Reqs -> Await \cup {"done"}] /\ answer' \in [Reqs -> Told]
      OBVIOUS
    <3>2. account' \in [Reqs -> Reqs \cup {Nobody}]
      OBVIOUS
    <3>3. staged' \in [Reqs -> SUBSET {"user", "token"}]
      OBVIOUS
    <3>4. message' \in [Reqs -> [Listeners -> Fate]]
      OBVIOUS
    <3> QED BY <3>1, <3>2, <3>3, <3>4
  <2>2. WrittenInOrder'
    <3>1. pc'[r] = "done" /\ (staged'[r] # {} => staged'[r] = staged[r])
      OBVIOUS
    <3>2. \A s \in Reqs : s # r =>
             /\ staged'[s] = staged[s] /\ pc'[s] = pc[s] /\ answer'[s] = answer[s]
             /\ s \in users' => s \in users
             /\ s \in tokens' => s \in tokens
      OBVIOUS
    <3> QED BY <2>1, <3>1, <3>2 DEF WrittenInOrder
  <2>3. AddressHeldOnce'
    <3>1. \A s \in Reqs : staged'[s] = staged[s] \/ s = r
      OBVIOUS
    <3>2. staged'[r] = {} \/ (staged'[r] = staged[r] /\ users' = users)
      OBVIOUS
    <3>3. users' = users \/ (users' = users \cup {r} /\ "user" \in staged[r])
      OBVIOUS
    <3>4. users' # users => staged'[r] = {}
      OBVIOUS
    <3> QED BY <2>1, <3>1, <3>2, <3>3, <3>4 DEF AddressHeldOnce
  <2>4. AccountsStand'
    BY <2>1 DEF AccountsStand, WrittenInOrder
  <2>5. AllOrNothing'
    BY <2>1 DEF AllOrNothing, WrittenInOrder
  <2>6. EventsMatchAccounts'
    BY <2>1 DEF EventsMatchAccounts, WrittenInOrder, AccountsStand
  <2> QED BY <2>1, <2>2, <2>3, <2>4, <2>5, <2>6
<1>5. ASSUME NEW r \in Reqs, Abort(r) PROVE IInv'
  <2> USE <1>5 DEF Abort, Answer, Hurt, Discard, Transactional
  <2>1. TypeOK'
    OBVIOUS
  <2>2. WrittenInOrder'
    BY <2>1 DEF WrittenInOrder
  <2>3. AddressHeldOnce'
    <3>1. \A s \in Reqs : staged'[s] = staged[s] \/ staged'[s] = {}
      OBVIOUS
    <3> QED BY <3>1 DEF AddressHeldOnce
  <2>4. AccountsStand'
    BY <2>1 DEF AccountsStand, WrittenInOrder
  <2>5. AllOrNothing'
    BY <2>1 DEF AllOrNothing, WrittenInOrder
  <2>6. EventsMatchAccounts'
    BY <2>1 DEF EventsMatchAccounts, WrittenInOrder
  <2> QED BY <2>1, <2>2, <2>3, <2>4, <2>5, <2>6
<1>6. ASSUME NEW r \in Reqs, Expire(r) PROVE IInv'
  <2> USE <1>6 DEF Expire, Hurt, Discard, Transactional
  <2>1. TypeOK'
    OBVIOUS
  <2>2. WrittenInOrder'
    BY <2>1 DEF WrittenInOrder
  <2>3. AddressHeldOnce'
    BY <2>1 DEF AddressHeldOnce
  <2>4. AccountsStand'
    BY <2>1 DEF AccountsStand
  <2>5. AllOrNothing'
    BY <2>1 DEF AllOrNothing
  <2>6. EventsMatchAccounts'
    BY <2>1 DEF EventsMatchAccounts
  <2> QED BY <2>1, <2>2, <2>3, <2>4, <2>5, <2>6
<1>7. ASSUME NEW r \in Reqs, Insert(r) PROVE IInv'
  <2> USE <1>7 DEF Insert, Goto, Answer, Hurt, SignIn, Succeed, Store, Found,
             Taken, Locked, LockedBy, Transactional
  <2>1. TypeOK'
    <3>1. pc' \in [Reqs -> Await \cup {"done"}] /\ answer' \in [Reqs -> Told]
      OBVIOUS
    <3>2. account' \in [Reqs -> Reqs \cup {Nobody}]
      OBVIOUS
    <3>3. message' \in [Reqs -> [Listeners -> Fate]]
      OBVIOUS
    <3>4. users' \subseteq Reqs /\ linked' \subseteq users'
      OBVIOUS
    <3> QED BY <3>1, <3>2, <3>3, <3>4
  <2>2. WrittenInOrder'
    BY <2>1 DEF WrittenInOrder, AccountsStand
  <2>3. AddressHeldOnce'
    BY <2>1 DEF AddressHeldOnce, WrittenInOrder
  <2>4. AccountsStand'
    BY <2>1 DEF AccountsStand, WrittenInOrder
  <2>5. AllOrNothing'
    BY <2>1 DEF AllOrNothing, WrittenInOrder
  <2>6. EventsMatchAccounts'
    BY <2>1 DEF EventsMatchAccounts, WrittenInOrder, AccountsStand
  <2> QED BY <2>1, <2>2, <2>3, <2>4, <2>5, <2>6
<1>8. ASSUME NEW r \in Reqs, Link(r) PROVE IInv'
  <2> USE <1>8 DEF Link, Goto, Answer, Hurt, Transactional
  <2>1. TypeOK'
    <3>1. pc' \in [Reqs -> Await \cup {"done"}] /\ answer' \in [Reqs -> Told]
      OBVIOUS
    <3> QED BY <3>1 DEF AccountsStand
  <2>2. WrittenInOrder'
    BY <2>1 DEF WrittenInOrder
  <2>3. AddressHeldOnce'
    BY <2>1 DEF AddressHeldOnce
  <2>4. AccountsStand'
    BY <2>1 DEF AccountsStand, WrittenInOrder
  <2>5. AllOrNothing'
    BY <2>1 DEF AllOrNothing, WrittenInOrder
  <2>6. EventsMatchAccounts'
    BY <2>1 DEF EventsMatchAccounts, WrittenInOrder
  <2> QED BY <2>1, <2>2, <2>3, <2>4, <2>5, <2>6
<1>9. ASSUME NEW r \in Reqs, Grant(r) PROVE IInv'
  <2> USE <1>9 DEF Grant, Answer, Hurt, Succeed, Transactional
  <2>1. TypeOK'
    <3>1. pc' \in [Reqs -> Await \cup {"done"}] /\ answer' \in [Reqs -> Told]
      OBVIOUS
    <3>2. message' \in [Reqs -> [Listeners -> Fate]]
      OBVIOUS
    <3> QED BY <3>1, <3>2 DEF AccountsStand
  <2>2. WrittenInOrder'
    <3>1. \A s \in Reqs : s # r =>
             pc'[s] = pc[s] /\ answer'[s] = answer[s] /\ (s \in tokens' => s \in tokens)
      OBVIOUS
    <3>2. pc'[r] = "done" /\ staged[r] = {}
      BY DEF WrittenInOrder
    <3> QED BY <2>1, <3>1, <3>2 DEF WrittenInOrder
  <2>3. AddressHeldOnce'
    BY <2>1 DEF AddressHeldOnce
  <2>4. AccountsStand'
    BY <2>1 DEF AccountsStand, WrittenInOrder
  <2>5. AllOrNothing'
    BY <2>1 DEF AllOrNothing, WrittenInOrder, AccountsStand
  <2>6. EventsMatchAccounts'
    BY <2>1 DEF EventsMatchAccounts, WrittenInOrder, AccountsStand
  <2> QED BY <2>1, <2>2, <2>3, <2>4, <2>5, <2>6
<1>10. ASSUME NEW r \in Reqs, Die(r) PROVE IInv'
  <2> USE <1>10 DEF Die, Answer, Hurt, Transactional
  <2>1. TypeOK'
    OBVIOUS
  <2>2. WrittenInOrder'
    <3>1. \A s \in Reqs : s # r => pc'[s] = pc[s] /\ answer'[s] = answer[s]
      OBVIOUS
    <3>2. pc'[r] = "done"
      OBVIOUS
    <3> QED BY <2>1, <3>1, <3>2 DEF WrittenInOrder
  <2>3. AddressHeldOnce'
    BY <2>1 DEF AddressHeldOnce
  <2>4. AccountsStand'
    BY <2>1 DEF AccountsStand, WrittenInOrder
  <2>5. AllOrNothing'
    BY <2>1 DEF AllOrNothing, WrittenInOrder
  <2>6. EventsMatchAccounts'
    BY <2>1 DEF EventsMatchAccounts, WrittenInOrder
  <2> QED BY <2>1, <2>2, <2>3, <2>4, <2>5, <2>6
<1>11. ASSUME NEW r \in Reqs, NEW l \in Listeners, Hear(r, l) PROVE IInv'
  <2> USE <1>11 DEF Hear
  <2>1. TypeOK'
    OBVIOUS
  <2>2. WrittenInOrder'
    BY DEF WrittenInOrder, Transactional
  <2>3. AddressHeldOnce' /\ AccountsStand' /\ AllOrNothing'
    BY DEF AddressHeldOnce, AccountsStand, AllOrNothing
  <2>4. EventsMatchAccounts'
    BY DEF EventsMatchAccounts
  <2> QED BY <2>1, <2>2, <2>3, <2>4
<1>12. CASE UNCHANGED vars
  BY <1>12 DEF vars, WrittenInOrder, AddressHeldOnce, AccountsStand, AllOrNothing,
           EventsMatchAccounts, Transactional
<1> QED BY <1>1, <1>2, <1>3, <1>4, <1>5, <1>6, <1>7, <1>8, <1>9, <1>10, <1>11, <1>12
        DEF Next, Handle

\* Everything the proofs rest on, and the type invariant with it.
THEOREM Invariance == Spec => []IInv
  BY InitIInv, StepIInv, PTL DEF Spec

\* Every reachable state is well typed, whatever the requests, addresses and listeners.
THEOREM TypeCorrect == Spec => []TypeOK
  BY Invariance, PTL DEF IInv

\* Requests that succeed for one address share one stored account.
THEOREM AddressesAreExclusive == Spec => []OneAccountPerAddress
<1>1. IInv => OneAccountPerAddress
  <2> SUFFICES ASSUME IInv, NEW r \in Reqs, NEW s \in Reqs,
                      answer[r] = "ok", answer[s] = "ok", EmailOf[r] = EmailOf[s]
               PROVE  /\ account[r] = account[s] /\ account[r] \in users
                      /\ EmailOf[account[r]] = EmailOf[r]
    BY DEF OneAccountPerAddress
  <2> QED BY DEF IInv, AddressHeldOnce, AccountsStand
<1> QED BY <1>1, Invariance, PTL

\* A registration is stored with its token or not at all.
THEOREM RegistrationsAreWhole == Spec => []AllOrNothing
  BY Invariance, PTL DEF IInv

\* The event goes to every listener, for the accounts that were answered and no other.
THEOREM EventsAreOfAccounts == Spec => []EventsMatchAccounts
  BY Invariance, PTL DEF IInv
=============================================================================
