-------------------------- MODULE KmeScannerProofs ---------------------------
(***************************************************************************)
(* Proofs about KmeScanner for any number of KMEs, SAE clients, peers per  *)
(* KME and crashes, and for every kind of answer a peer may give.          *)
(***************************************************************************)
EXTENDS KmeScanner, TLAPS

\* The current peer of a scanner that has one left is another KME.
LEMMA PeerIsKme ==
    ASSUME TypeOK, NEW k \in Kmes, MorePeers(k)
    PROVE  Peer(k) \in Kmes /\ Peer(k) # k
<1>1. cursor[k] \in DOMAIN OtherKmes[k]
  BY ScannerAssumption DEF TypeOK, MorePeers
<1>2. QED
  BY <1>1, ScannerAssumption DEF Peer

\* What a status document adds to a list is a KME or an entry without id.
LEMMA LearnedType ==
    ASSUME TypeOK, NEW p \in Kmes
    PROVE  Learned(p) \subseteq Kmes \cup {NoId}
BY DEF TypeOK, Learned, Answers

\* Type correctness, step by step.
LEMMA TypeOKStep == TypeOK /\ [Next]_vars => TypeOK'
<1> SUFFICES ASSUME TypeOK, [Next]_vars
             PROVE  TypeOK'
  OBVIOUS
<1> USE DEF TypeOK, PcValues
<1>1. ASSUME NEW k \in Kmes, BeginScan(k)
      PROVE  TypeOK'
  BY <1>1 DEF BeginScan, Clients
<1>2. ASSUME NEW k \in Kmes, ReleaseLock(k)
      PROVE  TypeOK'
  BY <1>2 DEF ReleaseLock
<1>3. ASSUME NEW k \in Kmes, SendRequest(k)
      PROVE  TypeOK'
  BY <1>3 DEF SendRequest, Clients
<1>4. ASSUME NEW k \in Kmes, RequestFails(k)
      PROVE  TypeOK'
  BY <1>4 DEF RequestFails
<1>5. ASSUME NEW k \in Kmes, Merge(k)
      PROVE  TypeOK'
  BY <1>5 DEF Merge, Clients
<1>6. ASSUME NEW k \in Kmes, FinishScan(k)
      PROVE  TypeOK'
  BY <1>6 DEF FinishScan
<1>7. ASSUME NEW k \in Kmes, NEW c \in Clients \ {k}, Enter(k, c)
      PROVE  TypeOK'
  BY <1>7 DEF Enter
<1>8. ASSUME NEW k \in Kmes, NEW c \in Clients \ {k}, Leave(k, c)
      PROVE  TypeOK'
  <2>1. CASE c \in Kmes /\ Calling(c, k)
    BY <1>8, <2>1, LearnedType DEF Leave
  <2>2. CASE ~(c \in Kmes /\ Calling(c, k))
    BY <1>8, <2>2 DEF Leave
  <2>3. QED
    BY <2>1, <2>2
<1>9. ASSUME NEW k \in Kmes, NEW s \in Saes, SaeRequest(s, k)
      PROVE  TypeOK'
  BY <1>9 DEF SaeRequest, Clients
<1>10. ASSUME NEW k \in Kmes, Crash(k)
       PROVE  TypeOK'
  BY <1>10 DEF Crash
<1>11. ASSUME NEW k \in Kmes, Restart(k)
       PROVE  TypeOK'
  BY <1>11 DEF Restart
<1>12. CASE UNCHANGED vars
  BY <1>12 DEF vars
<1>13. QED
  BY <1>1, <1>2, <1>3, <1>4, <1>5, <1>6, <1>7, <1>8, <1>9, <1>10, <1>11,
     <1>12 DEF Next, Scan, Serve

\* Every variable keeps its type, whatever the peers answer and whichever
\* containers crash.
THEOREM TypeCorrect == Spec => []TypeOK
<1>1. Init => TypeOK
  BY DEF Init, TypeOK, PcValues, Clients
<1>2. QED
  BY <1>1, TypeOKStep, PTL DEF Spec

------------------------------------------------------------------------------
(* The lock.                                                               *)

\* No step takes kme_lock from its holder or gives it to a second one.
LEMMA LockInvStep == TypeOK /\ LockInv /\ [Next]_vars => LockInv'
<1> SUFFICES ASSUME TypeOK, LockInv, [Next]_vars
             PROVE  LockInv'
  OBVIOUS
<1> USE ScannerAssumption DEF LockInv, InSection, TypeOK, Clients
<1>1. ASSUME NEW k \in Kmes, BeginScan(k)
      PROVE  LockInv'
  BY <1>1 DEF BeginScan
<1>2. ASSUME NEW k \in Kmes, ReleaseLock(k)
      PROVE  LockInv'
  BY <1>2 DEF ReleaseLock
<1>3. ASSUME NEW k \in Kmes, SendRequest(k)
      PROVE  LockInv'
  <2>1. Peer(k) \in Kmes /\ Peer(k) # k
    BY <1>3, PeerIsKme DEF SendRequest
  <2>2. QED
    BY <1>3, <2>1 DEF SendRequest
<1>4. ASSUME NEW k \in Kmes, RequestFails(k)
      PROVE  LockInv'
  BY <1>4 DEF RequestFails
<1>5. ASSUME NEW k \in Kmes, Merge(k)
      PROVE  LockInv'
  BY <1>5 DEF Merge
<1>6. ASSUME NEW k \in Kmes, FinishScan(k)
      PROVE  LockInv'
  <2>1. CASE NoId \in kme_list[k]
    BY <1>6, <2>1 DEF FinishScan
  <2>2. CASE NoId \notin kme_list[k]
    <3>1. /\ lock'[k] = Free /\ pc'[k] = "loop" /\ Free # k
          /\ handlers' = handlers
      BY <1>6, <2>2 DEF FinishScan
    <3>2. \A j \in Kmes \ {k} : lock'[j] = lock[j] /\ pc'[j] = pc[j]
      BY <1>6, <2>2 DEF FinishScan
    <3>3. SUFFICES ASSUME NEW j \in Kmes
                   PROVE  /\ lock'[j] = j <=> pc'[j] \in {"cleared", "merged", "dead"}
                          /\ lock'[j] \notin {j, Free} => lock'[j] \in handlers'[j]
                          /\ j \notin handlers'[j]
      OBVIOUS
    <3>4. CASE j = k
      BY <3>1, <3>4
    <3>5. CASE j # k
      BY <3>1, <3>2, <3>5
    <3>6. QED
      BY <3>4, <3>5
  <2>3. QED
    BY <2>1, <2>2
<1>7. ASSUME NEW k \in Kmes, NEW c \in Clients \ {k}, Enter(k, c)
      PROVE  LockInv'
  BY <1>7 DEF Enter
<1>8. ASSUME NEW k \in Kmes, NEW c \in Clients \ {k}, Leave(k, c)
      PROVE  LockInv'
  BY <1>8 DEF Leave, Calling
<1>9. ASSUME NEW k \in Kmes, NEW s \in Saes, SaeRequest(s, k)
      PROVE  LockInv'
  BY <1>9 DEF SaeRequest
<1>10. ASSUME NEW k \in Kmes, Crash(k)
       PROVE  LockInv'
  BY <1>10 DEF Crash
<1>11. ASSUME NEW k \in Kmes, Restart(k)
       PROVE  LockInv'
  BY <1>11 DEF Restart
<1>12. CASE UNCHANGED vars
  BY <1>12 DEF vars
<1>13. QED
  BY <1>1, <1>2, <1>3, <1>4, <1>5, <1>6, <1>7, <1>8, <1>9, <1>10, <1>11,
     <1>12 DEF Next, Scan, Serve

\* kme_lock has one holder, which is in one of the sections it guards.
THEOREM LockIsHeldInSections == Spec => []LockInv
<1>1. Init => LockInv
  <2>1. \A k \in Kmes : Free # k
    BY ScannerAssumption DEF Clients
  <2>2. QED
    BY <2>1 DEF Init, LockInv, InSection
<1>2. QED
  BY <1>1, LockInvStep, TypeCorrect, PTL DEF Spec

\* No scanner calls a peer with its own kme_lock in hand: the fix that
\* scanner.py exists for.
THEOREM NoLockAcrossHttpCalls == Spec => []NoLockAcrossHttp
<1>1. LockInv => NoLockAcrossHttp
  BY DEF LockInv, InSection, NoLockAcrossHttp
<1>2. QED
  BY <1>1, LockIsHeldInSections, PTL

------------------------------------------------------------------------------
(* The published list.                                                     *)

\* What every scanner step keeps true of the list: empty from the clearing
\* to the publication, and from then on exactly what the scan collected.
ListInv ==
    \A k \in Kmes :
        /\ pc[k] \in {"cleared", "fetch", "await", "down"} => kme_list[k] = {}
        /\ pc[k] \in {"loop", "merged", "dead", "down"} => kme_list[k] = fetched[k]
        /\ pc[k] = "merged" => ~MorePeers(k)
        /\ pc[k] = "loop" => kme_list[k] = {} \/ ~MorePeers(k)

\* The strengthened list invariant is inductive.
LEMMA ListInvStep == TypeOK /\ ListInv /\ [Next]_vars => ListInv'
<1> SUFFICES ASSUME TypeOK, ListInv, [Next]_vars
             PROVE  ListInv'
  OBVIOUS
<1> USE DEF ListInv, TypeOK, MorePeers
<1>1. ASSUME NEW k \in Kmes, BeginScan(k)
      PROVE  ListInv'
  BY <1>1 DEF BeginScan
<1>2. ASSUME NEW k \in Kmes, ReleaseLock(k)
      PROVE  ListInv'
  BY <1>2 DEF ReleaseLock
<1>3. ASSUME NEW k \in Kmes, SendRequest(k)
      PROVE  ListInv'
  BY <1>3 DEF SendRequest
<1>4. ASSUME NEW k \in Kmes, RequestFails(k)
      PROVE  ListInv'
  BY <1>4 DEF RequestFails
<1>5. ASSUME NEW k \in Kmes, Merge(k)
      PROVE  ListInv'
  BY <1>5 DEF Merge
<1>6. ASSUME NEW k \in Kmes, FinishScan(k)
      PROVE  ListInv'
  BY <1>6 DEF FinishScan
<1>7. ASSUME NEW k \in Kmes, NEW c \in Clients \ {k}, Enter(k, c)
      PROVE  ListInv'
  BY <1>7 DEF Enter
<1>8. ASSUME NEW k \in Kmes, NEW c \in Clients \ {k}, Leave(k, c)
      PROVE  ListInv'
  <2>1. CASE c \in Kmes /\ Calling(c, k)
    BY <1>8, <2>1 DEF Leave, Calling
  <2>2. CASE ~(c \in Kmes /\ Calling(c, k))
    BY <1>8, <2>2 DEF Leave
  <2>3. QED
    BY <2>1, <2>2
<1>9. ASSUME NEW k \in Kmes, NEW s \in Saes, SaeRequest(s, k)
      PROVE  ListInv'
  BY <1>9 DEF SaeRequest
<1>10. ASSUME NEW k \in Kmes, Crash(k)
       PROVE  ListInv'
  BY <1>10 DEF Crash
<1>11. ASSUME NEW k \in Kmes, Restart(k)
       PROVE  ListInv'
  BY <1>11 DEF Restart
<1>12. CASE UNCHANGED vars
  BY <1>12 DEF vars
<1>13. QED
  BY <1>1, <1>2, <1>3, <1>4, <1>5, <1>6, <1>7, <1>8, <1>9, <1>10, <1>11,
     <1>12 DEF Next, Scan, Serve

\* It therefore holds in every reachable state.
LEMMA ListIsStaged == Spec => []ListInv
<1>1. Init => ListInv
  BY DEF Init, ListInv
<1>2. QED
  BY <1>1, ListInvStep, TypeCorrect, PTL DEF Spec

\* A handler sees either no domain or the whole result of the last scan.
THEOREM HandlersSeeWholeScans == Spec => []HandlersSeeWholeScan
<1>1. TypeOK /\ LockInv /\ ListInv => HandlersSeeWholeScan
  BY DEF TypeOK, PcValues, LockInv, InSection, ListInv, HandlersSeeWholeScan
<1>2. QED
  BY <1>1, TypeCorrect, LockIsHeldInSections, ListIsStaged, PTL

------------------------------------------------------------------------------
(* Refinement: the scanner and its handlers implement KmeDomain.           *)

\* Every step is a step of the directory or leaves it as it is.
LEMMA DomainStep ==
    ASSUME TypeOK, LockInv, ListInv, [Next]_vars
    PROVE  [Domain!Next]_(Domain!vars)
<1> DEFINE dom == kme_list
           rdr == [k \in Kmes |-> IF lock[k] = k THEN Free ELSE lock[k]]
<1> USE ScannerAssumption DEF TypeOK, Clients
<1>a. Kmes \subseteq Clients /\ Free \notin Kmes
  OBVIOUS
<1>1. ASSUME NEW k \in Kmes, BeginScan(k)
      PROVE  Domain!Forget(k)
  BY <1>1 DEF BeginScan, Domain!Forget
<1>2. ASSUME NEW k \in Kmes, ReleaseLock(k)
      PROVE  UNCHANGED <<dom, rdr>>
  BY <1>2 DEF ReleaseLock, LockInv, InSection
<1>3. ASSUME NEW k \in Kmes, SendRequest(k)
      PROVE  UNCHANGED <<dom, rdr>>
  BY <1>3 DEF SendRequest
<1>4. ASSUME NEW k \in Kmes, RequestFails(k)
      PROVE  UNCHANGED <<dom, rdr>>
  BY <1>4 DEF RequestFails
<1>5. ASSUME NEW k \in Kmes, Merge(k)
      PROVE  \E S \in SUBSET (Kmes \cup {NoId}) : Domain!Learn(k, S)
  <2>1. kme_list[k] = {}
    BY <1>5 DEF Merge, ListInv
  <2>2. Domain!Learn(k, fetched[k])
    BY <1>5, <2>1 DEF Merge, Domain!Learn
  <2>3. QED
    BY <2>2
<1>6. ASSUME NEW k \in Kmes, FinishScan(k)
      PROVE  UNCHANGED <<dom, rdr>>
  <2>1. lock[k] = k
    BY <1>6 DEF FinishScan, LockInv, InSection
  <2>2. QED
    BY <1>6, <2>1 DEF FinishScan
<1>7. ASSUME NEW k \in Kmes, NEW c \in Clients \ {k}, Enter(k, c)
      PROVE  Domain!StartLookup(k, c)
  BY <1>7 DEF Enter, Domain!StartLookup
<1>8. ASSUME NEW k \in Kmes, NEW c \in Clients \ {k}, Leave(k, c)
      PROVE  Domain!EndLookup(k)
  BY <1>8 DEF Leave, Domain!EndLookup
<1>9. ASSUME NEW k \in Kmes, NEW s \in Saes, SaeRequest(s, k)
      PROVE  UNCHANGED <<dom, rdr>>
  BY <1>9 DEF SaeRequest
<1>10. ASSUME NEW k \in Kmes, Crash(k)
       PROVE  Domain!Fail(k)
  BY <1>10 DEF Crash, Domain!Fail
<1>11. ASSUME NEW k \in Kmes, Restart(k)
       PROVE  UNCHANGED <<dom, rdr>>
  BY <1>11 DEF Restart
<1>12. CASE UNCHANGED vars
  BY <1>12 DEF vars, Domain!vars
<1>13. CASE Next
  <2>1. PICK k \in Kmes :
            \/ Scan(k) \/ Serve(k) \/ \E s \in Saes : SaeRequest(s, k)
            \/ Crash(k) \/ Restart(k)
    BY <1>13 DEF Next
  <2>2. CASE Scan(k)
    BY <2>2, <1>1, <1>2, <1>3, <1>4, <1>5, <1>6
       DEF Scan, Domain!Next, Domain!vars
  <2>3. CASE Serve(k)
    BY <2>3, <1>7, <1>8 DEF Serve, Domain!Next
  <2>4. CASE \E s \in Saes : SaeRequest(s, k)
    BY <2>4, <1>9 DEF Domain!vars
  <2>5. CASE Crash(k)
    BY <2>5, <1>10 DEF Domain!Next
  <2>6. CASE Restart(k)
    BY <2>6, <1>11 DEF Domain!vars
  <2>7. QED
    BY <2>1, <2>2, <2>3, <2>4, <2>5, <2>6
<1>14. QED
  BY <1>12, <1>13

\* What a KME publishes is an atomic directory: KmeDomain.
THEOREM ScannerImplementsDomain == Spec => ImplementsDomain
<1>1. Init => Domain!Init
  BY ScannerAssumption DEF Init, Domain!Init, Clients
<1>2. TypeOK /\ LockInv /\ ListInv /\ [Next]_vars => [Domain!Next]_(Domain!vars)
  BY DomainStep
<1>3. QED
  BY <1>1, <1>2, TypeCorrect, LockIsHeldInSections, ListIsStaged, PTL
     DEF Spec, Domain!Spec, ImplementsDomain

\* No lookup sees the list change under it, unless its process dies.
THEOREM ListStableUnderHandler == Spec => StableUnderHandler
<1>1. TypeOK /\ [Next]_vars =>
          \A k \in Kmes : lock[k] \notin {k, Free} /\ pc'[k] # "down"
                            => kme_list'[k] = kme_list[k]
  BY DEF TypeOK, Next, Scan, Serve, vars, BeginScan, ReleaseLock, SendRequest,
         RequestFails, Merge, FinishScan, Enter, Leave, SaeRequest, Crash,
         Restart
<1>2. QED
  BY <1>1, TypeCorrect, PTL DEF Spec, StableUnderHandler
==============================================================================
