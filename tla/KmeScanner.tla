----------------------------- MODULE KmeScanner ------------------------------
(***************************************************************************)
(* The KME domain scanner of docker/kme/scanner.py, one per KME container, *)
(* beside the HTTP handlers of the same process.  The scanner and every    *)
(* handler share one threading.Lock, kme_lock: the scanner takes it twice  *)
(* per scan (to clear kme_list and to publish the new one), a handler      *)
(* takes it in before_request() and keeps it until its answer is sent.     *)
(* Between the two sections the scanner calls its peers over HTTP without  *)
(* a timeout, each call being served by a handler of the peer.             *)
(*                                                                         *)
(* Nothing in the repository sets the scanner's stop event, so the loop    *)
(* of start() never ends here.  The 15 s pause is the arbitrary time a     *)
(* scanner may stay at "loop".                                             *)
(***************************************************************************)
EXTENDS Naturals, Sequences

CONSTANTS Kmes,        \* the KME processes
          Saes,        \* SAE clients that call the KMEs' key API
          OtherKmes,   \* OtherKmes[k]: the OTHER_KMES of k, in order
          NoId,        \* stands for a JSON status without a KME_ID
          Free,        \* nobody holds the lock
          NoKme,       \* find_kme() returned None
          MaxCrashes   \* bound: container crashes in a behaviour

Clients == Kmes \cup Saes

ASSUME ScannerAssumption ==
    /\ Kmes \cap Saes = {}
    /\ Free \notin Clients
    /\ NoId \notin Kmes
    /\ OtherKmes \in [Kmes -> Seq(Kmes)]
    /\ \A k \in Kmes : \A i \in DOMAIN OtherKmes[k] : OtherKmes[k][i] # k
    /\ MaxCrashes \in Nat

VARIABLES pc,         \* pc[k]: where k's scanner thread is
          lock,       \* lock[k]: the holder of k's kme_lock; k is the scanner
          kme_list,   \* kme_list[k]: the domain as k publishes it
          fetched,    \* fetched[k]: the statuses collected by this scan
          cursor,     \* cursor[k]: position in OtherKmes[k]
          handlers,   \* handlers[k]: clients with a handler thread at k
          answer,     \* answer[k]: what k's /kme/status returns
          crashes     \* container crashes so far

vars == <<pc, lock, kme_list, fetched, cursor, handlers, answer, crashes>>

PcValues == {"loop", "cleared", "fetch", "await", "merged", "dead", "down"}

\* A status document, JSON without a KME_ID, or something that is no JSON.
Answers == {"status", "noid", "garbage"}

\* What k's list gains from p's status document: p's entry, an entry
\* without a KME_ID, or nothing when the body is not JSON.
Learned(p) ==
    CASE answer[p] = "status"  -> {p}
      [] answer[p] = "noid"    -> {NoId}
      [] answer[p] = "garbage" -> {}

Peers(k) == {OtherKmes[k][i] : i \in DOMAIN OtherKmes[k]}

Peer(k) == OtherKmes[k][cursor[k]]

MorePeers(k) == cursor[k] <= Len(OtherKmes[k])

\* k's scanner is inside a requests.get() that p serves.
Calling(k, p) == pc[k] = "await" /\ Peer(k) = p

\* find_kme() run by a handler of k on the SAE attached to p.
FindKme(k, p) ==
    IF p = k THEN k ELSE IF p \in kme_list[k] THEN p ELSE NoKme

Init ==
    /\ pc = [k \in Kmes |-> "loop"]
    /\ lock = [k \in Kmes |-> Free]
    /\ kme_list = [k \in Kmes |-> {}]
    /\ fetched = [k \in Kmes |-> {}]
    /\ cursor = [k \in Kmes |-> 1]
    /\ handlers = [k \in Kmes |-> {}]
    /\ answer \in [Kmes -> Answers]
    /\ crashes = 0

------------------------------------------------------------------------------
(* Plausible bugs, substituted for the definitions below by the mutants.   *)

ReleaseLockKept(k) ==
    /\ pc[k] = "cleared"
    /\ pc' = [pc EXCEPT ![k] = "fetch"]
    /\ UNCHANGED <<lock, kme_list, fetched, cursor, handlers, answer, crashes>>

BeginScanNotCleared(k) ==
    /\ pc[k] = "loop"
    /\ lock[k] = Free
    /\ lock' = [lock EXCEPT ![k] = k]
    /\ fetched' = [fetched EXCEPT ![k] = {}]
    /\ cursor' = [cursor EXCEPT ![k] = 1]
    /\ pc' = [pc EXCEPT ![k] = "cleared"]
    /\ UNCHANGED <<kme_list, handlers, answer, crashes>>

MergeUnlocked(k) ==
    /\ pc[k] = "fetch" /\ ~MorePeers(k)
    /\ kme_list' = [kme_list EXCEPT ![k] = @ \cup fetched[k]]
    /\ lock' = [lock EXCEPT ![k] = k]
    /\ pc' = [pc EXCEPT ![k] = "merged"]
    /\ UNCHANGED <<fetched, cursor, handlers, answer, crashes>>

\* list.append(fetched) for list.extend(fetched).
MergeAppended(k) ==
    /\ pc[k] = "fetch" /\ ~MorePeers(k)
    /\ lock[k] = Free
    /\ lock' = [lock EXCEPT ![k] = k]
    /\ kme_list' = [kme_list EXCEPT ![k] = @ \cup {fetched[k]}]
    /\ pc' = [pc EXCEPT ![k] = "merged"]
    /\ UNCHANGED <<fetched, cursor, handlers, answer, crashes>>

\* A handler whose client is gone ends without releasing the lock.
LeaveLocked(p, c) ==
    /\ lock[p] = c /\ c \in handlers[p]
    /\ lock' = [lock EXCEPT ![p] = IF c \in Kmes /\ ~Calling(c, p) THEN c ELSE Free]
    /\ handlers' = [handlers EXCEPT ![p] = @ \ {c}]
    /\ IF c \in Kmes /\ Calling(c, p)
       THEN /\ fetched' = [fetched EXCEPT ![c] = @ \cup Learned(p)]
            /\ cursor' = [cursor EXCEPT ![c] = @ + 1]
            /\ pc' = [pc EXCEPT ![c] = "fetch"]
       ELSE UNCHANGED <<fetched, cursor, pc>>
    /\ UNCHANGED <<kme_list, answer, crashes>>

\* The status goes straight into the published list.
LeaveUnstaged(p, c) ==
    /\ lock[p] = c
    /\ lock' = [lock EXCEPT ![p] = Free]
    /\ handlers' = [handlers EXCEPT ![p] = @ \ {c}]
    /\ IF c \in Kmes /\ Calling(c, p)
       THEN /\ kme_list' = [kme_list EXCEPT ![c] = @ \cup Learned(p)]
            /\ fetched' = [fetched EXCEPT ![c] = @ \cup Learned(p)]
            /\ cursor' = [cursor EXCEPT ![c] = @ + 1]
            /\ pc' = [pc EXCEPT ![c] = "fetch"]
       ELSE UNCHANGED <<kme_list, fetched, cursor, pc>>
    /\ UNCHANGED <<answer, crashes>>

\* A failed request ends the scan without publishing.
RequestFailsGivesUp(k) ==
    /\ MorePeers(k)
    /\ \/ pc[k] = "fetch" /\ pc[Peer(k)] = "down"
       \/ pc[k] = "await" /\ k \notin handlers[Peer(k)]
    /\ pc' = [pc EXCEPT ![k] = "dead"]
    /\ UNCHANGED <<lock, kme_list, fetched, cursor, handlers, answer, crashes>>

------------------------------------------------------------------------------
(* The scanner thread, Scanner.start().                                    *)

\* Take kme_lock and clear the list.
BeginScan(k) ==
    /\ pc[k] = "loop"
    /\ lock[k] = Free
    /\ lock' = [lock EXCEPT ![k] = k]
    /\ kme_list' = [kme_list EXCEPT ![k] = {}]
    /\ fetched' = [fetched EXCEPT ![k] = {}]
    /\ cursor' = [cursor EXCEPT ![k] = 1]
    /\ pc' = [pc EXCEPT ![k] = "cleared"]
    /\ UNCHANGED <<handlers, answer, crashes>>

\* Give the lock back before the first HTTP call.
ReleaseLock(k) ==
    /\ pc[k] = "cleared"
    /\ lock' = [lock EXCEPT ![k] = Free]
    /\ pc' = [pc EXCEPT ![k] = "fetch"]
    /\ UNCHANGED <<kme_list, fetched, cursor, handlers, answer, crashes>>

\* requests.get() reaches the peer, whose server starts a handler thread.
\* Bound: one handler at a time per client and server.
SendRequest(k) ==
    /\ pc[k] = "fetch" /\ MorePeers(k)
    /\ pc[Peer(k)] # "down"
    /\ k \notin handlers[Peer(k)]
    /\ handlers' = [handlers EXCEPT ![Peer(k)] = @ \cup {k}]
    /\ pc' = [pc EXCEPT ![k] = "await"]
    /\ UNCHANGED <<lock, kme_list, fetched, cursor, answer, crashes>>

\* RequestException: the peer is down, or went down with the request.
RequestFails(k) ==
    /\ MorePeers(k)
    /\ \/ pc[k] = "fetch" /\ pc[Peer(k)] = "down"
       \/ pc[k] = "await" /\ k \notin handlers[Peer(k)]
    /\ cursor' = [cursor EXCEPT ![k] = @ + 1]
    /\ pc' = [pc EXCEPT ![k] = "fetch"]
    /\ UNCHANGED <<lock, kme_list, fetched, handlers, answer, crashes>>

\* Take kme_lock again and publish what the scan collected.
Merge(k) ==
    /\ pc[k] = "fetch" /\ ~MorePeers(k)
    /\ lock[k] = Free
    /\ lock' = [lock EXCEPT ![k] = k]
    /\ kme_list' = [kme_list EXCEPT ![k] = @ \cup fetched[k]]
    /\ pc' = [pc EXCEPT ![k] = "merged"]
    /\ UNCHANGED <<fetched, cursor, handlers, answer, crashes>>

\* Compare with the old list and release.  An entry without a KME_ID
\* raises KeyError here: the thread dies and nobody releases the lock.
FinishScan(k) ==
    /\ pc[k] = "merged"
    /\ IF NoId \in kme_list[k]
       THEN /\ pc' = [pc EXCEPT ![k] = "dead"]
            /\ UNCHANGED lock
       ELSE /\ pc' = [pc EXCEPT ![k] = "loop"]
            /\ lock' = [lock EXCEPT ![k] = Free]
    /\ UNCHANGED <<kme_list, fetched, cursor, handlers, answer, crashes>>

------------------------------------------------------------------------------
(* The HTTP server of the simulator the scanner is installed into.         *)

\* An SAE calls the key API of k: a handler thread starts.
SaeRequest(s, k) ==
    /\ pc[k] # "down"
    /\ \A j \in Kmes : s \notin handlers[j]
    /\ handlers' = [handlers EXCEPT ![k] = @ \cup {s}]
    /\ UNCHANGED <<pc, lock, kme_list, fetched, cursor, answer, crashes>>

\* before_request(): the handler of p for client c gets p's kme_lock.
Enter(p, c) ==
    /\ c \in handlers[p]
    /\ lock[p] = Free
    /\ lock' = [lock EXCEPT ![p] = c]
    /\ UNCHANGED <<pc, kme_list, fetched, cursor, handlers, answer, crashes>>

\* The handler releases the lock and answers; a scanner that still waits
\* for the answer stages it and turns to its next peer.
Leave(p, c) ==
    /\ lock[p] = c
    /\ lock' = [lock EXCEPT ![p] = Free]
    /\ handlers' = [handlers EXCEPT ![p] = @ \ {c}]
    /\ IF c \in Kmes /\ Calling(c, p)
       THEN /\ fetched' = [fetched EXCEPT ![c] = @ \cup Learned(p)]
            /\ cursor' = [cursor EXCEPT ![c] = @ + 1]
            /\ pc' = [pc EXCEPT ![c] = "fetch"]
       ELSE UNCHANGED <<fetched, cursor, pc>>
    /\ UNCHANGED <<kme_list, answer, crashes>>

\* The container of k dies with its threads; handlers that k's requests
\* started at other KMEs live on.
Crash(k) ==
    /\ pc[k] # "down"
    /\ crashes < MaxCrashes
    /\ crashes' = crashes + 1
    /\ pc' = [pc EXCEPT ![k] = "down"]
    /\ lock' = [lock EXCEPT ![k] = Free]
    /\ kme_list' = [kme_list EXCEPT ![k] = {}]
    /\ fetched' = [fetched EXCEPT ![k] = {}]
    /\ cursor' = [cursor EXCEPT ![k] = 1]
    /\ handlers' = [handlers EXCEPT ![k] = {}]
    /\ UNCHANGED answer

Restart(k) ==
    /\ pc[k] = "down"
    /\ pc' = [pc EXCEPT ![k] = "loop"]
    /\ UNCHANGED <<lock, kme_list, fetched, cursor, handlers, answer, crashes>>

------------------------------------------------------------------------------
Scan(k) ==
    \/ BeginScan(k) \/ ReleaseLock(k) \/ SendRequest(k)
    \/ RequestFails(k) \/ Merge(k) \/ FinishScan(k)

Serve(k) == \E c \in Clients \ {k} : Enter(k, c) \/ Leave(k, c)

Next ==
    \E k \in Kmes :
        \/ Scan(k)
        \/ Serve(k)
        \/ \E s \in Saes : SaeRequest(s, k)
        \/ Crash(k)
        \/ Restart(k)

\* Threads run.  Strong fairness where a thread waits for a lock that its
\* rivals release and, the scanners pausing 15 s per scan, leave free.
Fairness ==
    \A k \in Kmes :
        /\ SF_vars(BeginScan(k)) /\ SF_vars(Merge(k))
        /\ WF_vars(ReleaseLock(k)) /\ WF_vars(FinishScan(k))
        /\ WF_vars(SendRequest(k)) /\ WF_vars(RequestFails(k))
        /\ \A c \in Clients \ {k} : SF_vars(Enter(k, c)) /\ WF_vars(Leave(k, c))

Spec == Init /\ [][Next]_vars

FairSpec == Spec /\ Fairness
------------------------------------------------------------------------------
TypeOK ==
    /\ pc \in [Kmes -> PcValues]
    /\ lock \in [Kmes -> Clients \cup {Free}]
    /\ kme_list \in [Kmes -> SUBSET (Kmes \cup {NoId})]
    /\ fetched \in [Kmes -> SUBSET (Kmes \cup {NoId})]
    /\ cursor \in [Kmes -> Nat \ {0}]
    /\ handlers \in [Kmes -> SUBSET Clients]
    /\ answer \in [Kmes -> Answers]
    /\ crashes \in Nat

InSection(k) == pc[k] \in {"cleared", "merged", "dead"}

\* kme_lock has one holder and it is one of the threads that run in a
\* section: the scanner of k holds it in its two sections only (and for
\* ever once it died there), a handler only while it serves a request.
LockInv ==
    \A k \in Kmes :
        /\ lock[k] = k <=> InSection(k)
        /\ lock[k] \notin {k, Free} => lock[k] \in handlers[k]
        /\ k \notin handlers[k]

\* Whoever holds a kme_lock is not waiting for anybody: no scanner is in
\* requests.get(), or about to call it, with its own lock in hand, so the
\* mutual wait of two scanners and two handlers cannot close.
NoLockAcrossHttp ==
    \A k \in Kmes : pc[k] \in {"fetch", "await"} => lock[k] # k

\* A handler of k sees an unknown domain or the whole result of the last
\* scan, never a list that some of the peers are still missing from.
HandlersSeeWholeScan ==
    \A k \in Kmes :
        lock[k] \notin {k, Free} =>
            \/ kme_list[k] = {}
            \/ pc[k] = "loop" /\ ~MorePeers(k) /\ kme_list[k] = fetched[k]

\* The list does not change while a handler of k that is not killed holds
\* the lock: two lookups of one request agree.
StableUnderHandler ==
    [][\A k \in Kmes : lock[k] \notin {k, Free} /\ pc'[k] # "down"
                          => kme_list'[k] = kme_list[k]]_vars

\* The published list is that of an atomic directory.
Domain == INSTANCE KmeDomain WITH
    Statuses <- Kmes \cup {NoId}, NoReader <- Free, domain <- kme_list,
    reader <- [k \in Kmes |-> IF lock[k] = k THEN Free ELSE lock[k]]

ImplementsDomain == Domain!Spec

\* Peers whose scanners cannot die: none of their peers omits its KME_ID.
Sane(k) == \A p \in Peers(k) : answer[p] # "noid"

\* Every request to a KME with sane peers is answered, whatever becomes of
\* the other KMEs: a peer whose scanner died with its lock held, or one
\* that never answers k's own scan, does not stop k's key API.
SaeServed ==
    \A k \in Kmes : Sane(k) => \A s \in Saes :
        s \in handlers[k] ~> s \notin handlers[k]

\* A peer that is up keeps coming back into the domain, although every
\* scan forgets it first, as long as no scanner can die.
PeersRediscovered ==
    \A k \in Kmes : \A p \in Peers(k) :
        (\A q \in Kmes : Sane(q)) /\ answer[p] = "status" =>
            []<>(FindKme(k, p) = p \/ "down" \in {pc[k], pc[p]})

\* A peer that stays down is dropped from the domain.
LostPeerForgotten ==
    \A k \in Kmes : \A p \in Peers(k) : (\A q \in Kmes : Sane(q)) =>
        (pc[p] = "down" ~> FindKme(k, p) = NoKme \/ pc[p] # "down")
==============================================================================
