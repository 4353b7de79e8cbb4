------------------------- MODULE SyslogDeliveryProofs ------------------------
(***************************************************************************)
(* Proofs about SyslogDelivery for any order of the families, any number   *)
(* of invocations and of CLI calls that fail.                              *)
(***************************************************************************)
EXTENDS SyslogDelivery, TLAPS

\* A probe belongs to an invocation; one that goes on to the capture has not
\* used up its attempts.
AttemptInv ==
    /\ pc # "idle" => inv > 0
    /\ pc \in {"capture", "remove", "add", "decode", "nothing"} => attempt < 2

\* The threads of probes to come do not exist yet.
LaterOff == \A i \in DOMAIN Families : i > at => watcher[Families[i]] = "off"

\* What the thread of the running probe caught was on the wire during it.  A
\* thread of an earlier probe may catch it as well, which nobody asks.
CaughtInv == watcher[Family] \in {"packet", "event"} => Family \in wire

\* Hosts are missing only between the two calls of the bounce, or after an
\* invocation that failed between them.
HostsInv == hosts = FamilySet \/ pc \in {"add", "idle"}

IInv ==
    TypeOK /\ AttemptInv /\ LaterOff /\ CaughtInv /\ HostsInv /\ NoFalseAlarm

\* Positions name families, each another one.
LEMMA FamilyNames ==
    /\ DOMAIN Families = 1..Len(Families) /\ Len(Families) \in Nat \ {0}
    /\ \A i \in DOMAIN Families : Families[i] \in FamilySet
    /\ \A f \in FamilySet : \E i \in DOMAIN Families : Families[i] = f
    /\ \A i, j \in DOMAIN Families : Families[i] = Families[j] => i = j
  BY DeliveryAssumption DEF FamilySet

LEMMA InitIInv == Init => IInv
<1> SUFFICES ASSUME Init
             PROVE  IInv
  OBVIOUS
<1>1. TypeOK
  BY FamilyNames, DeliveryAssumption DEF Init, TypeOK, Verdicts, WatcherStates
<1>2. Family \in FamilySet
  BY FamilyNames DEF Init, Family
<1>3. QED
  BY <1>1, <1>2, FamilyNames DEF Init, IInv, AttemptInv, LaterOff, CaughtInv, HostsInv,
     NoFalseAlarm

\* pkill invents no packet and starts no thread.
LEMMA Pkill ==
    ASSUME NEW w \in [FamilySet -> WatcherStates]
    PROVE  /\ PkillTcpdump(w) \in [FamilySet -> WatcherStates]
           /\ \A f \in FamilySet : w[f] # "capturing" => PkillTcpdump(w)[f] = w[f]
           /\ \A f \in FamilySet : PkillTcpdump(w)[f] \in {"packet", "event"} => w[f] = PkillTcpdump(w)[f]
  BY DEF PkillTcpdump, WatcherStates

\* Every step keeps the invariant.
LEMMA IInvStep ==
    ASSUME IInv, [Next]_vars
    PROVE  IInv'
<1> USE FamilyNames, DeliveryAssumption
    DEF IInv, TypeOK, AttemptInv, LaterOff, CaughtInv, HostsInv,
        NoFalseAlarm, Family, msgs
<1>0. Family \in FamilySet
  OBVIOUS
<1>w. /\ PkillTcpdump(watcher) \in [FamilySet -> WatcherStates]
      /\ \A f \in FamilySet : watcher[f] # "capturing" => PkillTcpdump(watcher)[f] = watcher[f]
      /\ \A f \in FamilySet : PkillTcpdump(watcher)[f] \in {"packet", "event"} =>
            watcher[f] = PkillTcpdump(watcher)[f]
  BY Pkill
<1>1. CASE Invoke
  BY <1>1 DEF Invoke, ConfigOk, Verdicts, WatcherStates
<1>2. CASE StartWatcher
  <2>1. /\ pc' = "send" /\ watcher' = [PkillTcpdump(watcher) EXCEPT ![Family] = "starting"]
        /\ UNCHANGED <<inv, at, verdict, pending, log, wire, hosts, attempt, cliFailures>>
    BY <1>2 DEF StartWatcher
  <2>2. watcher' \in [FamilySet -> WatcherStates] /\ watcher'[Family] = "starting"
    BY <2>1, <1>0, <1>w DEF WatcherStates
  <2>3. \A i \in DOMAIN Families : i > at => watcher'[Families[i]] = "off"
    BY <2>1, <1>0, <1>w
  <2>4. QED
    BY <1>2, <2>1, <2>2, <2>3 DEF StartWatcher
<1>3. CASE SendLog
  <2>1. inv \in 1..MaxInvocations
    BY <1>3 DEF SendLog
  <2>2. pending' \subseteq Messages \X Transports
    <3>1. Message \in Messages
      BY <2>1, <1>0 DEF Messages, Message
    <3>2. PICK T \in SUBSET Transports : pending' = pending \cup {<<Message, t>> : t \in T}
      BY <1>3 DEF SendLog
    <3>3. {<<Message, t>> : t \in T} \subseteq Messages \X Transports
      BY <3>1
    <3>4. QED
      BY <3>2, <3>3
  <2>3. QED
    BY <1>3, <2>2 DEF SendLog
<1>4. CASE PollEvent
  <2>1. CASE EventSet
    <3>1. /\ verdict' = [verdict EXCEPT ![Family] = "cleartext"] /\ pc' = "idle"
          /\ watcher' = PkillTcpdump(watcher) /\ Family \in wire
      BY <1>4, <2>1 DEF PollEvent, EventSet, Raise
    <3>2. UNCHANGED <<inv, at, pending, log, wire, hosts, attempt, cliFailures>>
      BY <1>4 DEF PollEvent
    <3>3. verdict' \in [FamilySet -> Verdicts]
      BY <3>1, <1>0 DEF Verdicts
    <3>4. QED
      BY <3>1, <3>2, <3>3, <1>0, <1>w
  <2>2. CASE ~EventSet
    BY <1>4, <2>2 DEF PollEvent
  <2>3. QED
    BY <2>1, <2>2
<1>5. CASE Grep
  BY <1>5, <1>w DEF Grep, NeedleInLog, Verdicts
<1>6. CASE PollAgain
  BY <1>6 DEF PollAgain
<1>7. CASE Timeout
  BY <1>7, <1>w DEF Timeout, Raise, Verdicts
<1>8. CASE StartCapture
  BY <1>8, <1>w DEF StartCapture
<1>9. CASE RemoveHosts
  BY <1>9 DEF RemoveHosts
<1>10. CASE AddHosts
  BY <1>10 DEF AddHosts
<1>11. CASE CliFails
  <2>1. watcher' \in {watcher, PkillTcpdump(watcher)}
    BY <1>11 DEF CliFails
  <2>2. /\ pc \in {"send", "remove", "add"} /\ cliFailures < MaxCliFailures /\ pc' = "idle"
        /\ cliFailures' = cliFailures + 1 /\ verdict' = [verdict EXCEPT ![Family] = "error"]
        /\ UNCHANGED <<inv, at, pending, log, wire, hosts, attempt>>
    BY <1>11 DEF CliFails, Raise
  <2>3. watcher' \in [FamilySet -> WatcherStates]
    BY <2>1, <1>w
  <2>4. /\ \A f \in FamilySet : watcher[f] = "off" => watcher'[f] = "off"
        /\ \A f \in FamilySet : watcher'[f] \in {"packet", "event"} => watcher'[f] = watcher[f]
    BY <2>1, <1>w
  <2>5. cliFailures' \in 0..MaxCliFailures /\ verdict' \in [FamilySet -> Verdicts]
    BY <2>2, <1>0 DEF Verdicts
  <2>6. QED
    BY <2>2, <2>3, <2>4, <2>5, <1>0
<1>12. ASSUME NEW group \in BOOLEAN, Decode(group)
       PROVE  IInv'
  BY <1>12, <1>w DEF Decode, ProbeReturns
<1>13. ASSUME NEW f \in FamilySet, Attach(f)
       PROVE  IInv'
  BY <1>13 DEF Attach, WatcherStates
<1>14. ASSUME NEW f \in FamilySet, SetEvent(f)
       PROVE  IInv'
  BY <1>14 DEF SetEvent, WatcherStates
<1>15. ASSUME NEW f \in FamilySet, WatcherTimeout(f)
       PROVE  IInv'
  BY <1>15 DEF WatcherTimeout, WatcherStates
<1>16. ASSUME NEW m \in Messages, Arrive(m)
       PROVE  IInv'
  BY <1>16 DEF Arrive
<1>17. ASSUME NEW m \in Messages, Leak(m)
       PROVE  IInv'
  BY <1>17 DEF Leak, WatcherStates
<1>18. CASE UNCHANGED vars
  BY <1>18 DEF vars
<1>19. QED
  BY <1>1, <1>2, <1>3, <1>4, <1>5, <1>6, <1>7, <1>8, <1>9, <1>10, <1>11, <1>12,
     <1>13, <1>14, <1>15, <1>16, <1>17, <1>18 DEF Next, Main

\* The inductive invariant.
THEOREM DeliveryInvariant == Spec => []IInv
<1>1. IInv /\ [Next]_vars => IInv'
  BY IInvStep
<1>2. QED
  BY <1>1, InitIInv, PTL DEF Spec

\* Type correctness.
THEOREM DeliveryTypes == Spec => []TypeOK
<1>1. IInv => TypeOK
  BY DEF IInv
<1>2. QED
  BY <1>1, DeliveryInvariant, PTL

\* A cleartext alarm never rests on a packet of another probe, although
\* threads outlive their probes.
THEOREM AlarmsHaveCleartext == Spec => []NoFalseAlarm
<1>1. IInv => NoFalseAlarm
  BY DEF IInv
<1>2. QED
  BY <1>1, DeliveryInvariant, PTL

\* No probe starts without both logging hosts, wherever an earlier
\* invocation failed.
THEOREM HostsBeforeProbe == Spec => []ProbesSeeBothHosts
<1>1. IInv => ProbesSeeBothHosts
  BY DEF IInv, HostsInv, ProbesSeeBothHosts
<1>2. QED
  BY <1>1, DeliveryInvariant, PTL
==============================================================================
