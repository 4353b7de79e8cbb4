------------------------ MODULE SyslogSupervisorProofs -----------------------
(***************************************************************************)
(* Proofs about SyslogSupervisor for any number of attempts, any streak,   *)
(* any set of processes and any number of wedges.                          *)
(***************************************************************************)
EXTENDS SyslogSupervisor, TLAPS

\* The counters of wait_for_tls_streak() and of the start loop: the streak
\* never exceeds the probes that succeeded in a row, and the script leaves
\* either loop as soon as its counter is up.
CounterInv ==
    /\ pc \in {"capture", "streak", "probe"} => streak < ReadyStreak /\ streak <= good
    /\ pc # "exited" => attempt <= MaxAttempts
    /\ ReadyAfterStreak

\* No process is started before the one before it is gone or leaving.
LeavingInv ==
    /\ OthersAreLeaving
    /\ pc \in {"certs", "network", "exited"} => inst[cur] \in {"gone", "stopping"}

IInv == TypeOK /\ CounterInv /\ LeavingInv

LEMMA InitIInv == Init => IInv
<1> SUFFICES ASSUME Init
             PROVE  IInv
  OBVIOUS
<1>1. TypeOK
  <2>1. attempt \in 1..MaxAttempts + 1 /\ streak \in 0..ReadyStreak /\ wedges \in 0..MaxWedges
    BY SupervisorAssumption DEF Init
  <2>2. inst \in [Slots -> InstStates]
    BY DEF Init, InstStates
  <2>3. QED
    BY <2>1, <2>2 DEF Init, TypeOK
<1>2. CounterInv
  BY SupervisorAssumption DEF Init, CounterInv, ReadyAfterStreak
<1>3. LeavingInv
  BY DEF Init, LeavingInv, OthersAreLeaving
<1>4. QED
  BY <1>1, <1>2, <1>3 DEF IInv

\* Every step of the script keeps the invariant.
LEMMA ScriptStep ==
    ASSUME IInv, Script
    PROVE  IInv'
<1> USE SupervisorAssumption DEF IInv, TypeOK, CounterInv, LeavingInv, OthersAreLeaving, ReadyAfterStreak, Alive, InstStates
<1>1. CASE CertsReady
  BY <1>1 DEF CertsReady
<1>2. CASE StartupFails
  BY <1>2 DEF StartupFails, Leave
<1>3. CASE CaptureEnds
  BY <1>3 DEF CaptureEnds
<1>4. CASE StreakCheck
  BY <1>4 DEF StreakCheck
<1>5. CASE StreakDies
  BY <1>5 DEF StreakDies, StreakFails, Leave
<1>6. CASE StreakTimeout
  BY <1>6 DEF StreakTimeout, StreakFails, Leave
<1>7. CASE Retry
  BY <1>7 DEF Retry, Leave, Terminated
<1>8. CASE WatchSleep
  BY <1>8 DEF WatchSleep
<1>9. CASE WatchEnds
  BY <1>9 DEF WatchEnds, Leave
<1>10. CASE Trap
  BY <1>10 DEF Trap, Leave
<1>11. ASSUME NEW i \in Slots, Start(i)
       PROVE  IInv'
  BY <1>11 DEF Start
<1>12. ASSUME NEW ok \in BOOLEAN, StreakProbe(ok)
       PROVE  IInv'
  <2>1. CASE ok /\ streak + 1 >= ReadyStreak
    <3>1. streak' = ReadyStreak /\ good' = good + 1 /\ pc' = "watch" /\ watching'
      BY <1>12, <2>1 DEF StreakProbe
    <3>2. UNCHANGED <<exit, attempt, cur, inst, held, wedges>>
      BY <1>12 DEF StreakProbe
    <3>3. QED
      BY <1>12, <3>1, <3>2 DEF StreakProbe
  <2>2. CASE ~(ok /\ streak + 1 >= ReadyStreak)
    <3>1. pc' = "streak" /\ UNCHANGED <<exit, attempt, watching, cur, inst, held, wedges>>
      BY <1>12, <2>2 DEF StreakProbe
    <3>2. \/ streak' = streak + 1 /\ good' = good + 1 /\ streak + 1 < ReadyStreak
          \/ streak' = 0 /\ good' = 0
      BY <1>12, <2>2 DEF StreakProbe
    <3>3. QED
      BY <1>12, <3>1, <3>2 DEF StreakProbe
  <2>3. QED
    BY <2>1, <2>2
<1>13. ASSUME NEW ok \in BOOLEAN, WatchProbe(ok)
       PROVE  IInv'
  BY <1>13 DEF WatchProbe, Terminated
<1>14. QED
  BY <1>1, <1>2, <1>3, <1>4, <1>5, <1>6, <1>7, <1>8, <1>9, <1>10, <1>11, <1>12, <1>13 DEF Script

\* The processes keep it, whatever they do.
LEMMA ProcessStep ==
    ASSUME IInv, NEW i \in Slots, Bind(i) \/ Die(i) \/ Wedge(i) \/ Stop(i)
    PROVE  IInv'
<1> USE SupervisorAssumption DEF IInv, TypeOK, CounterInv, LeavingInv, OthersAreLeaving, ReadyAfterStreak, Alive,
       InstStates, script
<1>1. CASE Bind(i)
  BY <1>1 DEF Bind
<1>2. CASE Die(i)
  BY <1>2 DEF Die
<1>3. CASE Wedge(i)
  BY <1>3 DEF Wedge
<1>4. CASE Stop(i)
  BY <1>4 DEF Stop
<1>5. QED
  BY <1>1, <1>2, <1>3, <1>4

\* The inductive invariant.
THEOREM SupervisorInvariant == Spec => []IInv
<1>1. IInv /\ [Next]_vars => IInv'
  <2> SUFFICES ASSUME IInv, [Next]_vars
               PROVE  IInv'
    OBVIOUS
  <2>1. CASE UNCHANGED vars
    BY <2>1 DEF vars, IInv, TypeOK, CounterInv, LeavingInv, OthersAreLeaving, ReadyAfterStreak, Alive
  <2>2. QED
    BY <2>1, ScriptStep, ProcessStep DEF Next
<1>2. QED
  BY <1>1, InitIInv, PTL DEF Spec

\* Type correctness.
THEOREM SupervisorTypes == Spec => []TypeOK
<1>1. IInv => TypeOK
  BY DEF IInv
<1>2. QED
  BY <1>1, SupervisorInvariant, PTL

\* The collector counts as ready only after a whole streak of probes,
\* however long a streak and however often an attempt failed before.
THEOREM ReadyNeedsStreak == Spec => []ReadyAfterStreak
<1>1. IInv => ReadyAfterStreak
  BY DEF IInv, CounterInv
<1>2. QED
  BY <1>1, SupervisorInvariant, PTL

\* At most one process is not on its way out, for any number of slots,
\* although wait waits for nothing.
THEOREM OnlyTheLastStays == Spec => []OthersAreLeaving
<1>1. IInv => OthersAreLeaving
  BY DEF IInv, LeavingInv
<1>2. QED
  BY <1>1, SupervisorInvariant, PTL
==============================================================================
