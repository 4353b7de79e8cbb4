--------------------------- MODULE SyslogSupervisor --------------------------
(***************************************************************************)
(* The PID 1 script of the syslog collector, docker/syslog/entrypoint.sh:  *)
(* it waits for certificates and network, starts syslog-ng, waits for      *)
(* READY_STREAK consecutive TLS probes and then watches the listener.      *)
(*                                                                         *)
(* Both pid=$(start_syslog) lines start syslog-ng inside a command         *)
(* substitution.  This has two consequences the model keeps:               *)
(*   - the substitution ends when the last holder of its pipe closes it.   *)
(*     A syslog-ng -F that keeps its standard output holds the script in   *)
(*     the substitution as long as it lives (held); one that closes or     *)
(*     redirects it lets the script go on at once;                         *)
(*   - the instance is a child of the substitution's subshell, not of the  *)
(*     script: wait "$pid" returns 127 at once and waits for nothing.      *)
(* Time is abstracted: a deadline may pass at any probe.  A process is     *)
(* gone when the shell has reaped it, which is when kill -0 fails.         *)
(***************************************************************************)
EXTENDS Naturals, FiniteSets

CONSTANTS MaxAttempts,  \* SYSLOG_START_ATTEMPTS
          ReadyStreak,  \* SYSLOG_READY_STREAK
          Slots,        \* bound: syslog-ng processes alive at a time
          MaxWedges     \* bound: instances that stop answering TLS

ASSUME SupervisorAssumption ==
    /\ MaxAttempts \in Nat \ {0} /\ ReadyStreak \in Nat \ {0}
    /\ Cardinality(Slots) > 1
    /\ MaxWedges \in Nat

VARIABLES pc,        \* where the script is
          exit,      \* the container's exit status, 0..1 or 143; 99 while it runs
          attempt,   \* the variable of the same name
          streak,    \* the variable of the same name
          watching,  \* the listener was announced: line 87 was reached
          cur,       \* the process "$pid" names
          held,      \* syslog-ng keeps the substitution's pipe open
          inst,      \* inst[i]: the state of process i
          good,      \* successful probes in a row since the last start
          wedges     \* wedges so far

script == <<pc, exit, attempt, streak, watching, cur, held>>
vars == <<pc, exit, attempt, streak, watching, cur, held, inst, good, wedges>>

InstStates == {"gone", "starting", "running", "wedged", "stopping"}

\* Processes that own, or may still own, port 6514.
Bound == {i \in Slots : inst[i] \in {"running", "wedged", "stopping"}}

\* Somebody may complete a TLS handshake: a terminating instance still may.
Listening == \E i \in Slots : inst[i] \in {"running", "stopping"}

Alive(i) == inst[i] # "gone"

Init ==
    /\ pc = "certs" /\ exit = 99
    /\ attempt = 1 /\ streak = 0 /\ watching = FALSE
    /\ cur \in Slots /\ held \in BOOLEAN
    /\ inst = [i \in Slots |-> "gone"]
    /\ good = 0 /\ wedges = 0

Leave(status) ==
    /\ pc' = "exited"
    /\ exit' = status
    \* The kernel kills whatever PID 1 leaves behind.
    /\ inst' = [i \in Slots |-> "gone"]

\* kill -TERM "$pid" || true
Terminated == [inst EXCEPT ![cur] = IF @ = "gone" THEN "gone" ELSE "stopping"]

------------------------------------------------------------------------------
(* Plausible bugs, substituted for the definitions below by the mutants.   *)

\* The streak survives a failed probe.
StreakProbeNoReset(ok) ==
    /\ pc = "probe"
    /\ ok => Listening
    /\ good' = IF ok THEN good + 1 ELSE 0
    /\ streak' = IF ok THEN streak + 1 ELSE streak
    /\ IF streak' >= ReadyStreak
       THEN pc' = "watch" /\ watching' = TRUE
       ELSE pc' = "streak" /\ UNCHANGED watching
    /\ UNCHANGED <<exit, attempt, cur, inst, held, wedges>>

\* The wedged instance is left to itself.
WatchProbeForgets(ok) ==
    /\ pc = "doze"
    /\ ok => Listening
    /\ good' = IF ok THEN good ELSE 0
    /\ pc' = IF ok THEN "watch" ELSE "network"
    /\ UNCHANGED <<exit, attempt, streak, watching, cur, held, inst, wedges>>

\* A failed probe is logged and forgotten.
WatchProbeIgnored(ok) ==
    /\ pc = "doze"
    /\ ok => Listening
    /\ pc' = "watch"
    /\ UNCHANGED <<exit, attempt, streak, watching, cur, held, inst, good, wedges>>

\* The attempts are counted and never compared.
RetryForever ==
    /\ pc = "retry"
    /\ attempt' = attempt + 1
    /\ inst' = Terminated
    /\ pc' = "network"
    /\ UNCHANGED <<exit, streak, watching, cur, good, held, wedges>>

\* wait "$pid" blocks on a process that is already gone.
RetryWaits ==
    /\ pc = "retry" /\ Alive(cur)
    /\ attempt' = attempt + 1
    /\ inst' = Terminated
    /\ pc' = "network"
    /\ UNCHANGED <<exit, streak, watching, cur, good, held, wedges>>

------------------------------------------------------------------------------
(* Before the first start.                                                 *)

\* wait_for_nonempty_file for the three files, then syslog-ng -s; set -e
\* turns a timeout or a syntax error into exit 1.
CertsReady ==
    /\ pc = "certs"
    /\ pc' = "network"
    /\ UNCHANGED <<exit, attempt, streak, watching, cur, inst, good, held, wedges>>

StartupFails ==
    /\ pc \in {"certs", "network"}
    /\ Leave(1)
    /\ UNCHANGED <<attempt, streak, watching, cur, good, held, wedges>>

\* start_syslog() once wait_for_network() succeeded; when that times out,
\* set -e ends the substitution and the script: StartupFails.
Start(i) ==
    /\ pc = "network" /\ inst[i] = "gone"
    /\ inst' = [inst EXCEPT ![i] = "starting"]
    /\ cur' = i /\ streak' = 0 /\ good' = 0
    /\ pc' = IF held THEN "capture" ELSE "streak"
    /\ UNCHANGED <<exit, attempt, watching, held, wedges>>

\* The pipe's last writer is gone and the substitution returns.
CaptureEnds ==
    /\ pc = "capture" /\ ~Alive(cur)
    /\ pc' = "streak"
    /\ UNCHANGED <<exit, attempt, streak, watching, cur, inst, good, held, wedges>>

------------------------------------------------------------------------------
(* wait_for_tls_streak().                                                  *)

\* At a first start the attempt failed; after a restart the script leaves
\* the watch loop and, wait returning at once, exits 0 whether or not the
\* instance still runs.
StreakFails ==
    /\ IF watching THEN Leave(0) ELSE pc' = "retry" /\ UNCHANGED <<exit, inst>>
    /\ UNCHANGED <<attempt, streak, watching, cur, good, held, wedges>>

\* kill -0 "$pid", before every healthcheck.
StreakCheck ==
    /\ pc = "streak" /\ Alive(cur)
    /\ pc' = "probe"
    /\ UNCHANGED <<exit, attempt, streak, watching, cur, held, inst, good, wedges>>

StreakDies == pc = "streak" /\ ~Alive(cur) /\ StreakFails

\* READY_WAIT_SEC is over.
StreakTimeout == pc = "streak" /\ StreakFails

\* One healthcheck: on failure the streak starts again.  The instance may
\* have died since the check.
StreakProbe(ok) ==
    /\ pc = "probe"
    /\ ok => Listening
    /\ good' = IF ok THEN good + 1 ELSE 0
    /\ streak' = IF ok THEN streak + 1 ELSE 0
    /\ IF streak' >= ReadyStreak
       THEN pc' = "watch" /\ watching' = TRUE
       ELSE pc' = "streak" /\ UNCHANGED watching
    /\ UNCHANGED <<exit, attempt, cur, inst, held, wedges>>

\* kill, wait (for nothing), count the attempt.
Retry ==
    /\ pc = "retry"
    /\ attempt' = attempt + 1
    /\ IF attempt' > MaxAttempts
       THEN Leave(1)
       ELSE /\ inst' = Terminated
            /\ pc' = "network"
            /\ UNCHANGED exit
    /\ UNCHANGED <<streak, watching, cur, good, held, wedges>>

------------------------------------------------------------------------------
(* The watch loop.                                                         *)

\* kill -0 succeeds, and the script sleeps.
WatchSleep ==
    /\ pc = "watch" /\ Alive(cur)
    /\ pc' = "doze"
    /\ UNCHANGED <<exit, attempt, streak, watching, cur, held, inst, good, wedges>>

\* An instance that died meanwhile fails the probe like a wedged one.
WatchProbe(ok) ==
    /\ pc = "doze"
    /\ ok => Listening
    /\ good' = IF ok THEN good ELSE 0
    /\ IF ok
       THEN pc' = "watch" /\ UNCHANGED inst
       ELSE pc' = "network" /\ inst' = Terminated
    /\ UNCHANGED <<exit, attempt, streak, watching, cur, held, wedges>>

\* kill -0 fails: the loop ends, wait returns at once, exit 0.
WatchEnds ==
    /\ pc = "watch" /\ ~Alive(cur)
    /\ Leave(0)
    /\ UNCHANGED <<attempt, streak, watching, cur, good, held, wedges>>

\* SIGTERM to the container once the trap is set.
Trap ==
    /\ pc \notin {"exited", "capture"} /\ watching
    /\ Leave(143)
    /\ UNCHANGED <<attempt, streak, watching, cur, good, held, wedges>>

------------------------------------------------------------------------------
(* The syslog-ng processes.                                                *)

\* Bind the port, or fail because another instance has it.
Bind(i) ==
    /\ inst[i] = "starting"
    /\ inst' = [inst EXCEPT ![i] = IF Bound = {} THEN "running" ELSE "gone"]
    /\ UNCHANGED <<script, good, wedges>>

Die(i) ==
    /\ inst[i] \in {"starting", "running", "wedged"}
    /\ inst' = [inst EXCEPT ![i] = "gone"]
    /\ UNCHANGED <<script, good, wedges>>

\* The instance lives on but completes no TLS handshake any more.
Wedge(i) ==
    /\ inst[i] = "running" /\ wedges < MaxWedges
    /\ inst' = [inst EXCEPT ![i] = "wedged"]
    /\ wedges' = wedges + 1
    /\ UNCHANGED <<script, good>>

\* A terminated instance takes its time.
Stop(i) ==
    /\ inst[i] = "stopping"
    /\ inst' = [inst EXCEPT ![i] = "gone"]
    /\ UNCHANGED <<script, good, wedges>>

Script ==
    \/ CertsReady \/ StartupFails \/ CaptureEnds
    \/ StreakCheck \/ StreakDies \/ StreakTimeout
    \/ Retry \/ WatchSleep \/ WatchEnds \/ Trap
    \/ \E i \in Slots : Start(i)
    \/ \E ok \in BOOLEAN : StreakProbe(ok) \/ WatchProbe(ok)

Next ==
    \/ Script
    \/ \E i \in Slots : Bind(i) \/ Die(i) \/ Wedge(i) \/ Stop(i)

\* The script keeps running and a process that was asked to start or to
\* stop does.  The deadline of a streak that cannot be completed passes.
Fairness ==
    /\ WF_vars(CertsReady \/ CaptureEnds \/ StreakCheck \/ StreakDies
                \/ Retry \/ WatchSleep \/ WatchEnds)
    /\ WF_vars(\E i \in Slots : Start(i))
    /\ SF_vars(inst[cur] = "wedged" /\ StreakTimeout)
    /\ WF_vars(\E ok \in BOOLEAN : StreakProbe(ok))
    /\ WF_vars(\E ok \in BOOLEAN : WatchProbe(ok))
    /\ \A i \in Slots : WF_vars(Bind(i)) /\ WF_vars(Stop(i))

Spec == Init /\ [][Next]_vars
FairSpec == Spec /\ Fairness
------------------------------------------------------------------------------
TypeOK ==
    /\ pc \in {"certs", "network", "capture", "streak", "probe", "retry",
               "watch", "doze", "exited"}
    /\ exit \in {0, 1, 99, 143}
    /\ attempt \in 1..MaxAttempts + 1
    /\ streak \in 0..ReadyStreak
    /\ watching \in BOOLEAN
    /\ cur \in Slots /\ held \in BOOLEAN
    /\ inst \in [Slots -> InstStates]
    /\ good \in Nat /\ wedges \in 0..MaxWedges

\* The listener counts as ready, and as still ready, only while the last
\* ReadyStreak probes in a row succeeded; one failed probe undoes all.
ReadyAfterStreak == pc \in {"watch", "doze"} => good >= ReadyStreak

\* An instance that no longer answers TLS is replaced: the watch loop of
\* the script, "TLS probe failed, restarting syslog-ng".
WatchdogRestarts ==
    \A i \in Slots : inst[i] = "wedged" ~> inst[i] # "wedged"

\* The watch loop keeps that promise whenever the script gets to it.
WatchLoopRestarts ==
    \A i \in Slots : ~held /\ inst[i] = "wedged" ~> inst[i] # "wedged"

\* wait "$pid" waits for nothing, so an instance that was told to stop may
\* still own port 6514 while the next one starts.  But no other outlives its
\* replacement: every process but the last one started is gone or leaving,
\* held or not, after failed attempts, wedges and restarts.
OthersAreLeaving == \A i \in Slots \ {cur} : inst[i] \in {"gone", "stopping"}

\* A collector without a syslog-ng gets one again or its container exits:
\* the script is never stuck between two attempts.
DeathHandled ==
    (\A i \in Slots : ~Alive(i)) ~> (pc = "exited" \/ \E i \in Slots : Alive(i))
==============================================================================
