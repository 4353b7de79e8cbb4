---------------------------- MODULE QuadraInstall ----------------------------
(***************************************************************************)
(* lab/install_quadra.py: the QuaDRA extension is copied to, installed and *)
(* started on the two switches of the QKD link, one after the other, one   *)
(* docker or CLI call at a time.  A call may fail before or after it took  *)
(* effect (an error, or the 120 s timeout that nobody catches); the script *)
(* then ends and leaves both switches as they are, for the next call.      *)
(*                                                                         *)
(* A switch that runs is a record whose field bind is the extension file   *)
(* the topology mounts read-only into its flash (NoSwix if none).  The     *)
(* module has no specification of its own: LabLifecycle composes it with   *)
(* the deployments that create, populate and remove the switches.          *)
(***************************************************************************)
EXTENDS Naturals, Sequences, SequencesExt

CONSTANTS Quadra,     \* the switches, in the order they are installed
          Nil,        \* no such node, no such file
          MaxFaults   \* bound: docker and CLI calls that fail

ASSUME QuadraAssumption ==
    /\ MaxFaults \in Nat
    /\ Quadra \in Seq(ToSet(Quadra)) /\ Quadra # <<>>

VARIABLES nodes,     \* the node of each name as it was created, or Nil
          ext,       \* extension files installed on a switch, by version
          agent,     \* the version of the running agent, or NoSwix
          job,       \* the running (last) call of install_quadra()
          faults     \* failed calls so far

quadraVars == <<ext, agent, job, faults>>

NoSwix == 0
Steps == {"show", "copy", "install", "agent", "start"}
NoJob == [at |-> "none", todo |-> <<>>, swix |-> NoSwix, fault |-> FALSE, restarted |-> {}]
Installing == job.at \in Steps

Target == Head(job.todo)
Goto(at) == job' = [job EXCEPT !.at = at]
NextSwitch ==
    job' = [job EXCEPT !.todo = Tail(@), !.at = IF Len(job.todo) = 1 THEN "ok" ELSE "show"]

-------------------------------------------------------------------------------
(* Plausible bugs, substituted for the definition below by the mutants.    *)

\* Bug: an installed extension ends the work on a switch, its agent is off.
InstalledIsEnough ==
    /\ job.at = "show"
    /\ IF nodes[Target] # Nil /\ job.swix \in ext[Target]
       THEN NextSwitch
       ELSE Goto(IF nodes[Target] = Nil THEN "failed" ELSE "copy")
    /\ UNCHANGED <<ext, agent, faults>>

\* Bug: what is installed is copied and installed again.
InstallAgain ==
    /\ job.at = "show"
    /\ Goto(IF nodes[Target] = Nil THEN "failed" ELSE "copy")
    /\ UNCHANGED <<ext, agent, faults>>

-------------------------------------------------------------------------------
(* The script.                                                             *)

\* install_quadra(): nothing is touched without a file to install.
StartInstall(swix) ==
    job' = [NoJob EXCEPT !.at = IF swix = NoSwix THEN "failed" ELSE "show",
                         !.todo = Quadra, !.swix = swix]

\* container_running(), then show extensions.
ShowExtensions ==
    /\ job.at = "show"
    /\ Goto(IF nodes[Target] = Nil THEN "failed"
            ELSE IF job.swix \in ext[Target] THEN "agent" ELSE "copy")
    /\ UNCHANGED <<ext, agent, faults>>

\* docker cp does not replace a file that is mounted read-only.
Mounted(n) == nodes[n].bind = job.swix

CopyToFlash ==
    /\ job.at = "copy"
    /\ Goto(IF Mounted(Target) THEN "failed" ELSE "install")
    /\ UNCHANGED <<ext, agent, faults>>

\* extension <swix>, copied to boot-extensions, and show extensions again.
InstallExtension ==
    /\ job.at = "install"
    /\ ext' = [ext EXCEPT ![Target] = @ \cup {job.swix}]
    /\ Goto("agent")
    /\ UNCHANGED <<agent, faults>>

\* enable_daemon(): an agent that runs is left alone, whatever its version.
ShowAgent ==
    /\ job.at = "agent"
    /\ IF agent[Target] # NoSwix THEN NextSwitch ELSE Goto("start")
    /\ UNCHANGED <<ext, agent, faults>>

StartAgent ==
    /\ job.at = "start"
    /\ agent' = [agent EXCEPT ![Target] = job.swix]
    /\ job' = [job EXCEPT !.todo = Tail(@), !.at = IF Len(job.todo) = 1 THEN "ok" ELSE "show",
                          !.restarted = @ \ {Target}]
    /\ UNCHANGED <<ext, faults>>

\* A call fails, with or without the effect it was made for.
CallFails ==
    /\ Installing /\ faults < MaxFaults
    /\ job' = [job EXCEPT !.at = "failed", !.fault = TRUE]
    /\ faults' = faults + 1
    /\ \/ UNCHANGED <<ext, agent>>
       \/ /\ job.at = "install"
          /\ ext' = [ext EXCEPT ![Target] = @ \cup {job.swix}]
          /\ UNCHANGED agent
       \/ /\ job.at = "start"
          /\ agent' = [agent EXCEPT ![Target] = job.swix]
          /\ UNCHANGED ext

\* A switch boots again: boot-extensions bring the extension back, the
\* startup-config has the agent shut down.
Restart(n) ==
    /\ nodes[n] # Nil /\ agent[n] # NoSwix
    /\ agent' = [agent EXCEPT ![n] = NoSwix]
    /\ job' = IF job = NoJob THEN job ELSE [job EXCEPT !.restarted = @ \cup {n}]
    /\ UNCHANGED <<ext, faults>>

InstallStep ==
    ShowExtensions \/ CopyToFlash \/ InstallExtension \/ ShowAgent \/ StartAgent

-------------------------------------------------------------------------------
(* Properties, checked where the module is composed.                       *)

\* A call that reports success leaves on both switches the file it resolved
\* at its start and a running agent, also on the switch it found installed,
\* and whatever it did to the other one afterwards; only a switch that booted
\* since then has no agent.
InstallLeavesAgents ==
    job.at = "ok" =>
        \A n \in ToSet(Quadra) :
            /\ job.swix \in ext[n]
            /\ agent[n] # NoSwix \/ n \in job.restarted

\* install_quadra() can be repeated: whatever earlier calls left half done,
\* one without a failing docker or CLI call completes it, unless there is no
\* file or no switch, or the deployment mounted the file and its own
\* installation of it did not take, which no repetition can mend.
InstallFailsForAReason ==
    job.at = "failed" =>
        \/ job.swix = NoSwix \/ job.fault
        \/ \E n \in ToSet(Quadra) :
              nodes[n] = Nil \/ (Mounted(n) /\ job.swix \notin ext[n])

==============================================================================
