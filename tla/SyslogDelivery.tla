---------------------------- MODULE SyslogDelivery ---------------------------
(***************************************************************************)
(* The live syslog delivery check for one switch: the per-node part of     *)
(* run_checks() in lab/test_syslog.py, probe_syslog_delivery() of          *)
(* lab/test_pqc_connections.py and, beneath it,                            *)
(* probe_syslog_delivery_no_cleartext() of lab/syslog_checks.py.           *)
(*                                                                         *)
(* make test-syslog looks at the logging configuration of the switch and   *)
(* then probes each address family: it starts a thread that watches the    *)
(* wire for cleartext syslog with tcpdump, asks the switch to log a        *)
(* needle, and polls the collector's log for it.  A probe that finds it    *)
(* goes on to capture the TLS handshake, for which it removes the remote   *)
(* logging hosts of the switch and adds them again.                        *)
(*                                                                         *)
(* The needle is "quantum-safe-syslog-probe-{node}-{family}".  A message   *)
(* is named <<i, f>>, by the invocation and the family that sent it; its   *)
(* needle is f, and the collector's log is never truncated.  The threads   *)
(* and verdicts are those of the running, or last, invocation: an          *)
(* invocation is a process, and a tcpdump its threads leave behind tells   *)
(* nobody what it sees.                                                    *)
(***************************************************************************)
EXTENDS Naturals, Sequences

CONSTANTS Families,        \* IP_FAMILIES, in order
          MaxInvocations,  \* bound: runs of make test-syslog
          MaxCliFailures   \* bound: CLI calls on the switch that fail

ASSUME DeliveryAssumption ==
    /\ Families \in Seq({"ipv4", "ipv6"})
    /\ Len(Families) > 0
    /\ \A i, j \in DOMAIN Families : Families[i] = Families[j] => i = j
    /\ MaxInvocations \in Nat /\ MaxCliFailures \in Nat

FamilySet == {Families[i] : i \in DOMAIN Families}
Messages == (1..MaxInvocations) \X FamilySet
Transports == {"tls", "cleartext"}

VARIABLES pc,           \* where the main thread is
          inv, at,      \* the invocation and the position in Families
          verdict,      \* verdict[f]: how the probe of f ended
          watcher,      \* watcher[f]: the thread that watches for that probe
          pending,      \* messages the switch has queued, with their transport
          log,          \* messages in /var/log/syslog/eos.log
          wire,         \* families whose probe saw cleartext on the wire
          hosts,        \* remote logging hosts configured on the switch
          attempt,      \* capture attempts of this probe
          cliFailures

msgs == <<pending, log, wire>>
vars == <<pc, inv, at, verdict, watcher, pending, log, wire, hosts, attempt, cliFailures>>

Family == Families[at]
Message == <<inv, Family>>

Verdicts == {"none", "delivered", "cleartext", "timeout", "error"}
WatcherStates == {"off", "starting", "capturing", "packet", "event", "ended"}

Init ==
    /\ pc = "idle" /\ inv = 0 /\ at = 1
    /\ verdict = [f \in FamilySet |-> "none"]
    /\ watcher = [f \in FamilySet |-> "off"]
    /\ pending = {} /\ log = {} /\ wire = {}
    /\ hosts = FamilySet
    /\ attempt = 0 /\ cliFailures = 0

\* pkill -x tcpdump in the collector: it captures "0 packets".  A docker
\* exec that has not started its tcpdump yet is not affected.
PkillTcpdump(w) == [f \in FamilySet |-> IF w[f] = "capturing" THEN "ended" ELSE w[f]]

\* An exception ends the probe and the invocation.
Raise(v) ==
    /\ verdict' = [verdict EXCEPT ![Family] = v]
    /\ pc' = "idle"

------------------------------------------------------------------------------
(* Plausible bugs, substituted for the definitions below by the mutants.   *)

\* while True.
NeverTimeout == FALSE

\* One Event for the module instead of one per probe.
SharedEvent == \E f \in FamilySet : watcher[f] = "event"

\* Capture attempts are counted and never compared.
DecodeForever(group) ==
    /\ pc = "decode" \/ (pc = "nothing" /\ ~group)
    /\ attempt' = attempt + 1
    /\ pc' = IF group THEN "idle" ELSE "capture"
    /\ UNCHANGED <<inv, at, verdict, watcher, msgs, hosts, cliFailures>>

\* The configuration is printed and not compared.
ConfigUnchecked == TRUE

------------------------------------------------------------------------------
(* The main thread.                                                        *)

\* check_switch_syslog_logging_config(): both hosts must be configured.
ConfigOk == hosts = FamilySet

Invoke ==
    /\ pc = "idle" /\ inv < MaxInvocations
    /\ inv' = inv + 1 /\ at' = 1
    /\ pc' = IF ConfigOk THEN "start" ELSE "idle"
    /\ verdict' = [f \in FamilySet |-> "none"]
    /\ watcher' = [f \in FamilySet |-> "off"]
    /\ wire' = {}
    /\ UNCHANGED <<pending, log, hosts, attempt, cliFailures>>

\* Kill old captures and start this probe's watcher thread.
StartWatcher ==
    /\ pc = "start"
    /\ watcher' = [PkillTcpdump(watcher) EXCEPT ![Family] = "starting"]
    /\ pc' = "send"
    /\ UNCHANGED <<inv, at, verdict, msgs, hosts, attempt, cliFailures>>

\* send_log(), 0.5 s later: the switch queues the needle for its hosts.
SendLog ==
    /\ pc = "send"
    /\ \E T \in SUBSET Transports : pending' = pending \cup {<<Message, t>> : t \in T}
    /\ pc' = "poll"
    /\ UNCHANGED <<inv, at, verdict, watcher, log, wire, hosts, attempt, cliFailures>>

\* One turn of the loop starts by asking whether cleartext was seen.
EventSet == watcher[Family] = "event"

PollEvent ==
    /\ pc = "poll"
    /\ IF EventSet
       THEN Raise("cleartext") /\ watcher' = PkillTcpdump(watcher)
       ELSE pc' = "grep" /\ UNCHANGED <<verdict, watcher>>
    /\ UNCHANGED <<inv, at, msgs, hosts, attempt, cliFailures>>

\* The needle is the family's: any invocation's message has it.
NeedleInLog == \E m \in log : m[2] = Family

Grep ==
    /\ pc = "grep"
    /\ IF NeedleInLog
       THEN /\ pc' = "capture"
            /\ verdict' = [verdict EXCEPT ![Family] = "delivered"]
            /\ watcher' = PkillTcpdump(watcher)
            /\ attempt' = 0
       ELSE pc' = "sleep" /\ UNCHANGED <<verdict, watcher, attempt>>
    /\ UNCHANGED <<inv, at, msgs, hosts, cliFailures>>

PollAgain ==
    /\ pc = "sleep"
    /\ pc' = "poll"
    /\ UNCHANGED <<inv, at, verdict, watcher, msgs, hosts, attempt, cliFailures>>

\* delivery_timeout_sec may have passed after any sleep.
Timeout ==
    /\ pc = "sleep"
    /\ Raise("timeout")
    /\ watcher' = PkillTcpdump(watcher)
    /\ UNCHANGED <<inv, at, msgs, hosts, attempt, cliFailures>>

------------------------------------------------------------------------------
(* The wire KEX capture, at most two attempts.                             *)

\* The next family, or the end of the invocation.
ProbeReturns ==
    IF at < Len(Families)
    THEN at' = at + 1 /\ pc' = "start"
    ELSE pc' = "idle" /\ UNCHANGED at

\* The capture's own tcpdump starts (after another pkill), or docker exec
\* fails and there is nothing to decode.
StartCapture ==
    /\ pc = "capture"
    /\ watcher' = PkillTcpdump(watcher)
    /\ pc' \in {"remove", "nothing"}
    /\ UNCHANGED <<inv, at, verdict, msgs, hosts, attempt, cliFailures>>

\* bounce_logging_hosts(): two CLI calls, three seconds apart.
RemoveHosts ==
    /\ pc = "remove"
    /\ hosts' = {}
    /\ pc' = "add"
    /\ UNCHANGED <<inv, at, verdict, watcher, msgs, attempt, cliFailures>>

AddHosts ==
    /\ pc = "add"
    /\ hosts' = FamilySet
    /\ pc' = "decode"
    /\ UNCHANGED <<inv, at, verdict, watcher, msgs, attempt, cliFailures>>

\* ceos_cli() raises and the switch keeps its configuration: in send_log(),
\* or in either half of the bounce, whose finally kills the captures.
CliFails ==
    /\ pc \in {"send", "remove", "add"} /\ cliFailures < MaxCliFailures
    /\ cliFailures' = cliFailures + 1
    /\ Raise("error")
    /\ watcher' = IF pc = "send" THEN watcher ELSE PkillTcpdump(watcher)
    /\ UNCHANGED <<inv, at, msgs, hosts, attempt>>

\* The capture is stopped and decoded.  A group ends the probe (PASS or
\* WARN); without one there is a second attempt and then a WARN.
Decode(group) ==
    /\ pc = "decode" \/ (pc = "nothing" /\ ~group)
    /\ watcher' = IF pc = "decode" THEN PkillTcpdump(watcher) ELSE watcher
    /\ attempt' = attempt + 1
    /\ IF ~group /\ attempt' < 2
       THEN pc' = "capture" /\ UNCHANGED at
       ELSE ProbeReturns
    /\ UNCHANGED <<inv, verdict, msgs, hosts, cliFailures>>

------------------------------------------------------------------------------
(* The watcher threads and the world outside.                              *)

\* docker exec gets its tcpdump to listen, sooner or later, or not at all.
Attach(f) ==
    /\ watcher[f] = "starting"
    /\ watcher' = [watcher EXCEPT ![f] = "capturing"]
    /\ UNCHANGED <<pc, inv, at, verdict, msgs, hosts, attempt, cliFailures>>

\* docker exec returned "1 packet captured": the thread sets the event.
SetEvent(f) ==
    /\ watcher[f] = "packet"
    /\ watcher' = [watcher EXCEPT ![f] = "event"]
    /\ UNCHANGED <<pc, inv, at, verdict, msgs, hosts, attempt, cliFailures>>

\* timeout 30 ends a tcpdump that saw nothing.
WatcherTimeout(f) ==
    /\ watcher[f] = "capturing"
    /\ watcher' = [watcher EXCEPT ![f] = "ended"]
    /\ UNCHANGED <<pc, inv, at, verdict, msgs, hosts, attempt, cliFailures>>

\* A queued message reaches the collector's log over TLS ...
Arrive(m) ==
    /\ <<m, "tls">> \in pending
    /\ pending' = pending \ {<<m, "tls">>}
    /\ log' = log \cup {m}
    /\ UNCHANGED <<pc, inv, at, verdict, watcher, wire, hosts, attempt, cliFailures>>

\* ... or the wire in cleartext, where every tcpdump -c 1 that listens
\* takes it and ends.
Leak(m) ==
    /\ <<m, "cleartext">> \in pending
    /\ pending' = pending \ {<<m, "cleartext">>}
    /\ wire' = wire \cup {Family}
    /\ watcher' = [f \in FamilySet |-> IF watcher[f] = "capturing" THEN "packet" ELSE watcher[f]]
    /\ UNCHANGED <<pc, inv, at, verdict, log, hosts, attempt, cliFailures>>

Main ==
    \/ StartWatcher \/ SendLog \/ PollEvent \/ Grep \/ PollAgain
    \/ StartCapture \/ RemoveHosts \/ AddHosts
    \/ \E group \in BOOLEAN : Decode(group)

Next ==
    \/ Invoke \/ Main \/ Timeout \/ CliFails
    \/ \E f \in FamilySet : Attach(f) \/ SetEvent(f) \/ WatcherTimeout(f)
    \/ \E m \in Messages : Arrive(m) \/ Leak(m)

Spec == Init /\ [][Next]_vars

\* The process runs, every docker exec returns, and the clock reaches the
\* deadline of a loop that keeps sleeping.
FairSpec == Spec /\ WF_vars(Main) /\ SF_vars(Timeout)
------------------------------------------------------------------------------
TypeOK ==
    /\ pc \in {"idle", "start", "send", "poll", "grep", "sleep",
               "capture", "remove", "add", "decode", "nothing"}
    /\ inv \in 0..MaxInvocations /\ at \in DOMAIN Families
    /\ verdict \in [FamilySet -> Verdicts]
    /\ watcher \in [FamilySet -> WatcherStates]
    /\ pending \subseteq Messages \X Transports
    /\ log \subseteq Messages
    /\ wire \subseteq FamilySet
    /\ hosts \subseteq FamilySet
    /\ attempt \in 0..2 /\ cliFailures \in 0..MaxCliFailures

\* "Send log with unique marker; verify in collector log": a probe that
\* reports delivery saw its own message in the collector log.
DeliveredIsInLog ==
    \A f \in FamilySet : verdict[f] = "delivered" => <<inv, f>> \in log

\* The cleartext alarm of a probe is never false and never left over from
\* an earlier probe: cleartext from the switch was on the wire during it.
NoFalseAlarm ==
    \A f \in FamilySet : verdict[f] = "cleartext" => f \in wire

\* No probe starts on a switch whose logging hosts an earlier one removed.
ProbesSeeBothHosts == pc \in {"start", "send", "poll", "grep", "sleep"} => hosts = FamilySet

\* Every invocation returns, with a verdict for the families it probed.
InvocationEnds == pc # "idle" ~> pc = "idle"

\* "Ensure delivery did not fall back to plain TCP/UDP": the probe does not
\* report delivery when its own capture already has a cleartext packet.
NoPassOverCapture ==
    [][pc = "grep" /\ pc' = "capture" => watcher[Family] \notin {"packet", "event"}]_vars
==============================================================================
