# Verification of the Arista quantum-safe lab

TLA+ models of the parts of this repository that keep state, wait, retry or run
beside each other, the TLC runs that check them and the TLAPS proofs about them.
`PROJECT.json` lists components, runs, mutants, the source lines of every
definition, findings, hazards and theorems.

The repository builds a containerlab topology of three Arista switches, two key
management entities (KMEs), a RADIUS server, a syslog collector and a
test runner, and checks the running lab with Python scripts. Most of its
behaviour is sequential; what is hard is what the scripts and containers do
while something else changes: key rotation, reauthentication, a second process,
a timeout, a step that fails half way.

## Inventory

| Component | Sources | State it keeps | What makes it correct |
|---|---|---|---|
| KME domain scanner | `docker/kme/scanner.py` | `kme_list`, `kme_lock`, one thread per KME beside the HTTP handlers | no deadlock of mutual scans, handlers see whole scans, requests are answered |
| RadSec and management PKI, KME PKI | `lab/gen_pki.py`, `lab/gen_kme_pki.py` | keys, certificates, SAN markers, published copies | every run that returns leaves a usable store, whatever died before |
| Syslog collector supervisor | `docker/syslog/entrypoint.sh`, `healthcheck.sh` | attempt, streak, the process it started | a replaced instance is on its way out, readiness only after a streak, a dead or wedged listener is replaced |
| Syslog delivery check | `lab/test_syslog.py`, `lab/syslog_checks.py`, the probe in `lab/test_pqc_connections.py` | watcher threads and their events, the collector's log, the logging hosts of the switch | a pass means delivery without cleartext, no false alarm, the switch is left as it was |
| KME pool wait, KME check, SAE client | `lab/wait_kme_pool.py`, `lab/test_kme.py`, `lab/kme_sae_client.py`, `lab/kme_http.py` | deadlines, the pool they draw on | waits outlast the generator, polling does not drain the pool, everything ends |
| QuaDRA / QKD check | `lab/test_macsec_qkd.py` | what it read, one command after the other | alarms over keys are real, a lasting mismatch is found |
| Dynamic MACsec check | `lab/test_macsec_dot1x.py`, `lab/ceos_json.py` | the CKNs it read, the login count | alarms are real although sessions rotate, the wait sees a reauthentication |
| QuaDRA installation | `lab/install_quadra.py` | extension files and agents on two switches | a second call completes what a first one left |
| Lab lifecycle, rendering, topology validation | `Makefile`, `lab/render_topo.py`, `lab/validate_topo.py`, `lab/topology_contract.py` | rendered files, running nodes, the QuaDRA file each of them took | a deploy that succeeds is of one mould, the mark of the file rule is true, redeploy gets out of everything |
| KME start-up and firewall | `docker/kme/entrypoint.sh` | rules of two address families | nobody else ever reaches the key API |
| TLS, SSH, gRPC, OpenConfig, RadSec probes | `lab/tls_wire.py`, `lab/probe_client.py`, `lab/test_*.py` | none between commands | the decision taken from one output |
| Address functions of the topology contract | `lab/topology_contract.py` | none | addresses lie in their subnets |
| Aggregate runner | `lab/test_lab.py`, `docker/harness/` | results of the suites | each suite is counted once |
| Reporting, configurations, images, documentation | the rest | none | not a matter of states |

How they interact: `make deploy` renders (configurations, both PKIs, topology),
starts the KMEs, waits for the pool and deploys the rest; the scanners of the
KMEs call each other and share their lock with every handler of the key API; the
QuaDRA agents of two switches and the scripts draw on one pool; the checks read
switches, logs and KMEs that change meanwhile. The hard behaviours, each at its
line, are the hazards of `PROJECT.json`.

## Modules

| Module | Models | Composition |
|---|---|---|
| `KmeScanner` | the scanner thread of each KME, the handlers that share its lock, crashes of containers | implements `KmeDomain` |
| `KmeDomain` | abstract specification: a directory that changes as a whole and never under a reader | |
| `KmeScannerProofs` | proofs about `KmeScanner` | |
| `PkiStore` | one run after the other of either generator, step by step | |
| `PkiStoreProofs` | proofs about `PkiStore` | |
| `SyslogSupervisor` | the script that is PID 1 and the syslog-ng processes it starts | |
| `SyslogSupervisorProofs` | proofs about `SyslogSupervisor` | |
| `SyslogDelivery` | the probe's main thread, its watcher threads, the switch, the wire, the log | |
| `SyslogDeliveryProofs` | proofs about `SyslogDelivery` | |
| `QkdKeyFlow` | the key pool, the scripts that draw on it, the agents, the QuaDRA check | joins the pool wait, KME check, SAE client and QuaDRA check |
| `QkdKeyFlowProofs` | proofs about `QkdKeyFlow` | |
| `MacsecDot1x` | the 802.1X / MKA check against a link that is reauthenticated | |
| `MacsecDot1xProofs` | proofs about `MacsecDot1x` | |
| `QuadraInstall` | the installation of the QuaDRA extension on two switches, call by call | has no specification of its own |
| `LabLifecycle` | the Makefile targets over rendered files and nodes, with rendering and validation | composes `QuadraInstall` |
| `LabLifecycleProofs` | proofs about `LabLifecycle` and `QuadraInstall`: the marks, redeploying, installing | |
| `LabDeployProofs` | proofs about `LabLifecycle`: types, and what deploying and rendering leave behind | extends `LabLifecycleProofs` |

`MCKmeScanner`, `MCPkiStore`, `MCSyslogDelivery` and `MCLabLifecycle` supply
functions, sequences and sets of records a configuration file cannot write. Operators under the headings
"Plausible bugs" or "Bug" are not part of a specification: each is what a
definition would be if the code had that bug, and the mutants of `PROJECT.json`
show that a property would notice.

### KmeScanner

`pc[k]` is the position in `Scanner.start()`: `loop` (the 15 s pause),
`cleared` (first section), `fetch` and `await` (before and in
`requests.get()`), `merged` (second section), `dead` (KeyError, the lock kept)
and `down` (the container). One action per section boundary or HTTP event.
A handler holds the lock from `before_request()` (`Enter`) to its answer
(`Leave`); the answer is what the waiting scanner stages. One handler per client
and server is a bound: a client that lost its handler's answer asks again only
when that handler is gone. `NoKme` and `FindKme` translate `find_kme()`.

### PkiStore

`Plan` is the order in which the generator issues and publishes, `Kind` when a
leaf is reissued: `marked` (SAN marker), `once` (the certificate exists),
`always`. A run may die between any two writes (`Crash`); openssl writes an
output file whole, key before certificate. `WipeLeaf` and `WipeCa` are the
`rmtree` of the KME store, file by file in any order. Serial files and requests
are left out. What `make clean` removes of either store, and leaves of it when it
stops, is in `LabLifecycle`. The KME store may start with what an earlier version left: a CA
without `keyCertSign` that signed everything.

### SyslogSupervisor

Both `pid=$(start_syslog)` lines start syslog-ng in a command substitution, so
the script continues only when nobody holds the substitution's pipe, and
`wait "$pid"` finds a process that is no child of the shell. Whether syslog-ng
keeps its standard output open is a property of that external program: `held`
covers both. When it does not, the script starts the next syslog-ng while the one
before may still be stopping, own the port (`Bind` fails) and answer probes
(`Listening`); when it does, the substitution outlasts the process.
`OthersAreLeaving` is about either: every process but the last one started is
gone or has been told to stop. kill -0 and the probe that follows it are separate steps, so an
instance may die in between.

### SyslogDelivery

A message is `<<invocation, family>>`, its needle the family only. A watcher
thread goes through `starting` (docker exec), `capturing`, `packet` (tcpdump
took one), `event`, or `ended`. The deadline may pass after any sleep. A failing
CLI call applies nothing. An invocation is a process: a tcpdump left behind by an
earlier one tells nobody what it sees.

### QkdKeyFlow

Time is counted in ticks of 2.5 s, in which every interval of the code is whole:
a key every 30 s, kme-b 10 s later, 60 s for the containers, 15 s minimal wait,
90 s for the pool, 35 s of retries, 5 s polls. `Tick` waits for a script whose sleep is
up and for a call that took `CallTicks`. A call of the pool wait that runs into the
timeout of `docker exec` or `docker inspect` ends `make deploy`, since nothing
catches `TimeoutExpired` (`PoolCallHangs`). The agents fetch, deliver and install
one end after the other at any time. `took`, `lost`, `rival` and `insync` are
history.

### MacsecDot1x

`Plan` is the script as a sequence of checks; one action per kind of check. A
reauthentication is logged, then each switch creates the participant of the new
session, succeeds when the other end has one too, transmits with its SAK and
drops the old participant, in any order the deadlines allow. `LivePeers` and
`Ckns` translate what the JSON helpers pick from a list of two participants.
The test for a successful participant is void in the code (the key `success`
itself contains the text) and so not a guard. Once the script turns to the QuaDRA
pair nobody looks at the link again and the model lets it stand still.

### LabLifecycle and QuadraInstall

An invocation of make is `inv`: its target, the settings of its command line and
the steps that are left (`todo`). `Recipe` has the targets as sequences of
steps; a file rule that finds its target missing or older than a template, and
`gen-topo` always, puts the steps of `render_lab()` in front (`RenderSteps`).
A step may fail, or the user may press Ctrl-C, before any step and between
the parts of one (`Die`); what it did stays, also a rendering of several files of
which some are rewritten (`Partly`). Between targets the user edits a
template, and at any time a newer file may appear in `download/quadra`.

The RadSec certificates come out of a work directory that every invocation reuses,
so their step has parts: `work` holds the CA, the key, certificate and SAN marker of a leaf, and
the place of the generator (`EnsureCa`, `NewLeafKey`, `SignLeaf`, `MarkLeaf`,
`CopyLeaf`), and the invocation may die between any two of them. One leaf
stands for all, as each is issued alike and `PkiStore` has them side by side. A
leaf whose marker fits is copied as it is, whoever issued it. `make clean` that stops
while it removes the directory has `Spared` any part of it. `broken` is history:
whose death left a leaf that is not what its marker says, until a clean has removed it.
The KME certificates are issued anew in every run and are one step.

A rendered file is the settings it was rendered from (`Uses` says which of them
its text depends on) and whether its template was sound; a node is the topology
and the configuration or certificates it was created from and the QuaDRA file it
mounts and the one it installs, which the topology looks up separately
(`ResolveBind`, `RenderTopology`). Validation compares what the code compares:
it never looks into certificates, `kme-lab.conf` or the annotations. `Seen`
is `QUADRA_SWIX` as a Python process sees it: make does not export what an
included `.env` assigns, so only recipes that pass it on have it from there.
`torn` marks a `make clean` that died while it removed files.

containerlab is external and modelled from what the Makefile and the setup guide
say of it: it creates the nodes that do not run, rejects a staged deploy while
KMEs run (`docs/setup.md`), and destroys by lab name. One make runs at a time, and
a serial one: `redeploy` names gen-topo, destroy and deploy as prerequisites, whose
order `make -j` would not keep; nothing in the repository uses it.

`DeployedAsAsked` and `LabKeptUntilAccepted` except the RadSec certificates when they
are `Mistrusted`, that is in two cases, both needed: a run for other
addresses died between a new key and its marker (finding 1 as a deploy meets it:
`make deploy` for A, `make gen-topo` for B that dies after `openssl x509`, `make
deploy` for A again succeeds with the certificate of B, and no validation looks into
it), or a clean stopped in the directory, after which a new CA may be made beside
certificates of the old one. A death for the same addresses, at whatever file, and one
anywhere else must not and does not leave anything a later deploy takes for its own.
A file is dropped only just before a step that looks for one and a switch boots
only just before a call of the installation: at no other moment does any step
tell the difference.

`QuadraInstall` has `install_quadra()` with one action per docker or CLI call: a
call may fail before or after its effect, and a switch may boot, which brings
the extension back and leaves the agent shut down. An agent of an older file that
already runs is left alone by the code and accepted by the model; docker cp
onto a file that the topology mounts read-only fails.

## Runs

| Run | Question | Bounds and why they are enough |
|---|---|---|
| `KmeScannerLab` | lock discipline, whole scans, refinement, service under one crash | the lab's two KMEs, which scan each other, one SAE client, every combination of answers; the proofs cover every number for safety |
| `PkiStores` | usable, strict and coherent stores | two address plans, four runs, two deaths: a death, a repair, and a change of plan and back fit in |
| `PkiStale` | the promise "refresh when SANs change" | violated: the marker of an older run vouches for a certificate of a run that died |
| `SyslogSupervisor` | nothing left to itself, readiness, replacement | two process slots, as a third instance would need a second to overlap first; two wedges, three attempts and a streak of three as in the code |
| `SyslogSupervisorUnwatched` | the watch loop's promise | violated when syslog-ng holds the pipe |
| `SyslogDelivery` | real alarms, hosts restored, termination | two families, two invocations (one leaves something for the next), one CLI failure |
| `SyslogDeliveryStale` | "send log with unique marker; verify in collector log" | violated: the needle is the same in every invocation |
| `SyslogDeliveryRace` | "ensure delivery did not fall back to plain TCP/UDP" | violated: the event is not tested again after grep |
| `QkdKeyFlow` | timing of waits and retries, one key per script, real alarms, termination | a deploy and two scripts, two rotations, one lost answer, a pool of two; the real pool of 100000 never fills |
| `MacsecDot1x` | real alarms, rotation seen, termination | every start within the period, one outage; ticks of 2 s, the buffer of 15 s counted as 14 |
| `LabLifecycle` | what deploy, redeploy, gen-topo, clean and install-quadra leave behind | three invocations: one breaks something, one meets it, one repairs; one may die anywhere, also between the files of a rendering (the proofs cover any number); one KME and both switches; two settings, interchangeable, that differ in image and IPv4 subnet; three flaws of templates; two dropped QuaDRA files, one template edit, one failing call |
| `LabLifecycleDotenv` | "The Makefile `-include`s `.env` for every target" | violated: `QUADRA_SWIX` from there reaches the rendering and not the validation |

Deadlock is not checked where the system may stop: a dead scanner that keeps its
lock, an exited container, scripts that have ended, a user who types no more
commands, bounds that are used up.

Assumptions about the outside that decide timing properties are constants: calls
of a KME take at most `CallTicks` (2.5 s), and an EAP exchange and the change of participants take
together less than the 15 s the code allows for (4 s and 6 s are used).
`RetryOutlastsGeneration` needs calls of less than 5 s, the 35 s of retries less the 30 s of
a generation: a call that finds the pool empty and answers 5 s later, when the
deadline has passed, makes the check fail although a key has been there since. curl
allows 15 s (`kme_http.py`), so on a KME that slow the property, and the hypothesis of its
theorem, do not hold.

## Fairness

- `KmeScanner`: threads run (WF); strong fairness for taking a lock, because
  every rival releases it and the scanners pause 15 s between scans. Nobody owes
  a crash, a restart or a request.
- `SyslogSupervisor`: the script runs; a process asked to start or stop does;
  the deadline of a streak that cannot be completed passes. syslog-ng need not
  die or hang.
- `SyslogDelivery`: the main thread runs, every `docker exec` returns, and a loop
  that keeps sleeping reaches its deadline (SF on `Timeout`: the clock).
- `QkdKeyFlow`, `MacsecDot1x`: time passes, the external servers keep their
  deadlines and the script runs on. The agents, the user and the RADIUS server
  owe nothing.
- `PkiStore` and `LabLifecycle` have no liveness property and no fairness: a user
  need not run anything again.

## Proofs

`KmeScannerProofs` proves, from `ScannerAssumption` (KMEs and clients are
disjoint, no KME names itself in `OTHER_KMES`) alone and for every number of
KMEs, clients, peers and crashes: `TypeOK`, `LockInv`, `NoLockAcrossHttp`,
`HandlersSeeWholeScan`, `StableUnderHandler`, and that `KmeScanner` implements
`KmeDomain`. `LockInv` is inductive with `TypeOK`; the statements about the
list are not, since nothing in them says what the list holds before a handler
enters. `ListInv` adds it: the list is empty from the clearing to the merge, and
between two scans it equals what the finished scan fetched. The refinement maps
a reader to the lock's holder unless that is the scanner itself: the clearing is
`Forget`, the merge `Learn` (into a list that `ListInv` knows to be empty),
`Enter` and `Leave` are lookups, a crash is `Fail`, and all else stutters.

`PkiStoreProofs` proves `LeavesChainToCa` and `CaSignsWithItsKey` from
`PkiAssumption` (plans name leaves of their store, there is an address plan, and
"no file" is none of the values) for any stores, leaves, plans and address plans
and any number of runs and deaths. Neither is inductive: that a new CA finds no
leaves of an old one depends on how the run got there. `CaInv` says how. A CA is
made in an empty store only (phases `caKey` and `caCrt`). In a store whose CA
must be strict, a run that dies while it wipes leaves a CA that is still weak,
or none, and either makes the next run wipe again. The other store is never
wiped, so without a CA it has no leaves. A CA whose key file does not match its
certificate is a weak one that is half wiped.

`PublishedCaStrict` rests on `PublishInv`: a run that is past its first step has
the strict CA it found or made, and once it is past the step that publishes the
CA the published one is it. `PublishAssumption` (every plan publishes the CA)
makes a run that has returned such a run.

`CoherentUnlessReplanned`, what every run that returns has published, takes
three more invariants and `OrderAssumption`: every plan looks at a leaf before it
publishes it, so that publishing copies what was looked at. `PairInv` is about
the files in the work directory beside a CA that will be used: a certificate
that fits its key or is about to be replaced, and a marker that is true unless a
run for its address plan died, which is the exception the property names.
`RunInv`: a leaf that the present run has looked at is current. `CopyInv`: a leaf
it has published is still the one in the work directory.

`SyslogSupervisorProofs` proves `TypeOK`, `ReadyAfterStreak` and
`OthersAreLeaving` for any number of process slots, attempts and wedges. `CounterInv`: the
streak never exceeds the probes that succeeded in a row, and either loop is left
as soon as its counter is up. `LeavingInv` adds to `OthersAreLeaving` what makes it
inductive: wherever the script is about to start a process, the one before it is
gone or was told to stop.

`SyslogDeliveryProofs` proves `TypeOK`, `NoFalseAlarm` and `ProbesSeeBothHosts`
for any families, invocations and failing CLI calls.
`CaughtInv`: what the thread of the running probe caught was on the wire during
it; `LaterOff` (threads of probes to come do not exist) makes it true when the
next probe begins. `HostsInv`: hosts are missing only between the two calls of the
bounce, or after an invocation that failed between them.

`QkdKeyFlowProofs` proves `TypeOK`, `OneKeyPerScript`, `KeyAlarmIsReal` and
`MismatchDetected` for any scripts, rotations, pool size and timing constants.
`OneKeyInv`: a script that is about to ask for a key has none that it received.
`AgentInv`: the agents install one key at both ends before they fetch the next,
so the ends are never further apart than one key. `SyncInv`: the history of
agreement has the present moment, and a moment of difference when the key that
was read from the one end is not the other's.

The two timing properties are theorems under hypotheses on the intervals,
which the code's values satisfy. `RetriesOutlastAGeneration` (hence
`RetryOutlastsGeneration`) needs retries longer than a generation and a call:
`RetryInv` ties the deadline of `make test-kme` to the time to the next key, as
long as no agent takes it. `DeployWaitsLongEnough` (`DeployWaitSucceeds`) needs
waits longer than the first generation, the stagger, a cycle of polling and, for
every answer that is lost, another generation and cycle. Its `WaitInv` says that
the time left always exceeds `Need`, the time in which there will be a key whatever
is still lost. `TurnInv` is the bookkeeping both share: who waits where, and
that a first generation is only waited for while nothing was generated.

`MacsecDot1xProofs` proves the three invariants of `MacsecDot1x` for any period,
buffer, polling and number of outages, and any speed of the switches that the
hypotheses below leave open. `StepsAre` says which check is at which place of
`Plan`, with the wait and without, and `NextIs` that every step is one of the
link or one of seven kinds of the script. `Typed` and `LinkInv` are inductive
together and give `TypeOK`: a closed port has no participants, an exchange ends within
`EapTicks`, and while participants change the timer has run no longer than they
have. On them rest

- `MovedInv`: while no CKN has changed since the authenticator's was read, the
  supplicant's is the same. It needs no hypothesis.
- `PollInv`, if `MkaTicks` is less than the polls take (`PollingIsLong`) and a
  poll, a call and a change of participants less than the period
  (`PeriodIsLong`): after n failed looks the change has lasted n intervals
  and the next reauthentication is still too far off to begin another.
- `CountInv`, if an exchange is shorter than the buffer (`BufferIsLong`): while
  the script sleeps, the end of the next exchange is never further away than the
  end of the sleep.
- `RotationInv`, if an exchange and the change after it are shorter than the buffer
  (`WaitIsLong`): after the sleep no participant with peers has the CKN of the
  baseline, so none can be read.

The first three give `AlarmsAreReal`, the last `RotationObserved`. The buffer of
15 s, a period of 60 s and 15 polls of 2 s leave an exchange and a change
together less than 15 s; how fast EOS is, the repository does not say.

`LabLifecycleProofs` proves `MarkVouchesForAll`, `RedeployRecovers`,
`InstallLeavesAgents` and `InstallFailsForAReason` for any nodes, settings,
flaws, overrides and lists of switches, and any number of invocations, deaths,
edits, dropped files and failing calls. All of it is about the rest of a recipe, so a
first group of lemmas says where the steps of a tail, an expansion or a
concatenation are, and `StepMoves` that every step of the specification ends
the recipe, takes its first step off, or replaces that by the steps of a rendering or of the
staged deploy. `RenderInv`: whatever the topology is rendered after is there or
still before it in the recipe. `CleanInv`: removing and rendering never meet in one recipe.
`RedeployInv`: no node starts before the destroy, and after it none is left of before.
`JobInv`: every switch that the installation has passed has the extension, and
an agent unless it booted since. The assumptions are that `Quadra` is a
nonempty sequence and that "no file" is not a file.

`LabDeployProofs` adds `TypeOK`, `LabKeptUntilAccepted`, `DeployedAsAsked` and
`GenTopoAccepted`, all about invocations that render before they act. Their
invariant follows one invocation through its recipe. `PlanInv` is the order that
every rest of a recipe keeps: rendering before the validation, the look for the QuaDRA file
before the topology, the validation before anything is destroyed or started.
`PendingInv`: what is not still to be rendered is as this invocation's settings
and the templates say. `LookupInv`: the two places that look for the
QuaDRA file agree unless a file was dropped in between. `AcceptedInv`: once the
validation is behind, everything is rendered, sound and of one QuaDRA file; so
what `redeploy` destroys, it destroys for files that were accepted. `NodesInv`:
the nodes that this invocation created have those settings and that file.
`PkiInv` is what may be relied on in the work directory: unless a
clean was interrupted there is no certificate without a CA, and a marker that fits
the addresses at hand vouches for a certificate of those addresses, its key and its CA,
unless a run for others died over it (`Vouches`, `Unfinished`); and where the generator is
tells what of its leaf is done. So what `CopyLeaf` publishes is as asked or
`Mistrusted`. `StagedInv` (KMEs start from files that can be mounted) is needed for
the types. `GenTopoAccepted` is proved for `QUADRA_SWIX` from the shell or the
command line; with `.env` it is false (finding 5).

Model-checked only: the liveness properties (`SaeServed`, `PeersRediscovered` and
`LostPeerForgotten` of `KmeScanner`, `WatchLoopRestarts` and `DeathHandled` of
`SyslogSupervisor`, `InvocationEnds` of `SyslogDelivery`, `ScriptsEnd` of
`QkdKeyFlow`, `CheckEnds` of `MacsecDot1x`): they rest on fairness, and what an
action needs to be enabled is beyond the prover. Every safety property of the passing runs is proved.
The other way round `NoLockAcrossHttp` and `StableUnderHandler` of
`KmeScanner` are proved and in no run. The hypotheses of theorems about time are not
assumptions of the modules: a run may set other intervals.

## Findings

1. `gen_pki.py`: a run that dies between signing and marking leaves a certificate
   beside the marker of another address plan; going back to that plan publishes it.
2. `entrypoint.sh` of the collector: with a syslog-ng that keeps its standard
   output the script never reaches its watch loop while an instance lives.
3. `syslog_checks.py`: the probe's marker is not unique, a second invocation
   passes on the first one's message.
4. `syslog_checks.py`: delivery is reported over a captured cleartext packet.
5. `Makefile`: `QUADRA_SWIX` in `.env` reaches the recipe that renders and not the
   one that validates, so with another file in `download/quadra` every gen-topo,
   deploy and redeploy refuses its own topology.

## Plan

The components with state are modelled and their safety properties proved. What
is left, in order of importance:

1. Abstract specifications of the collector's supervisor and of a deployment, with
   refinements proved as that of `KmeDomain` is.
2. A run of `LabLifecycle` with both KMEs, which the theorems already cover.
3. Several handlers per client in `KmeScanner`.

## Not modelled

- KME start-up and firewall (`docker/kme/entrypoint.sh`): the rules of each
  family are added once, in sequence and before the key API listens, by a
  script that ends at the first failing rule. Nothing runs beside it.
- TLS, SSH, gRPC, OpenConfig, RadSec, host and routing probes: each is one command whose
  output decides; there is no state between two of them.
- The address functions of the topology contract: single expressions over
  the `ipaddress` library; their edge cases are listed as hazards.
- The aggregate runner, reporting, EOS JSON helpers beyond `MacsecDot1x`, the import
  check: sequential code over values that nobody else changes.
- Image builds and imports, `make reset` and the test targets of the Makefile.

Console output, wording and verbosity; command lines; parsing of show output
beyond what a decision depends on; static configurations and Dockerfiles; the
validators of the topology, which compare texts with constants; documentation
tooling. External programs (ETSI 014 simulator, QuaDRA agents, syslog-ng,
openssl, EOS, FreeRADIUS) appear only through what the code relies on and are
marked external.
