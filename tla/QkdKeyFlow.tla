----------------------------- MODULE QkdKeyFlow ------------------------------
(***************************************************************************)
(* Who takes keys from the KME pair, and when.  The pool is filled by the  *)
(* simulator every KEY_GEN_SEC_TO_GEN seconds and drawn on by              *)
(*                                                                         *)
(*   make deploy        wait_for_kme_pool() in lab/wait_kme_pool.py        *)
(*   make test-kme      enc_keys_on_kme_a() and dec_keys_on_kme_b() in     *)
(*                      lab/test_kme.py                                    *)
(*   the SAE client     roundtrip_keys() in lab/kme_sae_client.py          *)
(*   the QuaDRA agents  of the two switches, which rotate the static SAK   *)
(*                      of their link with each key                        *)
(*                                                                         *)
(* while make test-macsec-qkd (lab/test_macsec_qkd.py) reads, one command  *)
(* after the other, what the agents and the KMEs left behind.              *)
(*                                                                         *)
(* Time is counted in ticks.  Between two ticks the scripts take any       *)
(* number of steps; a tick waits for a script whose sleep or call is up.   *)
(* A call of a KME takes at most CallTicks.                                *)
(***************************************************************************)
EXTENDS Integers

CONSTANTS GenTicks,       \* KEY_GEN_SEC_TO_GEN
          StaggerTicks,   \* startup-delay of kme-b
          ContainerTicks, \* timeout_sec of wait_for_containers()
          MinWaitTicks,   \* DEFAULT_MIN_WAIT_SEC
          PoolTicks,      \* DEFAULT_TIMEOUT_SEC
          RetryTicks,     \* ENC_KEYS_POOL_TIMEOUT_SEC
          PollTicks,      \* POLL_INTERVAL_SEC and ENC_KEYS_POOL_POLL_SEC
          CallTicks,      \* bound: the longest call of a KME
          MaxPool,        \* bound: MAX_KEY_COUNT of the simulator
          MaxJobs,        \* bound: scripts run after the deploy
          MaxRotations,   \* bound: keys the agents install
          MaxLost         \* bound: answers lost on the way to a script

ASSUME KeyFlowAssumption ==
    /\ {GenTicks, PoolTicks, PollTicks, MaxPool} \subseteq Nat \ {0}
    /\ {StaggerTicks, ContainerTicks, MinWaitTicks, RetryTicks, CallTicks,
        MaxJobs, MaxRotations, MaxLost} \subseteq Nat

VARIABLES up, stopped,  \* the KME containers run; the KMEs have stopped for good
          gen, pool,    \* ticks to the next key, and keys in the pool
          job, pc,      \* the running script, and where it is
          sleep, left,  \* ticks to the end of its sleep and to its deadline
          call, answer, \* age and outcome of its call of a KME
          jobs, done,   \* scripts started; the last one and how it ended
          deployed,     \* the switches are up
          agent, key,   \* the QuaDRA agents; the SAK each end has installed
          plain, reach, \* keys are shown in the clear; agents reach the KMEs
          seen,         \* key in the master's configuration when it was read
          latest,       \* latest[e]: last POST of endpoint e in the KME log
          rival, took, lost, insync  \* history of the running or last script

kme    == <<up, stopped, gen, pool>>
clocks == <<sleep, left, call>>
script == <<job, pc, answer, jobs, done, deployed, seen>>
link   == <<agent, key>>
fixed  == <<plain, reach>>
hist   == <<rival, took, lost, insync>>
vars   == <<kme, clocks, script, link, fixed, latest, hist>>

Ends == {"ceos1-both", "ceos3-qkd"}
Endpoints == {"enc_keys", "dec_keys"}
Logged == {"none", "failed", "200"}

Least(m, n) == IF m < n THEN m ELSE n

InSync == key["ceos1-both"] = key["ceos3-qkd"]

Init ==
    /\ up = FALSE /\ stopped = FALSE /\ gen = 0 /\ pool = 0
    /\ job = "none" /\ pc = "idle" /\ answer = "none" /\ jobs = 0
    /\ sleep = 0 /\ left = 0 /\ call = 0
    /\ done = <<"none", "none">> /\ deployed = FALSE /\ seen = 0
    /\ agent = "absent" /\ key = [e \in Ends |-> 0]
    /\ plain \in BOOLEAN /\ reach \in BOOLEAN
    /\ latest = [e \in Endpoints |-> "none"]
    /\ rival = FALSE /\ took = 0 /\ lost = 0 /\ insync = {TRUE}
-----------------------------------------------------------------------------
(* The KMEs and the clock. *)

InCall == pc \in {"enc", "dec", "status"}

\* time.monotonic() against a deadline, or a time.sleep().
RemainingBelow(n) == n - 1
Remaining(n) == IF n > 0 THEN n - 1 ELSE 0

Tick ==
    /\ up /\ ~stopped => gen > 0
    /\ pc \in {"minwait", "sleep"} => sleep > 0
    /\ pc = "containers" => left > 0
    /\ InCall => call < CallTicks
    /\ gen' = Remaining(gen)
    /\ sleep' = Remaining(sleep) /\ left' = Remaining(left)
    /\ call' = IF InCall THEN call + 1 ELSE 0
    /\ UNCHANGED <<up, stopped, pool, script, link, fixed, latest, hist>>

\* Keys are shared by the pair, so the first needs kme-b too.
KmesUp ==
    /\ ~up /\ job = "wait"
    /\ up' = TRUE /\ gen' \in {GenTicks, GenTicks + StaggerTicks}
    /\ UNCHANGED <<stopped, pool, clocks, script, link, fixed, latest, hist>>

Generate ==
    /\ up /\ ~stopped /\ gen = 0
    /\ gen' = GenTicks /\ pool' = Least(pool + 1, MaxPool)
    /\ UNCHANGED <<up, stopped, clocks, script, link, fixed, latest, hist>>

Stop ==
    /\ up /\ ~stopped
    /\ stopped' = TRUE /\ gen' = 0
    /\ UNCHANGED <<up, pool, clocks, script, link, fixed, latest, hist>>

ServeEnc ==
    /\ pc = "enc" /\ answer = "none"
    /\ IF stopped
       THEN answer' = "error" /\ UNCHANGED <<pool, took, latest>>
       ELSE /\ answer' = IF pool > 0 THEN "key" ELSE "empty"
            /\ pool' = Remaining(pool)
            /\ took' = IF pool > 0 THEN took + 1 ELSE took
            /\ latest' = [latest EXCEPT !["enc_keys"] =
                             IF pool > 0 THEN "200" ELSE "failed"]
    /\ UNCHANGED <<up, stopped, gen, clocks, job, pc, jobs, done, deployed, seen,
                   link, fixed, rival, lost, insync>>

\* kme-b knows every key kme-a has handed out.
ServeDec ==
    /\ pc = "dec" /\ answer = "none"
    /\ IF stopped
       THEN answer' = "error" /\ UNCHANGED latest
       ELSE answer' = "key" /\ latest' = [latest EXCEPT !["dec_keys"] = "200"]
    /\ UNCHANGED <<kme, clocks, job, pc, jobs, done, deployed, seen, link, fixed, hist>>

\* The KME has acted, the script learns only that its call failed.
LoseAnswer ==
    /\ answer = "key" /\ lost < MaxLost
    /\ answer' = "error" /\ lost' = lost + 1
    /\ UNCHANGED <<kme, clocks, job, pc, jobs, done, deployed, seen, link, fixed,
                   latest, rival, took, insync>>
-----------------------------------------------------------------------------
(* The QuaDRA agents, which only the deployed switches run. *)

StartAgents ==
    /\ deployed /\ agent = "absent"
    /\ agent' = "idle"
    /\ UNCHANGED <<kme, clocks, script, key, fixed, latest, hist>>

\* The master asks kme-a; an empty pool leaves a failed POST in its log.
AgentFetches ==
    /\ agent = "idle" /\ reach /\ ~stopped
    /\ key["ceos1-both"] < MaxRotations
    /\ agent' = IF pool > 0 THEN "fetched" ELSE "idle"
    /\ pool' = Remaining(pool)
    /\ latest' = [latest EXCEPT !["enc_keys"] = IF pool > 0 THEN "200" ELSE "failed"]
    /\ rival' = (rival \/ pool > 0)
    /\ UNCHANGED <<up, stopped, gen, clocks, script, key, fixed, took, lost, insync>>

AgentDelivers ==
    /\ agent = "fetched" /\ ~stopped
    /\ agent' = "delivered"
    /\ latest' = [latest EXCEPT !["dec_keys"] = "200"]
    /\ UNCHANGED <<kme, clocks, script, key, fixed, hist>>

\* One end after the other replaces the keys of AN 0.
AgentInstalls(e) ==
    /\ agent = "delivered"
    /\ \A f \in Ends : key[e] <= key[f]
    /\ key' = [key EXCEPT ![e] = @ + 1]
    /\ agent' = IF InSync' THEN "idle" ELSE "delivered"
    /\ insync' = IF job = "qkd" THEN insync \cup {InSync'} ELSE insync
    /\ UNCHANGED <<kme, clocks, script, fixed, latest, rival, took, lost>>
-----------------------------------------------------------------------------
(* The scripts. *)

Begin(j, p, budget) ==
    /\ job = "none"
    /\ job' = j /\ pc' = p /\ left' = budget
    /\ sleep' = 0 /\ call' = 0 /\ answer' = "none" /\ jobs' = jobs + 1
    /\ rival' = FALSE /\ took' = 0 /\ lost' = 0 /\ insync' = {InSync}
    /\ done' = <<"none", "none">>
    /\ UNCHANGED <<kme, deployed, seen, link, fixed, latest>>

Finish(outcome) ==
    /\ done' = <<job, outcome>>
    /\ job' = "none" /\ pc' = "idle" /\ answer' = "none"
    /\ sleep' = 0 /\ left' = 0 /\ call' = 0 /\ seen' = 0
    /\ deployed' = (deployed \/ (job = "wait" /\ outcome = "ok"))
    /\ UNCHANGED <<kme, jobs, link, fixed, latest, hist>>

\* The next line of the script: its position, its sleep and its deadline.
Go(p, pause, budget) ==
    /\ pc' = p /\ sleep' = pause /\ left' = budget
    /\ call' = 0 /\ answer' = "none"
    /\ UNCHANGED <<kme, job, jobs, done, deployed, seen, link, fixed, latest, hist>>

\* make deploy: wait_for_containers(), then the minimal wait.
Deploy == jobs = 0 /\ Begin("wait", "containers", ContainerTicks)
ContainersRun == pc = "containers" /\ up /\ Go("minwait", MinWaitTicks, 0)
ContainersMissing == pc = "containers" /\ left = 0 /\ Finish("missing")

PoolDeadlineShort == Go("enc", 0, MinWaitTicks)
PoolDeadline == Go("enc", 0, PoolTicks)
MinWaitOver == pc = "minwait" /\ sleep = 0 /\ PoolDeadline

WaitGetsKeyAndStatus == Go("status", 0, left)
WaitGetsKey == Finish("ok")
PoolReady == job = "wait" /\ answer = "key" /\ WaitGetsKey
PoolNotReady ==
    /\ job = "wait" /\ answer \in {"empty", "error"}
    /\ Go("status", 0, left)

\* docker inspect or docker exec takes longer than its timeout: nothing
\* catches TimeoutExpired, and make deploy ends.
PoolCallHangs == job = "wait" /\ pc \in {"containers", "enc", "status"} /\ Finish("error")
StatusReturns == pc = "status" /\ Go("sleep", PollTicks, left)

PollAgainRearmed == Go("enc", 0, PoolTicks)
PollAgain == Go("enc", 0, left)
WaitPolls ==
    /\ job = "wait" /\ pc = "sleep" /\ sleep = 0
    /\ IF left > 0 THEN PollAgain ELSE Finish("empty")

\* make test-kme retries a pool that is empty, until its deadline.
RetryBudgetShort == RetryTicks - 2 * PollTicks
RetryBudget == RetryTicks
TestKme == deployed /\ jobs <= MaxJobs /\ Begin("kme", "enc", RetryBudget)
KmeRetries ==
    /\ job = "kme" /\ answer = "empty" /\ left > 0
    /\ Go("sleep", PollTicks, left)
KmePolls == job = "kme" /\ pc = "sleep" /\ sleep = 0 /\ Go("enc", 0, left)

\* roundtrip_keys() of the SAE client tries once.
SaeRoundTrip == deployed /\ jobs <= MaxJobs /\ Begin("sae", "enc", 0)

GetsKey ==
    /\ job \in {"kme", "sae"} /\ pc = "enc" /\ answer = "key"
    /\ Go("dec", 0, 0)
DecMatches == pc = "dec" /\ answer = "key" /\ Finish("ok")
KeyFails ==
    /\ job \in {"kme", "sae"}
    /\ \/ answer = "error"
       \/ answer = "empty" /\ left = 0
    /\ Finish(answer)

\* make test-macsec-qkd.
TestMacsecQkd == deployed /\ jobs <= MaxJobs /\ Begin("qkd", "extension", 0)

ExtensionInstalled ==
    /\ pc = "extension"
    /\ IF agent = "absent" THEN Finish("skipped") ELSE Go("config", 0, 0)

ReadMasterConfig ==
    /\ pc = "config"
    /\ pc' = "compare" /\ seen' = key["ceos1-both"]
    /\ UNCHANGED <<kme, clocks, job, answer, jobs, done, deployed, link, fixed, latest, hist>>

\* The profile of an end that holds key k: rx and tx are reversed at the slave.
Profile(e, k) ==
    IF e = "ceos1-both" THEN [rx |-> <<"rx", k>>, tx |-> <<"tx", k>>]
                        ELSE [rx |-> <<"tx", k>>, tx |-> <<"rx", k>>]

SameDirection(m, s) == m.rx = s.rx /\ m.tx = s.tx
CrossMatch(m, s) == m.rx = s.tx /\ m.tx = s.rx

\* Identifiers and ANs always map: AN is 0 at both ends, in the configuration
\* and on the interface.  The keys are compared only when they are in the clear.
PeerMapping(m, s) == plain => CrossMatch(m, s)
CompareConfigs ==
    /\ pc = "compare"
    /\ IF PeerMapping(Profile("ceos1-both", seen), Profile("ceos3-qkd", key["ceos3-qkd"]))
       THEN Go("enc_keys", 0, 0)
       ELSE Finish("keys")

CheckLog(e, next) ==
    /\ pc = e
    /\ IF latest[e] = "200" THEN Go(next, 0, 0) ELSE Finish("log")

\* A CLI command that fails counts as an extension that is not there.
QkdCommandFails ==
    /\ job = "qkd"
    /\ Finish(IF pc = "extension" THEN "skipped" ELSE "error")

PingUnread == InSync \/ TRUE
PingPasses == InSync
PingPeer(p, next) ==
    /\ pc = p
    /\ IF PingPasses THEN next ELSE Finish("ping")
PingFromMaster == PingPeer("ping", Go("ping back", 0, 0))
PingFromSlave == PingPeer("ping back", Finish("ok"))
-----------------------------------------------------------------------------
Serve == ServeEnc \/ ServeDec
Wait == \/ ContainersRun \/ ContainersMissing \/ MinWaitOver \/ PoolReady
        \/ PoolNotReady \/ StatusReturns \/ WaitPolls
Kme == KmeRetries \/ KmePolls \/ GetsKey \/ DecMatches \/ KeyFails
Qkd == \/ ExtensionInstalled \/ ReadMasterConfig \/ CompareConfigs
       \/ CheckLog("enc_keys", "dec_keys") \/ CheckLog("dec_keys", "ping")
       \/ PingFromMaster \/ PingFromSlave \/ QkdCommandFails
Scripts == Wait \/ Kme \/ Qkd
Start == Deploy \/ TestKme \/ SaeRoundTrip \/ TestMacsecQkd
Agents == \/ StartAgents \/ AgentFetches \/ AgentDelivers
          \/ \E e \in Ends : AgentInstalls(e)

Next == \/ Tick \/ KmesUp \/ Generate \/ Stop \/ Serve \/ LoseAnswer
        \/ Agents \/ Start \/ Scripts \/ PoolCallHangs

Spec == Init /\ [][Next]_vars

\* Time passes, the KMEs answer and the scripts run on.  Nobody has to start a
\* script, no call has to hang, and the agents owe nothing.
FairSpec == Spec /\ WF_vars(Tick) /\ WF_vars(Generate) /\ WF_vars(Serve) /\ WF_vars(Scripts)
-----------------------------------------------------------------------------
Jobs == {"none", "wait", "kme", "sae", "qkd"}
Outcomes == {"none", "ok", "missing", "empty", "error", "skipped", "keys", "log", "ping"}
Places == {"idle", "containers", "minwait", "enc", "dec", "status", "sleep", "extension",
           "config", "compare", "enc_keys", "dec_keys", "ping", "ping back"}

\* Type correctness of the KMEs, the scripts, the agents and the clocks.
TypeOK ==
    /\ {up, stopped, deployed, plain, reach, rival} \subseteq BOOLEAN
    /\ gen \in 0..(GenTicks + StaggerTicks) /\ pool \in 0..MaxPool
    /\ job \in Jobs /\ pc \in Places /\ answer \in {"none", "key", "empty", "error"}
    /\ jobs \in 0..(MaxJobs + 1) /\ done \in Jobs \X Outcomes
    /\ {sleep, left} \subseteq Nat /\ call \in 0..CallTicks
    /\ agent \in {"absent", "idle", "fetched", "delivered"}
    /\ key \in [Ends -> 0..MaxRotations] /\ seen \in 0..MaxRotations
    /\ latest \in [Endpoints -> Logged]
    /\ took \in Nat /\ lost \in 0..MaxLost /\ insync \subseteq BOOLEAN

\* make deploy gives up on the pool only when the KMEs have stopped: minimal
\* wait and polling outlast the first generation, the stagger of kme-b and a
\* key lost with its answer (wait_for_kme_pool()).
DeployWaitSucceeds == done = <<"wait", "empty">> => stopped

\* make test-kme reports an empty pool only when an agent took a key while it
\* was retrying, or the KMEs have stopped: its 35 s of polling span a whole
\* generation of 30 s (enc_keys_on_kme_a()).
RetryOutlastsGeneration == done = <<"kme", "empty">> => stopped \/ rival

\* A script takes one key from the pool, and another only for an answer it
\* never got: polling must not drain what the switches wait for.
OneKeyPerScript == took <= 1 + lost

\* make test-macsec-qkd reports keys that do not match, or a dead link, only
\* when the ends did differ during the check: a rotation between the reads of
\* the two switches is the only excuse (check_static_sak_key_sync()).
KeyAlarmIsReal == done \in {<<"qkd", "keys">>, <<"qkd", "ping">>} => FALSE \in insync

\* It does not pass over ends whose keys differed from beginning to end, even
\* where keys are shown encrypted and are never compared (check_quadra_link_ping()).
MismatchDetected == done = <<"qkd", "ok">> => TRUE \in insync

\* Every script ends, whatever the KMEs do: all retries have a deadline.
ScriptsEnd == job # "none" ~> job = "none"
==============================================================================
