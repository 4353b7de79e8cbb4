--------------------------- MODULE QkdKeyFlowProofs --------------------------
(***************************************************************************)
(* Proofs about QkdKeyFlow for all intervals, budgets and bounds.  Where a  *)
(* theorem needs the intervals to be in a proportion, it says which.        *)
(***************************************************************************)
EXTENDS QkdKeyFlow, TLAPS

\* The agents install one key at both ends before they fetch the next.
AgentInv ==
    /\ agent # "delivered" => InSync
    /\ agent = "fetched" => key["ceos1-both"] < MaxRotations
    /\ agent = "delivered" =>
          \/ InSync /\ key["ceos1-both"] < MaxRotations
          \/ key["ceos1-both"] + 1 = key["ceos3-qkd"]
          \/ key["ceos3-qkd"] + 1 = key["ceos1-both"]

\* A script that is about to ask for a key has none that it received.
HasNone == took <= lost
OneKeyInv ==
    /\ OneKeyPerScript
    /\ pc \in {"containers", "minwait", "status", "sleep"} => HasNone
    /\ pc = "enc" /\ answer # "key" => HasNone
    /\ answer # "none" => pc \in {"enc", "dec"}
    /\ answer = "empty" => pc = "enc"
    /\ job = "wait" => pc # "dec"

\* insync has recorded the present moment, and a moment of difference when
\* the key read from the master is no longer, or not yet, the slave's.
SyncInv ==
    /\ job = "qkd" => InSync \in insync
    /\ pc = "compare" => job = "qkd" /\ (seen # key["ceos3-qkd"] => FALSE \in insync)
    /\ pc \in {"extension", "config", "enc_keys", "dec_keys", "ping", "ping back"} => job = "qkd"
    /\ pc \in {"containers", "minwait", "status", "sleep", "enc", "dec"} => job # "qkd"
    /\ KeyAlarmIsReal /\ MismatchDetected

\* TypeOK, one variable at a time.
Flags ==
    /\ up \in BOOLEAN /\ stopped \in BOOLEAN /\ deployed \in BOOLEAN
    /\ plain \in BOOLEAN /\ reach \in BOOLEAN /\ rival \in BOOLEAN
Counters ==
    /\ gen \in 0..(GenTicks + StaggerTicks) /\ pool \in 0..MaxPool
    /\ jobs \in 0..(MaxJobs + 1) /\ sleep \in Nat /\ left \in Nat /\ call \in 0..CallTicks
    /\ took \in Nat /\ lost \in 0..MaxLost
Names ==
    /\ job \in Jobs /\ pc \in Places /\ answer \in {"none", "key", "empty", "error"}
    /\ done \in Jobs \X Outcomes /\ agent \in {"absent", "idle", "fetched", "delivered"}
Keys ==
    /\ key \in [Ends -> 0..MaxRotations] /\ seen \in 0..MaxRotations
    /\ latest \in [Endpoints -> Logged] /\ insync \subseteq BOOLEAN
Types == Flags /\ Counters /\ Names /\ Keys

IInv == Types /\ AgentInv /\ OneKeyInv /\ SyncInv

LEMMA Bounds ==
    /\ GenTicks \in Nat \ {0} /\ PoolTicks \in Nat /\ PollTicks \in Nat /\ MaxPool \in Nat \ {0}
    /\ StaggerTicks \in Nat /\ ContainerTicks \in Nat /\ MinWaitTicks \in Nat
    /\ RetryTicks \in Nat /\ CallTicks \in Nat
    /\ MaxJobs \in Nat /\ MaxRotations \in Nat /\ MaxLost \in Nat
  BY KeyFlowAssumption

LEMMA TypesAreTypeOK == Types => TypeOK
<1> SUFFICES ASSUME Types
             PROVE  TypeOK
  OBVIOUS
<1>1. {up, stopped, deployed, plain, reach, rival} \subseteq BOOLEAN
  BY Zenon DEF Types, Flags
<1>2. QED
  BY <1>1 DEF Types, Counters, Names, Keys, TypeOK

LEMMA InitIInv == Init => IInv
<1> SUFFICES ASSUME Init
             PROVE  IInv
  OBVIOUS
<1>1. Types
  <2>1. Flags
    BY DEF Init, Flags
  <2>2. Counters
    BY Bounds DEF Init, Counters
  <2>3. Names
    BY DEF Init, Names, Jobs, Outcomes, Places
  <2>4. Keys
    BY Bounds DEF Init, Keys, Ends, Endpoints, Logged
  <2>5. QED
    BY <2>1, <2>2, <2>3, <2>4 DEF Types
<1>2. AgentInv /\ OneKeyInv
  BY DEF Init, AgentInv, OneKeyInv, OneKeyPerScript, HasNone, InSync, Ends
<1>3. SyncInv
  BY DEF Init, SyncInv, KeyAlarmIsReal, MismatchDetected
<1>4. QED
  BY <1>1, <1>2, <1>3 DEF IInv

-------------------------------------------------------------------------------
(* Helpers of the scripts.                                                 *)

\* The next line of a script, where the invariant allows it to be.
MayBe(p) ==
    /\ p \in Places
    /\ p \in {"minwait", "status", "sleep", "enc"} => HasNone
    /\ p = "dec" => job # "wait"
    /\ p \in {"config", "enc_keys", "dec_keys", "ping", "ping back"} => job = "qkd"
    /\ p \in {"minwait", "status", "sleep", "enc", "dec"} => job # "qkd"
    /\ p \notin {"compare", "extension", "containers"}

LEMMA GoKeeps ==
    ASSUME IInv, NEW p, NEW pause \in Nat, NEW budget \in Nat, Go(p, pause, budget), MayBe(p)
    PROVE  IInv'
<1>0. AgentInv'
  BY DEF IInv, AgentInv, InSync, Go, link
<1>1. Types'
  <2>1. /\ pc' = p /\ sleep' = pause /\ left' = budget /\ call' = 0 /\ answer' = "none"
        /\ UNCHANGED <<up, stopped, gen, pool, job, jobs, done, deployed, seen, agent, key,
                       plain, reach, latest, rival, took, lost, insync>>
    BY DEF Go, kme, link, fixed, hist
  <2>2. Flags' /\ Keys'
    BY <2>1 DEF IInv, Types, Flags, Keys
  <2>3. Counters'
    BY <2>1, Bounds DEF IInv, Types, Counters
  <2>4. Names'
    BY <2>1 DEF IInv, Types, Names, MayBe
  <2>5. QED
    BY <2>2, <2>3, <2>4 DEF Types
<1>2. OneKeyInv'
  BY DEF IInv, OneKeyInv, OneKeyPerScript, HasNone, MayBe, Go, hist, Places
<1>3. SyncInv'
  BY DEF IInv, SyncInv, InSync, KeyAlarmIsReal, MismatchDetected, MayBe, Go, link, hist
<1>4. QED
  BY <1>0, <1>1, <1>2, <1>3 DEF IInv

\* A script ends.
LEMMA FinishKeeps ==
    ASSUME IInv, NEW outcome \in Outcomes, Finish(outcome),
           job = "qkd" /\ outcome \in {"keys", "ping"} => FALSE \in insync,
           job = "qkd" /\ outcome = "ok" => TRUE \in insync
    PROVE  IInv'
<1>1. /\ done' = <<job, outcome>> /\ job' = "none" /\ pc' = "idle" /\ answer' = "none"
      /\ sleep' = 0 /\ left' = 0 /\ call' = 0 /\ seen' = 0
      /\ deployed' = (deployed \/ (job = "wait" /\ outcome = "ok"))
      /\ UNCHANGED <<up, stopped, gen, pool, jobs, agent, key, plain, reach, latest,
                     rival, took, lost, insync>>
  BY DEF Finish, kme, link, fixed, hist
<1>2. Types'
  <2>1. Flags'
    BY <1>1, Zenon DEF IInv, Types, Flags
  <2>2. Counters' /\ Keys'
    BY <1>1, Bounds DEF IInv, Types, Counters, Keys
  <2>3. Names'
    BY <1>1 DEF IInv, Types, Names, Jobs, Places
  <2>4. QED
    BY <2>1, <2>2, <2>3 DEF Types
<1>3. AgentInv' /\ OneKeyInv'
  BY <1>1 DEF IInv, AgentInv, OneKeyInv, OneKeyPerScript, HasNone, InSync
<1>4. SyncInv'
  BY <1>1 DEF IInv, SyncInv, KeyAlarmIsReal, MismatchDetected
<1>5. QED
  BY <1>2, <1>3, <1>4 DEF IInv

\* A script begins.
LEMMA BeginKeeps ==
    ASSUME IInv, NEW j \in Jobs, NEW p \in {"containers", "enc", "extension"},
           NEW budget \in Nat, Begin(j, p, budget), jobs <= MaxJobs,
           p = "extension" <=> j = "qkd"
    PROVE  IInv'
<1>1. /\ job' = j /\ pc' = p /\ left' = budget /\ sleep' = 0 /\ call' = 0 /\ answer' = "none"
      /\ jobs' = jobs + 1 /\ rival' = FALSE /\ took' = 0 /\ lost' = 0 /\ insync' = {InSync}
      /\ done' = <<"none", "none">>
      /\ UNCHANGED <<up, stopped, gen, pool, deployed, seen, agent, key, plain, reach, latest>>
  BY DEF Begin, kme, link, fixed
<1>2. Types'
  <2>1. Flags'
    BY <1>1, Zenon DEF IInv, Types, Flags
  <2>2. Counters'
    BY <1>1, Bounds DEF IInv, Types, Counters
  <2>3. insync' \subseteq BOOLEAN
    BY <1>1, Zenon DEF InSync
  <2>4. Keys'
    BY <1>1, <2>3 DEF IInv, Types, Keys
  <2>5. Names'
    BY <1>1 DEF IInv, Types, Names, Jobs, Places, Outcomes
  <2>6. QED
    BY <2>1, <2>2, <2>4, <2>5 DEF Types
<1>3. AgentInv' /\ OneKeyInv'
  BY <1>1 DEF IInv, AgentInv, OneKeyInv, OneKeyPerScript, HasNone, InSync
<1>4. InSync' \in insync'
  <2>1. InSync' = InSync
    BY <1>1 DEF InSync
  <2>2. QED
    BY <1>1, <2>1
<1>5. SyncInv'
  BY <1>1, <1>4 DEF IInv, SyncInv, KeyAlarmIsReal, MismatchDetected
<1>6. QED
  BY <1>2, <1>3, <1>5 DEF IInv

-------------------------------------------------------------------------------
(* The steps.                                                              *)

\* The clock and the KMEs.
LEMMA KmeStep ==
    ASSUME IInv, Tick \/ KmesUp \/ Generate \/ Stop \/ Serve \/ LoseAnswer
    PROVE  IInv'
<1> USE Bounds DEF Remaining, Least
<1>1. UNCHANGED <<job, pc, jobs, done, deployed, seen, agent, key, plain, reach, rival, insync>>
  BY DEF Tick, KmesUp, Generate, Stop, Serve, ServeEnc, ServeDec, LoseAnswer,
         kme, clocks, script, link, fixed, hist
<1>2. /\ up' \in {up, TRUE} /\ stopped' \in {stopped, TRUE}
  BY DEF Tick, KmesUp, Generate, Stop, Serve, ServeEnc, ServeDec, LoseAnswer, kme
<1>3. Flags'
  BY <1>1, <1>2, Zenon DEF IInv, Types, Flags
<1>4. Counters' /\ Names' /\ Keys'
  <2>1. CASE Tick
    BY <2>1 DEF IInv, Types, Counters, Names, Keys, Tick, script, link, hist
  <2>2. CASE KmesUp \/ Generate \/ Stop
    BY <2>2 DEF IInv, Types, Counters, Names, Keys, KmesUp, Generate, Stop, clocks, script, link, hist
  <2>3. CASE ServeEnc
    BY <2>3 DEF IInv, Types, Counters, Names, Keys, ServeEnc, clocks, link, Endpoints, Logged
  <2>4. CASE ServeDec
    BY <2>4 DEF IInv, Types, Counters, Names, Keys, ServeDec, kme, clocks, link, hist, Endpoints, Logged
  <2>5. CASE LoseAnswer
    BY <2>5 DEF IInv, Types, Counters, Names, Keys, LoseAnswer, kme, clocks, link
  <2>6. QED
    BY <2>1, <2>2, <2>3, <2>4, <2>5 DEF Serve
<1>5. OneKeyInv'
  BY DEF IInv, Types, Counters, OneKeyInv, OneKeyPerScript, HasNone, Tick, KmesUp, Generate, Stop, Serve, ServeEnc, ServeDec,
         LoseAnswer, script, hist
<1>6. AgentInv' /\ SyncInv'
  BY <1>1 DEF IInv, AgentInv, SyncInv, InSync, KeyAlarmIsReal, MismatchDetected
<1>7. QED
  BY <1>3, <1>4, <1>5, <1>6 DEF IInv, Types

\* The agents: a key is installed at one end and then at the other, and
\* insync hears of it.
LEMMA AgentsStep ==
    ASSUME IInv, Agents
    PROVE  IInv'
<1> USE Bounds DEF IInv
<1>0. ASSUME UNCHANGED <<job, pc, done, seen, key, insync>>
      PROVE  SyncInv'
  <2>1. InSync' = InSync
    BY <1>0 DEF InSync
  <2>2. QED
    BY <1>0, <2>1 DEF SyncInv, KeyAlarmIsReal, MismatchDetected
<1>1. CASE StartAgents \/ AgentDelivers
  <2>1. UNCHANGED <<kme, clocks, script, key, fixed, hist>>
    BY <1>1 DEF StartAgents, AgentDelivers
  <2>2. Flags' /\ Counters' /\ OneKeyInv'
    BY <2>1 DEF Types, Flags, Counters, OneKeyInv, OneKeyPerScript, HasNone,
       kme, clocks, script, fixed, hist
  <2>3. SyncInv'
    BY <1>0, <2>1 DEF script, hist
  <2>4. Names' /\ Keys' /\ AgentInv'
    BY <1>1, <2>1 DEF Types, Names, Keys, AgentInv, InSync, StartAgents, AgentDelivers,
       kme, clocks, script, fixed, hist, Endpoints, Logged
  <2>5. QED
    BY <2>2, <2>3, <2>4 DEF Types
<1>2. CASE AgentFetches
  <2>1. /\ UNCHANGED <<up, stopped, gen, clocks, script, key, fixed, took, lost, insync>>
        /\ rival' = (rival \/ pool > 0) /\ pool' = Remaining(pool)
        /\ key["ceos1-both"] < MaxRotations /\ agent = "idle"
        /\ agent' = IF pool > 0 THEN "fetched" ELSE "idle"
        /\ latest' = [latest EXCEPT !["enc_keys"] = IF pool > 0 THEN "200" ELSE "failed"]
    BY <1>2 DEF AgentFetches
  <2>2. Flags'
    BY <2>1, Zenon DEF Types, Flags, script, fixed
  <2>3. Counters' /\ OneKeyInv'
    BY <2>1 DEF Types, Counters, OneKeyInv, OneKeyPerScript, HasNone, Remaining, clocks, script
  <2>4. SyncInv'
    BY <1>0, <2>1 DEF script
  <2>5. Names' /\ Keys' /\ AgentInv'
    BY <2>1 DEF Types, Names, Keys, AgentInv, InSync, script, Endpoints, Logged
  <2>6. QED
    BY <2>2, <2>3, <2>4, <2>5 DEF Types
<1>3. ASSUME NEW e \in Ends, AgentInstalls(e)
      PROVE  IInv'
  <2>1. /\ agent = "delivered" /\ \A f \in Ends : key[e] <= key[f]
        /\ key' = [key EXCEPT ![e] = key[e] + 1]
        /\ UNCHANGED <<kme, clocks, script, fixed, latest, rival, took, lost>>
    BY <1>3 DEF AgentInstalls
  <2>2. /\ agent' = IF InSync' THEN "idle" ELSE "delivered"
        /\ insync' = IF job = "qkd" THEN insync \cup {InSync'} ELSE insync
    BY <1>3 DEF AgentInstalls
  <2>3. Flags' /\ Counters' /\ OneKeyInv'
    BY <2>1 DEF Types, Flags, Counters, OneKeyInv, OneKeyPerScript, HasNone, kme, clocks, script, fixed
  <2>4. InSync' \in BOOLEAN /\ insync' \subseteq BOOLEAN
    <3>1. InSync' \in BOOLEAN
      BY Zenon DEF InSync
    <3>2. QED
      BY <2>2, <3>1 DEF Types, Keys
  <2>5. AgentInv' /\ key' \in [Ends -> 0..MaxRotations]
    BY <2>1, <2>2 DEF Types, Keys, AgentInv, InSync, Ends
  <2>6. Names' /\ Keys'
    BY <2>1, <2>2, <2>4, <2>5 DEF Types, Names, Keys, script
  <2>7. SyncInv'
    <3>1. job = "qkd" => InSync' \in insync' /\ insync \subseteq insync'
      BY <2>2
    <3>2. pc = "compare" /\ seen # key'["ceos3-qkd"] => FALSE \in insync'
      <4>1. CASE FALSE \in insync \/ pc # "compare"
        BY <3>1, <4>1 DEF SyncInv
      <4>2. CASE pc = "compare" /\ FALSE \notin insync /\ seen # key'["ceos3-qkd"]
        <5>1. seen = key["ceos3-qkd"] /\ InSync /\ job = "qkd"
          <6>1. job = "qkd" /\ seen = key["ceos3-qkd"] /\ InSync \in insync
            BY <4>2 DEF SyncInv
          <6>2. InSync
            BY <6>1, <4>2, Zenon DEF InSync
          <6>3. QED
            BY <6>1, <6>2
        <5>2. InSync' = FALSE
          BY <2>1, <5>1, <4>2 DEF InSync, Types, Keys, Ends
        <5>3. QED
          BY <3>1, <5>1, <5>2
      <4>3. QED
        BY <4>1, <4>2
    <3>3. UNCHANGED <<job, pc, seen, done>>
      BY <2>1 DEF script
    <3>4. insync \subseteq insync'
      BY <2>2
    <3>5. QED
      BY <3>1, <3>2, <3>3, <3>4 DEF SyncInv, KeyAlarmIsReal, MismatchDetected
  <2>8. QED
    BY <2>3, <2>5, <2>6, <2>7 DEF Types
<1>4. QED
  BY <1>1, <1>2, <1>3 DEF Agents

\* The scripts, line by line.
LEMMA ScriptsStep ==
    ASSUME IInv, Scripts
    PROVE  IInv'
<1> USE Bounds
<1>0. left \in Nat /\ job \in Jobs /\ pc \in Places
  BY DEF IInv, Types, Counters, Names
<1>w. CASE Wait
  <2>1. CASE ContainersRun
    <3>1. pc = "containers" /\ Go("minwait", MinWaitTicks, 0) /\ MayBe("minwait")
      BY <2>1 DEF ContainersRun, MayBe, Places, IInv, OneKeyInv, SyncInv
    <3>2. QED
      BY <3>1, GoKeeps
  <2>2. CASE ContainersMissing
    <3>1. pc = "containers" /\ Finish("missing") /\ "missing" \in Outcomes
      BY <2>2 DEF ContainersMissing, Outcomes
    <3>2. QED
      BY <3>1, FinishKeeps
  <2>3. CASE MinWaitOver
    <3>1. Go("enc", 0, PoolTicks) /\ MayBe("enc")
      BY <2>3 DEF MinWaitOver, PoolDeadline, MayBe, Places, IInv, OneKeyInv, SyncInv
    <3>2. QED
      BY <3>1, GoKeeps
  <2>4. CASE PoolReady
    <3>1. job = "wait" /\ Finish("ok") /\ "ok" \in Outcomes
      BY <2>4 DEF PoolReady, WaitGetsKey, Outcomes
    <3>2. QED
      BY <3>1, FinishKeeps
  <2>5. CASE PoolNotReady
    <3>1. Go("status", 0, left) /\ MayBe("status")
      BY <2>5 DEF PoolNotReady, MayBe, Places, IInv, OneKeyInv
    <3>2. QED
      BY <3>1, <1>0, GoKeeps
  <2>6. CASE StatusReturns
    <3>1. Go("sleep", PollTicks, left) /\ MayBe("sleep")
      BY <2>6 DEF StatusReturns, MayBe, Places, IInv, OneKeyInv, SyncInv
    <3>2. QED
      BY <3>1, <1>0, GoKeeps
  <2>7. CASE WaitPolls
    <3>1. CASE left > 0
      <4>1. Go("enc", 0, left) /\ MayBe("enc")
        BY <2>7, <3>1 DEF WaitPolls, PollAgain, MayBe, Places, IInv, OneKeyInv
      <4>2. QED
        BY <4>1, <1>0, GoKeeps
    <3>2. CASE ~(left > 0)
      <4>1. job = "wait" /\ Finish("empty") /\ "empty" \in Outcomes
        BY <2>7, <3>2 DEF WaitPolls, Outcomes
      <4>2. QED
        BY <4>1, FinishKeeps
    <3>3. QED
      BY <3>1, <3>2
  <2>8. QED
    BY <1>w, <2>1, <2>2, <2>3, <2>4, <2>5, <2>6, <2>7 DEF Wait
<1>k. CASE Kme
  <2>1. CASE KmeRetries
    <3>1. Go("sleep", PollTicks, left) /\ MayBe("sleep")
      BY <2>1 DEF KmeRetries, MayBe, Places, IInv, OneKeyInv
    <3>2. QED
      BY <3>1, <1>0, GoKeeps
  <2>2. CASE KmePolls
    <3>1. Go("enc", 0, left) /\ MayBe("enc")
      BY <2>2 DEF KmePolls, MayBe, Places, IInv, OneKeyInv
    <3>2. QED
      BY <3>1, <1>0, GoKeeps
  <2>3. CASE GetsKey
    <3>1. Go("dec", 0, 0) /\ MayBe("dec")
      BY <2>3 DEF GetsKey, MayBe, Places
    <3>2. QED
      BY <3>1, GoKeeps
  <2>4. CASE DecMatches
    <3>1. Finish("ok") /\ "ok" \in Outcomes /\ job # "qkd"
      BY <2>4 DEF DecMatches, Outcomes, IInv, SyncInv
    <3>2. QED
      BY <3>1, FinishKeeps
  <2>5. CASE KeyFails
    <3>1. Finish(answer) /\ answer \in {"error", "empty"} /\ answer \in Outcomes /\ job # "qkd"
      BY <2>5 DEF KeyFails, Outcomes
    <3>2. QED
      BY <3>1, FinishKeeps
  <2>6. QED
    BY <1>k, <2>1, <2>2, <2>3, <2>4, <2>5 DEF Kme
<1>q. CASE Qkd
  <2>1. CASE ExtensionInstalled
    <3>1. CASE agent = "absent"
      <4>1. Finish("skipped") /\ "skipped" \in Outcomes
        BY <2>1, <3>1 DEF ExtensionInstalled, Outcomes
      <4>2. QED
        BY <4>1, FinishKeeps
    <3>2. CASE agent # "absent"
      <4>1. Go("config", 0, 0) /\ MayBe("config")
        BY <2>1, <3>2 DEF ExtensionInstalled, MayBe, Places, IInv, SyncInv
      <4>2. QED
        BY <4>1, GoKeeps
    <3>3. QED
      BY <3>1, <3>2
  <2>2. CASE ReadMasterConfig
    <3>1. /\ pc = "config" /\ pc' = "compare" /\ seen' = key["ceos1-both"]
          /\ UNCHANGED <<kme, clocks, job, answer, jobs, done, deployed, link, fixed, latest, hist>>
      BY <2>2 DEF ReadMasterConfig
    <3>2. Flags' /\ Counters' /\ AgentInv' /\ OneKeyInv'
      BY <3>1 DEF IInv, Types, Flags, Counters, AgentInv, OneKeyInv, OneKeyPerScript, HasNone, InSync,
         kme, clocks, link, fixed, hist
    <3>3. Names' /\ Keys'
      BY <3>1 DEF IInv, Types, Names, Keys, Places, Ends, link, hist
    <3>4. job = "qkd" /\ InSync \in insync /\ InSync' = InSync
      BY <3>1 DEF IInv, SyncInv, InSync, link
    <3>5. seen' # key["ceos3-qkd"] => FALSE \in insync
      <4>1. seen' # key["ceos3-qkd"] => InSync = FALSE
        BY <3>1, Zenon DEF InSync
      <4>2. QED
        BY <3>4, <4>1
    <3>6. SyncInv'
      BY <3>1, <3>4, <3>5 DEF IInv, SyncInv, KeyAlarmIsReal, MismatchDetected, link, hist
    <3>7. QED
      BY <3>2, <3>3, <3>6 DEF IInv, Types
  <2>3. CASE CompareConfigs
    <3>1. CASE PeerMapping(Profile("ceos1-both", seen), Profile("ceos3-qkd", key["ceos3-qkd"]))
      <4>1. Go("enc_keys", 0, 0) /\ MayBe("enc_keys")
        BY <2>3, <3>1 DEF CompareConfigs, MayBe, Places, IInv, SyncInv
      <4>2. QED
        BY <4>1, GoKeeps
    <3>2. CASE ~PeerMapping(Profile("ceos1-both", seen), Profile("ceos3-qkd", key["ceos3-qkd"]))
      <4>1. pc = "compare" /\ Finish("keys") /\ "keys" \in Outcomes
        BY <2>3, <3>2 DEF CompareConfigs, Outcomes
      <4>2. seen # key["ceos3-qkd"]
        BY <3>2 DEF PeerMapping, CrossMatch, Profile
      <4>3. FALSE \in insync
        BY <4>1, <4>2 DEF IInv, SyncInv
      <4>4. QED
        BY <4>1, <4>3, FinishKeeps
    <3>3. QED
      BY <3>1, <3>2
  <2>4. ASSUME NEW e \in {"enc_keys", "dec_keys"}, NEW next \in {"dec_keys", "ping"}, CheckLog(e, next)
        PROVE  IInv'
    <3>1. CASE latest[e] = "200"
      <4>1. Go(next, 0, 0) /\ MayBe(next)
        BY <2>4, <3>1 DEF CheckLog, MayBe, Places, IInv, SyncInv
      <4>2. QED
        BY <4>1, GoKeeps
    <3>2. CASE latest[e] # "200"
      <4>1. Finish("log") /\ "log" \in Outcomes
        BY <2>4, <3>2 DEF CheckLog, Outcomes
      <4>2. QED
        BY <4>1, FinishKeeps
    <3>3. QED
      BY <3>1, <3>2
  <2>5. CASE PingFromMaster \/ PingFromSlave
    <3>1. job = "qkd" /\ InSync \in insync
      BY <2>5 DEF PingFromMaster, PingFromSlave, PingPeer, IInv, SyncInv
    <3>2. CASE ~InSync
      <4>1. Finish("ping") /\ "ping" \in Outcomes
        BY <2>5, <3>2 DEF PingFromMaster, PingFromSlave, PingPeer, PingPasses, Outcomes
      <4>2. InSync = FALSE
        BY <3>2, Zenon DEF InSync
      <4>3. QED
        BY <3>1, <4>1, <4>2, FinishKeeps
    <3>3. CASE InSync /\ PingFromMaster
      <4>1. Go("ping back", 0, 0) /\ MayBe("ping back")
        BY <3>1, <3>3 DEF PingFromMaster, PingPeer, PingPasses, MayBe, Places
      <4>2. QED
        BY <4>1, GoKeeps
    <3>4. CASE InSync /\ PingFromSlave
      <4>1. Finish("ok") /\ "ok" \in Outcomes
        BY <3>4 DEF PingFromSlave, PingPeer, PingPasses, Outcomes
      <4>2. InSync = TRUE
        BY <3>4, Zenon DEF InSync
      <4>3. QED
        BY <3>1, <4>1, <4>2, FinishKeeps
    <3>5. QED
      BY <2>5, <3>2, <3>3, <3>4
  <2>6. CASE QkdCommandFails
    <3>1. PICK why \in {"skipped", "error"} : Finish(why)
      BY <2>6 DEF QkdCommandFails
    <3>2. why \in Outcomes
      BY DEF Outcomes
    <3>3. QED
      BY <3>1, <3>2, FinishKeeps
  <2>7. QED
    BY <1>q, <2>1, <2>2, <2>3, <2>4, <2>5, <2>6 DEF Qkd
<1>1. QED
  BY <1>w, <1>k, <1>q DEF Scripts

LEMMA HangStep ==
    ASSUME IInv, PoolCallHangs
    PROVE  IInv'
<1>1. job = "wait" /\ Finish("error") /\ "error" \in Outcomes
  BY DEF PoolCallHangs, Outcomes
<1>2. QED
  BY <1>1, FinishKeeps

LEMMA StartStep ==
    ASSUME IInv, Start
    PROVE  IInv'
<1> USE Bounds DEF Jobs
<1>0. jobs \in Nat
  BY DEF IInv, Types, Counters
<1>1. CASE Deploy
  <2>1. jobs <= MaxJobs /\ Begin("wait", "containers", ContainerTicks)
    BY <1>1 DEF Deploy
  <2>2. QED
    BY <2>1, BeginKeeps
<1>2. CASE TestKme
  <2>1. jobs <= MaxJobs /\ Begin("kme", "enc", RetryTicks)
    BY <1>2 DEF TestKme, RetryBudget
  <2>2. QED
    BY <2>1, BeginKeeps
<1>3. CASE SaeRoundTrip
  <2>1. jobs <= MaxJobs /\ Begin("sae", "enc", 0)
    BY <1>3 DEF SaeRoundTrip
  <2>2. QED
    BY <2>1, BeginKeeps
<1>4. CASE TestMacsecQkd
  <2>1. jobs <= MaxJobs /\ Begin("qkd", "extension", 0)
    BY <1>4 DEF TestMacsecQkd
  <2>2. QED
    BY <2>1, BeginKeeps
<1>5. QED
  BY <1>1, <1>2, <1>3, <1>4 DEF Start

-------------------------------------------------------------------------------

\* The inductive invariant.
THEOREM KeyFlowInvariant == Spec => []IInv
<1>1. IInv /\ UNCHANGED vars => IInv'
  <2> SUFFICES ASSUME IInv, UNCHANGED vars
               PROVE  IInv'
    OBVIOUS
  <2>1. /\ Flags' /\ Counters' /\ Names' /\ Keys'
        /\ AgentInv' /\ OneKeyInv'
    BY DEF vars, kme, clocks, script, link, fixed, hist, IInv, Types, Flags, Counters, Names, Keys,
       AgentInv, InSync, OneKeyInv, OneKeyPerScript, HasNone
  <2>2. InSync' = InSync
    BY DEF vars, link, InSync
  <2>3. SyncInv'
    BY <2>2 DEF vars, script, link, hist, IInv, SyncInv, KeyAlarmIsReal, MismatchDetected
  <2>4. QED
    BY <2>1, <2>3 DEF IInv, Types
<1>2. IInv /\ [Next]_vars => IInv'
  BY <1>1, KmeStep, AgentsStep, StartStep, ScriptsStep, HangStep DEF Next
<1>3. QED
  BY <1>2, InitIInv, PTL DEF Spec

\* Type correctness.
THEOREM KeyFlowTypes == Spec => []TypeOK
<1>1. IInv => TypeOK
  BY TypesAreTypeOK DEF IInv
<1>2. QED
  BY <1>1, KeyFlowInvariant, PTL

\* A script takes one key, and another only for an answer it never got, for
\* every interval, budget and size of the pool.
THEOREM OneKeyEach == Spec => []OneKeyPerScript
<1>1. IInv => OneKeyPerScript
  BY DEF IInv, OneKeyInv
<1>2. QED
  BY <1>1, KeyFlowInvariant, PTL

\* An alarm over keys or a dead link means that the ends differed meanwhile,
\* however the agents rotate between the commands.
THEOREM KeyAlarmsAreReal == Spec => []KeyAlarmIsReal
<1>1. IInv => KeyAlarmIsReal
  BY DEF IInv, SyncInv
<1>2. QED
  BY <1>1, KeyFlowInvariant, PTL

\* A check that passes saw the ends agree at some moment.
THEOREM MismatchesFound == Spec => []MismatchDetected
<1>1. IInv => MismatchDetected
  BY DEF IInv, SyncInv
<1>2. QED
  BY <1>1, KeyFlowInvariant, PTL

-------------------------------------------------------------------------------
(* The intervals.  A script that polls gives up only when the KMEs stopped or *)
(* somebody else took the key: its budget outlasts the wait for the next key. *)

\* Whose turn it is.  Agents and scripts other than the deploy exist only after
\* a key was generated, and from then on the next is at most GenTicks away.
TurnInv ==
    /\ job = "none" <=> pc = "idle"
    /\ pc \in {"containers", "minwait", "status"} => job = "wait"
    /\ pc = "dec" => job \in {"kme", "sae"}
    /\ job = "wait" => pc \in {"containers", "minwait", "enc", "status", "sleep"}
    /\ job = "kme" => pc \in {"enc", "dec", "sleep"}
    /\ job \in {"kme", "sae", "qkd"} => deployed
    /\ job = "wait" => ~deployed
    /\ jobs = 0 => ~deployed /\ job = "none"
    /\ ~deployed => agent = "absent"
    /\ pc \notin {"idle", "containers"} => up
    /\ ~up => ~deployed /\ pool = 0
    /\ gen > GenTicks => pool = 0 /\ ~deployed /\ answer # "key"

\* make test-kme, while nobody else takes keys: the next key comes as long
\* before the deadline as the budget is longer than a generation, and an answer
\* that says the pool is empty is not older than its call.
RetryInv ==
    job = "kme" /\ ~stopped /\ ~rival =>
       /\ pool = 0 /\ answer \in {"none", "empty"} /\ pc \in {"enc", "sleep"} =>
             gen + RetryTicks <= GenTicks + left
       /\ answer = "empty" => RetryTicks <= GenTicks + left + call

\* The longest way from a call that finds no key to the end of the next one,
\* and what a key costs that is lost with its answer.
Cycle == 3 * CallTicks + PollTicks
LostTicks == GenTicks + Cycle
Losses(n) == (MaxLost - n) * LostTicks

\* The time to the end of the next call.
NextCall ==
    CASE pc = "enc" /\ answer \in {"none", "key"} -> CallTicks - call
      [] pc = "enc" /\ answer \in {"empty", "error"} -> 3 * CallTicks - call + PollTicks
      [] pc = "status" -> 2 * CallTicks - call + PollTicks
      [] pc = "sleep" -> sleep + CallTicks
      [] OTHER -> 0

\* The time in which make deploy has its key, whatever is lost on the way.
Need == Losses(lost) + (IF pool > 0 \/ answer = "key" THEN NextCall ELSE gen + Cycle)

WaitInv ==
    job = "wait" /\ ~stopped =>
       /\ pc \in {"containers", "minwait"} => lost = 0
       /\ pc = "minwait" /\ pool = 0 => gen + MinWaitTicks <= GenTicks + StaggerTicks + sleep
       /\ pc = "sleep" => sleep <= PollTicks
       /\ pc \in {"enc", "status", "sleep"} => Need < left

\* What the typing and the places of IInv say of the clocks.
LEMMA Clocks ==
    ASSUME IInv
    PROVE  /\ gen \in Nat /\ pool \in Nat /\ pool <= MaxPool /\ gen <= GenTicks + StaggerTicks
           /\ sleep \in Nat /\ left \in Nat /\ call \in Nat /\ call <= CallTicks
           /\ lost \in 0..MaxLost /\ jobs \in Nat
           /\ job \in Jobs /\ pc \in Places /\ answer \in {"none", "key", "empty", "error"}
           /\ answer # "none" => pc \in {"enc", "dec"}
           /\ answer = "empty" => pc = "enc"
  BY Bounds DEF IInv, Types, Counters, Names, OneKeyInv

\* The product in Losses, one answer at a time.
LEMMA LossesFall ==
    /\ \A n \in 0..MaxLost : Losses(n) \in Nat
    /\ \A n \in 0..MaxLost : n < MaxLost => Losses(n) = Losses(n + 1) + LostTicks
    /\ Losses(0) = MaxLost * LostTicks
    /\ Cycle \in Nat /\ LostTicks \in Nat
<1>1. Cycle \in Nat /\ LostTicks \in Nat
  BY Bounds DEF Cycle, LostTicks
<1>2. ASSUME NEW m \in Nat, NEW k \in Nat
      PROVE  m * k \in Nat /\ (m + 1) * k = m * k + k
  OBVIOUS
<1>3. ASSUME NEW n \in 0..MaxLost
      PROVE  /\ Losses(n) \in Nat
             /\ n < MaxLost => Losses(n) = Losses(n + 1) + LostTicks
  <2>1. MaxLost - n \in Nat
    BY Bounds
  <2>2. Losses(n) \in Nat
    BY <1>1, <1>2, <2>1 DEF Losses
  <2>3. ASSUME n < MaxLost
        PROVE  Losses(n) = Losses(n + 1) + LostTicks
    <3>1. MaxLost - (n + 1) \in Nat /\ MaxLost - n = (MaxLost - (n + 1)) + 1
      BY <2>3, Bounds
    <3>2. (MaxLost - n) * LostTicks = (MaxLost - (n + 1)) * LostTicks + LostTicks
      BY <1>1, <1>2, <3>1
    <3>3. QED
      BY <3>2 DEF Losses
  <2>4. QED
    BY <2>2, <2>3
<1>4. Losses(0) = MaxLost * LostTicks
  BY Bounds DEF Losses
<1>5. QED
  BY <1>1, <1>3, <1>4

LEMMA TurnInit == Init => TurnInv /\ RetryInv /\ WaitInv
  BY Bounds DEF Init, TurnInv, RetryInv, WaitInv

LEMMA TurnStep ==
    ASSUME IInv, TurnInv, [Next]_vars
    PROVE  TurnInv'
<1> USE Bounds, Clocks
<1>1. CASE Tick \/ KmesUp \/ Generate \/ Stop
  BY <1>1 DEF Tick, KmesUp, Generate, Stop, Remaining, Least, TurnInv, script, link, clocks
<1>2. CASE Serve \/ LoseAnswer
  BY <1>2 DEF Serve, ServeEnc, ServeDec, LoseAnswer, Remaining, TurnInv, kme, link
<1>3. CASE Agents
  BY <1>3 DEF Agents, StartAgents, AgentFetches, AgentDelivers, AgentInstalls, Remaining,
     TurnInv, kme, script, link
<1>4. CASE Start
  BY <1>4 DEF Start, Deploy, TestKme, SaeRoundTrip, TestMacsecQkd, Begin, TurnInv, kme, link
<1>5. ASSUME NEW p, NEW pause, NEW budget, Go(p, pause, budget), job # "none",
             p \in {"minwait", "enc", "status", "sleep", "dec", "config", "enc_keys", "dec_keys",
                    "ping", "ping back"},
             p \in {"minwait", "status"} => job = "wait",
             p = "dec" => job \in {"kme", "sae"},
             job = "wait" => p \in {"minwait", "enc", "status", "sleep"},
             job = "kme" => p \in {"enc", "dec", "sleep"},
             up
      PROVE  TurnInv'
  BY <1>5 DEF Go, TurnInv, kme, link
<1>6. ASSUME NEW outcome, Finish(outcome), job # "none",
             job = "wait" /\ outcome = "ok" => answer = "key" /\ up
      PROVE  TurnInv'
  BY <1>6 DEF Finish, TurnInv, kme, link
<1>7. CASE Wait
  BY <1>5, <1>6, <1>7 DEF Wait, ContainersRun, ContainersMissing, MinWaitOver, PoolDeadline, PoolReady,
     WaitGetsKey, PoolNotReady, StatusReturns, WaitPolls, PollAgain, TurnInv
<1>8. CASE Kme
  BY <1>5, <1>6, <1>8 DEF Kme, KmeRetries, KmePolls, GetsKey, DecMatches, KeyFails, TurnInv
<1>9. CASE Qkd
  <2>1. job = "qkd" /\ up
    BY <1>9 DEF Qkd, ExtensionInstalled, ReadMasterConfig, CompareConfigs, CheckLog,
       PingFromMaster, PingFromSlave, PingPeer, QkdCommandFails, IInv, SyncInv, TurnInv
  <2>2. CASE ReadMasterConfig
    BY <2>1, <2>2 DEF ReadMasterConfig, TurnInv, kme, link
  <2>3. CASE ~ReadMasterConfig
    BY <1>5, <1>6, <1>9, <2>1, <2>3 DEF Qkd, ExtensionInstalled, CompareConfigs, CheckLog,
       PingFromMaster, PingFromSlave, PingPeer, QkdCommandFails
  <2>4. QED
    BY <2>2, <2>3
<1>10. CASE UNCHANGED vars
  BY <1>10 DEF vars, TurnInv, kme, script, link
<1>11. CASE PoolCallHangs
  BY <1>6, <1>11 DEF PoolCallHangs
<1>12. QED
  BY <1>1, <1>2, <1>3, <1>4, <1>7, <1>8, <1>9, <1>10, <1>11 DEF Next, Scripts

LEMMA RetryStep ==
    ASSUME IInv, TurnInv, RetryInv, [Next]_vars
    PROVE  RetryInv'
<1> USE Bounds, Clocks
<1>1. CASE Tick \/ KmesUp \/ Generate \/ Stop
  BY <1>1 DEF Tick, KmesUp, Generate, Stop, Remaining, Least, InCall, TurnInv, RetryInv,
     script, hist, clocks
<1>2. CASE Serve \/ LoseAnswer
  BY <1>2 DEF Serve, ServeEnc, ServeDec, LoseAnswer, Remaining, RetryInv, kme, clocks, hist
<1>3. CASE Agents
  <2>1. CASE AgentFetches
    <3>1. /\ rival' = (rival \/ pool > 0) /\ pool' = Remaining(pool)
          /\ UNCHANGED <<stopped, gen, left, call, job, pc, answer>>
      BY <2>1 DEF AgentFetches, clocks, script
    <3>2. CASE pool > 0
      <4>1. rival'
        BY <3>1, <3>2, Zenon
      <4>2. QED
        BY <4>1 DEF RetryInv
    <3>3. CASE pool = 0
      <4>1. pool' = 0
        BY <3>1, <3>3 DEF Remaining
      <4>2. rival => rival'
        BY <3>1, Zenon
      <4>3. QED
        BY <3>1, <3>3, <4>1, <4>2 DEF RetryInv
    <3>4. QED
      BY <3>2, <3>3
  <2>2. CASE ~AgentFetches
    BY <1>3, <2>2 DEF Agents, StartAgents, AgentDelivers, AgentInstalls,
       RetryInv, kme, clocks, script, hist
  <2>3. QED
    BY <2>1, <2>2
<1>4. CASE Start
  BY <1>4 DEF Start, Deploy, TestKme, SaeRoundTrip, TestMacsecQkd, Begin, RetryBudget,
     TurnInv, RetryInv, kme
<1>5. ASSUME NEW p, NEW pause, Go(p, pause, left),
             job = "kme" => p \in {"enc", "sleep"} /\ pc \in {"enc", "sleep"}
                            /\ answer \in {"none", "empty"}
      PROVE  RetryInv'
  BY <1>5 DEF Go, RetryInv, kme, hist
<1>6. ASSUME NEW p, NEW pause, NEW budget, Go(p, pause, budget), job # "kme" \/ p = "dec"
      PROVE  RetryInv'
  BY <1>6 DEF Go, RetryInv
<1>7. ASSUME NEW outcome, Finish(outcome)
      PROVE  RetryInv'
  BY <1>7 DEF Finish, RetryInv
<1>8. CASE Wait
  BY <1>6, <1>7, <1>8 DEF Wait, ContainersRun, ContainersMissing, MinWaitOver, PoolDeadline,
     PoolReady, WaitGetsKey, PoolNotReady, StatusReturns, WaitPolls, PollAgain, TurnInv
<1>9. CASE Kme
  BY <1>5, <1>6, <1>7, <1>9 DEF Kme, KmeRetries, KmePolls, GetsKey, DecMatches, KeyFails
<1>10. CASE Qkd
  <2>1. job = "qkd"
    BY <1>10 DEF Qkd, ExtensionInstalled, ReadMasterConfig, CompareConfigs, CheckLog,
       PingFromMaster, PingFromSlave, PingPeer, QkdCommandFails, IInv, SyncInv
  <2>2. CASE ReadMasterConfig
    BY <2>1, <2>2 DEF ReadMasterConfig, RetryInv
  <2>3. CASE ~ReadMasterConfig
    BY <1>6, <1>7, <1>10, <2>1, <2>3 DEF Qkd, ExtensionInstalled, CompareConfigs, CheckLog,
       PingFromMaster, PingFromSlave, PingPeer, QkdCommandFails
  <2>4. QED
    BY <2>2, <2>3
<1>11. CASE UNCHANGED vars
  BY <1>11 DEF vars, RetryInv, kme, clocks, script, hist
<1>12. CASE PoolCallHangs
  BY <1>7, <1>12 DEF PoolCallHangs
<1>13. QED
  BY <1>1, <1>2, <1>3, <1>4, <1>8, <1>9, <1>10, <1>11, <1>12 DEF Next, Scripts

\* The outcome "empty" is given by make test-kme and by the deploy only.
LEMMA EmptyOutcomes ==
    ASSUME IInv, TurnInv, [Next]_vars, done' # done
    PROVE  \/ done' = <<"none", "none">>
           \/ /\ job = "kme" /\ answer = "empty" /\ left = 0 /\ done' = <<"kme", "empty">>
              /\ stopped' = stopped /\ rival' = rival
           \/ /\ job = "wait" /\ pc = "sleep" /\ sleep = 0 /\ ~(left > 0) /\ done' = <<"wait", "empty">>
              /\ stopped' = stopped
           \/ done' \notin {<<"wait", "empty">>, <<"kme", "empty">>}
<1> USE Clocks
<1>1. CASE Tick \/ KmesUp \/ Generate \/ Stop \/ Serve \/ LoseAnswer \/ Agents \/ UNCHANGED vars
  BY <1>1 DEF Tick, KmesUp, Generate, Stop, Serve, ServeEnc, ServeDec, LoseAnswer, Agents, StartAgents,
     AgentFetches, AgentDelivers, AgentInstalls, vars, script
<1>2. CASE Start
  BY <1>2 DEF Start, Deploy, TestKme, SaeRoundTrip, TestMacsecQkd, Begin
<1>3. CASE Wait
  BY <1>3 DEF Wait, ContainersRun, ContainersMissing, MinWaitOver, PoolDeadline, PoolReady, WaitGetsKey,
     PoolNotReady, StatusReturns, WaitPolls, PollAgain, Go, Finish, kme
<1>4. CASE Kme
  BY <1>4 DEF Kme, KmeRetries, KmePolls, GetsKey, DecMatches, KeyFails, Go, Finish, kme, hist
<1>5. CASE Qkd
  <2>1. ASSUME NEW outcome \in {"skipped", "keys", "log", "ping", "ok", "error"}, Finish(outcome)
        PROVE  done' \notin {<<"wait", "empty">>, <<"kme", "empty">>}
    BY <2>1 DEF Finish
  <2>2. CASE ReadMasterConfig \/ \E p, pause, budget : Go(p, pause, budget)
    BY <2>2 DEF ReadMasterConfig, Go
  <2>3. CASE \E outcome \in {"skipped", "keys", "log", "ping", "ok", "error"} : Finish(outcome)
    BY <2>1, <2>3
  <2>4. QED
    BY <1>5, <2>2, <2>3 DEF Qkd, ExtensionInstalled, CompareConfigs, CheckLog, PingFromMaster,
       PingFromSlave, PingPeer, QkdCommandFails
<1>6. CASE PoolCallHangs
  BY <1>6 DEF PoolCallHangs, Finish
<1>7. QED
  BY <1>1, <1>2, <1>3, <1>4, <1>5, <1>6 DEF Next, Scripts

\* The KMEs never come back, and a rival is forgotten only by the next script.
LEMMA ExcusesStay ==
    ASSUME [Next]_vars
    PROVE  /\ stopped => stopped'
           /\ rival => rival' \/ done' = <<"none", "none">>
<1>1. CASE AgentFetches
  <2>1. stopped' = stopped /\ rival' = (rival \/ pool > 0)
    BY <1>1 DEF AgentFetches
  <2>2. QED
    BY <2>1, Zenon
<1>2. CASE Start
  BY <1>2 DEF Start, Deploy, TestKme, SaeRoundTrip, TestMacsecQkd, Begin, kme
<1>3. stopped' \in {stopped, TRUE} /\ (~AgentFetches /\ ~Start => rival' = rival)
  <2>1. CASE Tick \/ KmesUp \/ Generate \/ Stop \/ Serve \/ LoseAnswer \/ Agents \/ UNCHANGED vars
    BY <2>1 DEF Tick, KmesUp, Generate, Stop, Serve, ServeEnc, ServeDec, LoseAnswer, Agents, StartAgents,
       AgentFetches, AgentDelivers, AgentInstalls, vars, kme, hist
  <2>2. CASE Start
    BY <2>2 DEF Start, Deploy, TestKme, SaeRoundTrip, TestMacsecQkd, Begin, kme
  <2>3. CASE Wait
    BY <2>3 DEF Wait, ContainersRun, ContainersMissing, MinWaitOver, PoolDeadline, PoolReady,
       WaitGetsKey, PoolNotReady, StatusReturns, WaitPolls, PollAgain, Go, Finish, kme, hist
  <2>4. CASE Kme
    BY <2>4 DEF Kme, KmeRetries, KmePolls, GetsKey, DecMatches, KeyFails, Go, Finish, kme, hist
  <2>5. CASE Qkd
    BY <2>5 DEF Qkd, ExtensionInstalled, ReadMasterConfig, CompareConfigs, CheckLog,
       PingFromMaster, PingFromSlave, PingPeer, QkdCommandFails, Go, Finish, kme, hist
  <2>6. CASE PoolCallHangs
    BY <2>6 DEF PoolCallHangs, Finish, kme, hist
  <2>7. QED
    BY <2>1, <2>2, <2>3, <2>4, <2>5, <2>6 DEF Next, Scripts
<1>4. stopped => stopped'
  <2>1. stopped' = stopped \/ stopped' = TRUE
    BY <1>3
  <2>2. QED
    BY <2>1, Zenon
<1>5. CASE ~AgentFetches /\ ~Start
  BY <1>3, <1>4, <1>5
<1>6. QED
  BY <1>1, <1>2, <1>5, Zenon

\* make test-kme reports an empty pool only when an agent took the key, or the
\* KMEs have stopped, whenever its budget is longer than a generation and a call.
THEOREM RetriesOutlastAGeneration ==
    ASSUME RetryTicks > GenTicks + CallTicks
    PROVE  Spec => []RetryOutlastsGeneration
<1> DEFINE Inv == TurnInv /\ RetryInv /\ RetryOutlastsGeneration
<1>1. Init => Inv
  BY TurnInit DEF Init, RetryOutlastsGeneration
<1>2. IInv /\ Inv /\ [Next]_vars => Inv'
  <2> SUFFICES ASSUME IInv, Inv, [Next]_vars
               PROVE  Inv'
    OBVIOUS
  <2>1. TurnInv' /\ RetryInv'
    BY TurnStep, RetryStep
  <2>2. RetryOutlastsGeneration'
    <3>1. CASE done' = done
      BY <3>1, ExcusesStay DEF RetryOutlastsGeneration
    <3>2. CASE done' # done
      <4>1. job = "kme" /\ answer = "empty" /\ left = 0 => stopped \/ rival
        BY Clocks, Bounds DEF RetryInv
      <4>2. QED
        BY <3>2, <4>1, EmptyOutcomes DEF RetryOutlastsGeneration
    <3>3. QED
      BY <3>1, <3>2
  <2>3. QED
    BY <2>1, <2>2
<1>3. Inv => RetryOutlastsGeneration
  OBVIOUS
<1>4. QED
  BY <1>1, <1>2, <1>3, KeyFlowInvariant, PTL DEF Spec

\* NextCall is never later than a whole cycle.
LEMMA NextCallInCycle ==
    ASSUME IInv, TurnInv, WaitInv, job = "wait", ~stopped
    PROVE  NextCall \in Nat /\ NextCall <= Cycle /\ Need \in Nat
<1> USE Bounds, Clocks
<1>1. NextCall \in Nat /\ NextCall <= Cycle
  <2>1. CASE pc = "enc"
    BY <2>1 DEF NextCall, Cycle
  <2>2. CASE pc = "status"
    BY <2>2 DEF NextCall, Cycle
  <2>3. CASE pc = "sleep"
    BY <2>3 DEF NextCall, Cycle, WaitInv
  <2>4. CASE pc \notin {"enc", "status", "sleep"}
    BY <2>4 DEF NextCall, Cycle
  <2>5. QED
    BY <2>1, <2>2, <2>3, <2>4
<1>2. QED
  BY <1>1, LossesFall DEF Need

\* While make deploy polls, the time it needs falls with the time it has.
LEMMA WaitStep ==
    ASSUME GenTicks + StaggerTicks + Cycle + MaxLost * LostTicks < MinWaitTicks + PoolTicks,
           CallTicks + MaxLost * LostTicks < PoolTicks,
           IInv, TurnInv, WaitInv, [Next]_vars
    PROVE  WaitInv'
<1> USE Bounds, Clocks
<1>0. Cycle \in Nat /\ LostTicks \in Nat /\ Losses(lost) \in Nat /\ LostTicks = GenTicks + Cycle
      /\ Losses(0) = MaxLost * LostTicks /\ CallTicks <= Cycle
  BY LossesFall DEF LostTicks, Cycle
<1>1. CASE Tick
  <2>1. /\ UNCHANGED <<up, stopped, pool, job, pc, answer, lost>>
        /\ sleep' = Remaining(sleep) /\ left' = Remaining(left) /\ gen' = Remaining(gen)
        /\ call' = IF InCall THEN call + 1 ELSE 0
        /\ up /\ ~stopped => gen > 0
        /\ pc \in {"minwait", "sleep"} => sleep > 0
        /\ InCall => call < CallTicks
    BY <1>1 DEF Tick, script, hist
  <2>2. CASE pc \in {"containers", "minwait"} \/ job # "wait" \/ stopped
    BY <2>1, <2>2 DEF WaitInv, Remaining, TurnInv
  <2>3. CASE pc \in {"enc", "status", "sleep"} /\ job = "wait" /\ ~stopped
    <3>1. Need < left /\ up /\ Need \in Nat /\ NextCall \in Nat
      BY <2>3, NextCallInCycle DEF WaitInv, TurnInv
    <3>2. NextCall' = NextCall - 1 \/ NextCall = 0
      BY <2>1, <2>3 DEF NextCall, Remaining, InCall
    <3>3. NextCall > 0
      BY <2>1, <2>3 DEF NextCall, InCall
    <3>4. Losses(lost)' = Losses(lost)
      BY <2>1 DEF Losses
    <3>5. Need' = Need - 1
      BY <1>0, <2>1, <2>3, <3>1, <3>2, <3>3, <3>4 DEF Need, Remaining
    <3>6. left' = left - 1
      BY <2>1, <3>1 DEF Remaining
    <3>7. QED
      BY <2>1, <2>3, <3>1, <3>5, <3>6 DEF WaitInv, Remaining
  <2>4. QED
    BY <2>2, <2>3 DEF TurnInv
<1>2. CASE KmesUp \/ Stop
  <2>1. CASE KmesUp
    BY <2>1 DEF KmesUp, WaitInv, TurnInv, script, clocks, hist
  <2>2. CASE Stop
    BY <2>2 DEF Stop, WaitInv
  <2>3. QED
    BY <1>2, <2>1, <2>2
<1>3. CASE Generate
  <2>1. /\ up /\ ~stopped /\ gen = 0 /\ pool' > 0
        /\ UNCHANGED <<stopped, job, pc, sleep, left, call, answer, lost>>
    BY <1>3 DEF Generate, Least, script, clocks, hist
  <2>2. NextCall' = NextCall /\ Losses(lost)' = Losses(lost)
    BY <2>1 DEF NextCall, Losses
  <2>3. job = "wait" => Need' <= Need /\ Need' \in Nat /\ Need \in Nat
    BY <1>0, <2>1, <2>2, NextCallInCycle DEF Need
  <2>4. QED
    BY <2>1, <2>3 DEF WaitInv
<1>4. CASE ServeEnc
  <2>1. CASE stopped
    BY <1>4, <2>1 DEF ServeEnc, WaitInv
  <2>2. CASE ~stopped
    <3>1. /\ pc = "enc" /\ answer = "none" /\ pool' = Remaining(pool)
          /\ answer' = IF pool > 0 THEN "key" ELSE "empty"
          /\ UNCHANGED <<stopped, gen, job, pc, sleep, left, call, lost>>
      BY <1>4, <2>2 DEF ServeEnc, clocks
    <3>2. Need' = Need
      BY <3>1 DEF Need, NextCall, Losses, Remaining
    <3>3. QED
      BY <3>1, <3>2 DEF WaitInv
  <2>3. QED
    BY <2>1, <2>2
<1>5. CASE ServeDec
  BY <1>5 DEF ServeDec, WaitInv, TurnInv
<1>6. CASE LoseAnswer
  <2>1. /\ answer = "key" /\ answer' = "error" /\ lost < MaxLost /\ lost' = lost + 1
        /\ UNCHANGED <<stopped, gen, pool, job, pc, sleep, left, call>>
    BY <1>6 DEF LoseAnswer, kme, clocks
  <2>2. CASE job = "wait" /\ pc = "enc"
    <3>1. gen <= GenTicks
      BY <2>1 DEF TurnInv
    <3>2. Losses(lost) = Losses(lost + 1) + LostTicks /\ Losses(lost + 1) \in Nat
      BY <2>1, LossesFall
    <3>3. Losses(lost)' = Losses(lost + 1)
      BY <2>1 DEF Losses
    <3>4. NextCall' = 3 * CallTicks - call + PollTicks /\ NextCall \in Nat
      BY <2>1, <2>2 DEF NextCall
    <3>5. Need' \in Int /\ Need \in Int /\ Need' <= Need
      BY <1>0, <2>1, <3>1, <3>2, <3>3, <3>4 DEF Need, Cycle
    <3>6. QED
      BY <2>1, <2>2, <3>5 DEF WaitInv
  <2>3. CASE ~(job = "wait" /\ pc = "enc")
    BY <2>1, <2>3 DEF WaitInv, TurnInv
  <2>4. QED
    BY <2>2, <2>3
<1>7. CASE Agents
  <2>1. CASE job # "wait"
    BY <1>7, <2>1 DEF Agents, StartAgents, AgentFetches, AgentDelivers, AgentInstalls, script, WaitInv
  <2>2. CASE job = "wait"
    BY <1>7, <2>2 DEF Agents, StartAgents, AgentFetches, AgentDelivers, AgentInstalls, TurnInv
  <2>3. QED
    BY <2>1, <2>2
<1>8. CASE Start
  BY <1>8 DEF Start, Deploy, TestKme, SaeRoundTrip, TestMacsecQkd, Begin, WaitInv
<1>9. ASSUME NEW outcome, Finish(outcome)
      PROVE  WaitInv'
  BY <1>9 DEF Finish, WaitInv
<1>10. ASSUME NEW p, NEW pause, NEW budget, Go(p, pause, budget), job # "wait"
       PROVE  WaitInv'
  BY <1>10 DEF Go, WaitInv
<1>11. CASE Wait
  <2>1. CASE ContainersRun
    BY <2>1 DEF ContainersRun, Go, WaitInv, TurnInv, kme, hist
  <2>2. CASE MinWaitOver
    <3>1. /\ pc = "minwait" /\ sleep = 0 /\ pc' = "enc" /\ left' = PoolTicks /\ call' = 0
          /\ answer' = "none" /\ UNCHANGED <<stopped, gen, pool, job, lost>>
      BY <2>2 DEF MinWaitOver, PoolDeadline, Go, kme, hist
    <3>2. NextCall' = CallTicks /\ Losses(lost)' = Losses(lost)
      BY <3>1 DEF NextCall, Losses
    <3>3. job = "wait" /\ ~stopped => lost = 0
      BY <3>1 DEF WaitInv
    <3>4. job = "wait" /\ ~stopped /\ pool = 0 => gen + MinWaitTicks <= GenTicks + StaggerTicks
      BY <3>1 DEF WaitInv
    <3>5. job = "wait" /\ ~stopped => Need' < PoolTicks
      BY <1>0, <3>1, <3>2, <3>3, <3>4 DEF Need
    <3>6. QED
      BY <3>1, <3>5 DEF WaitInv
  <2>3. CASE PoolNotReady
    <3>1. /\ job = "wait" /\ answer \in {"empty", "error"} /\ pc = "enc" /\ pc' = "status"
          /\ call' = 0 /\ answer' = "none" /\ UNCHANGED <<stopped, gen, pool, job, left, lost>>
      BY <2>3 DEF PoolNotReady, Go, kme, hist, TurnInv
    <3>2. NextCall' = 2 * CallTicks + PollTicks /\ NextCall = 3 * CallTicks - call + PollTicks
      BY <3>1 DEF NextCall
    <3>3. Need' \in Int /\ Need \in Int /\ Need' <= Need
      <4>1. Losses(lost)' = Losses(lost)
        BY <3>1 DEF Losses
      <4>2. QED
        BY <1>0, <3>1, <3>2, <4>1 DEF Need
    <3>4. QED
      BY <3>1, <3>3 DEF WaitInv
  <2>4. CASE StatusReturns
    <3>1. /\ job = "wait" /\ answer = "none" /\ pc = "status" /\ pc' = "sleep" /\ sleep' = PollTicks
          /\ answer' = "none" /\ UNCHANGED <<stopped, gen, pool, job, left, lost>>
      BY <2>4 DEF StatusReturns, Go, kme, hist, TurnInv
    <3>2. NextCall' = PollTicks + CallTicks /\ NextCall = 2 * CallTicks - call + PollTicks
      BY <3>1 DEF NextCall
    <3>3. Need' \in Int /\ Need \in Int /\ Need' <= Need
      <4>1. Losses(lost)' = Losses(lost)
        BY <3>1 DEF Losses
      <4>2. QED
        BY <1>0, <3>1, <3>2, <4>1 DEF Need
    <3>4. QED
      BY <3>1, <3>3 DEF WaitInv
  <2>5. CASE WaitPolls /\ left > 0
    <3>1. /\ job = "wait" /\ answer = "none" /\ pc = "sleep" /\ sleep = 0 /\ pc' = "enc" /\ call' = 0
          /\ answer' = "none" /\ UNCHANGED <<stopped, gen, pool, job, left, lost>>
      BY <2>5 DEF WaitPolls, PollAgain, Go, kme, hist
    <3>2. NextCall' = CallTicks /\ NextCall = CallTicks
      BY <3>1 DEF NextCall
    <3>3. Need' = Need
      <4>1. Losses(lost)' = Losses(lost)
        BY <3>1 DEF Losses
      <4>2. QED
        BY <3>1, <3>2, <4>1 DEF Need
    <3>4. QED
      BY <3>1, <3>3 DEF WaitInv
  <2>6. QED
    BY <1>9, <1>11, <2>1, <2>2, <2>3, <2>4, <2>5 DEF Wait, ContainersMissing, PoolReady, WaitGetsKey,
       WaitPolls
<1>12. CASE Kme
  BY <1>9, <1>10, <1>12 DEF Kme, KmeRetries, KmePolls, GetsKey, DecMatches, KeyFails, TurnInv
<1>13. CASE Qkd
  <2>1. job = "qkd"
    BY <1>13 DEF Qkd, ExtensionInstalled, ReadMasterConfig, CompareConfigs, CheckLog,
       PingFromMaster, PingFromSlave, PingPeer, QkdCommandFails, IInv, SyncInv
  <2>2. CASE ReadMasterConfig
    BY <2>1, <2>2 DEF ReadMasterConfig, WaitInv
  <2>3. CASE ~ReadMasterConfig
    BY <1>9, <1>10, <1>13, <2>1, <2>3 DEF Qkd, ExtensionInstalled, CompareConfigs, CheckLog,
       PingFromMaster, PingFromSlave, PingPeer, QkdCommandFails
  <2>4. QED
    BY <2>2, <2>3
<1>14. CASE UNCHANGED vars
  BY <1>14 DEF vars, WaitInv, Need, NextCall, Losses, kme, clocks, script, hist
<1>15. CASE PoolCallHangs
  BY <1>9, <1>15 DEF PoolCallHangs
<1>16. QED
  BY <1>1, <1>2, <1>3, <1>4, <1>5, <1>6, <1>7, <1>8, <1>11, <1>12, <1>13, <1>14, <1>15
     DEF Next, Scripts, Serve

\* make deploy gives up on the pool only when the KMEs have stopped, whenever
\* its waits outlast the first generation, the stagger and every lost answer:
\* a key that comes in the minimal wait is there for the first call, and every
\* answer that is lost costs another generation and a cycle of polling.
THEOREM DeployWaitsLongEnough ==
    ASSUME GenTicks + StaggerTicks + Cycle + MaxLost * LostTicks < MinWaitTicks + PoolTicks,
           CallTicks + MaxLost * LostTicks < PoolTicks
    PROVE  Spec => []DeployWaitSucceeds
<1> DEFINE Inv == TurnInv /\ WaitInv /\ DeployWaitSucceeds
<1>1. Init => Inv
  BY TurnInit DEF Init, DeployWaitSucceeds
<1>2. IInv /\ Inv /\ [Next]_vars => Inv'
  <2> SUFFICES ASSUME IInv, Inv, [Next]_vars
               PROVE  Inv'
    OBVIOUS
  <2>1. TurnInv' /\ WaitInv'
    BY TurnStep, WaitStep
  <2>2. DeployWaitSucceeds'
    <3>1. CASE done' = done
      BY <3>1, ExcusesStay DEF DeployWaitSucceeds
    <3>2. CASE done' # done
      <4>1. job = "wait" /\ pc = "sleep" /\ ~(left > 0) => stopped
        BY NextCallInCycle, Clocks DEF WaitInv
      <4>2. QED
        BY <3>2, <4>1, EmptyOutcomes DEF DeployWaitSucceeds
    <3>3. QED
      BY <3>1, <3>2
  <2>3. QED
    BY <2>1, <2>2
<1>3. Inv => DeployWaitSucceeds
  OBVIOUS
<1>4. QED
  BY <1>1, <1>2, <1>3, KeyFlowInvariant, PTL DEF Spec

==============================================================================
