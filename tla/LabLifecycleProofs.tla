-------------------------- MODULE LabLifecycleProofs -------------------------
(***************************************************************************)
(* Proofs about LabLifecycle and QuadraInstall for any nodes, switches,    *)
(* settings, flaws and overrides, and any number of invocations, deaths,   *)
(* failed calls, edits and files dropped.                                  *)
(***************************************************************************)
EXTENDS LabLifecycle, SequenceTheorems, TLAPS

Targets == DOMAIN Recipe
StepNames ==
    {"ceos", "radius", "pki", "kmepki", "kmeconf", "bind", "topo", "annot",
     "gen", "rule", "configRule", "validate", "kmeStage", "kmeUp", "pool", "full",
     "destroy", "rmGen", "rmTopo", "install"}
Plain == StepNames \ {"bind", "topo", "rmGen", "rmTopo"}
Todo == inv.todo
Fields == {"target", "set", "todo", "result", "old"}

\* What the proofs need of the shapes of the variables.
Shapes ==
    /\ Fields \subseteq DOMAIN inv
    /\ Todo \in Seq(StepNames) /\ (Running => Todo # <<>>)
    /\ inv.target \in Targets \cup {"none"}
    /\ inv.set \in Settings \cup {Nil}
    /\ DOMAIN files = Artifacts
    /\ DOMAIN nodes = Nodes /\ DOMAIN ext = Ceos /\ DOMAIN agent = Ceos
    /\ work \in Works /\ broken \subseteq Settings \cup {Nil}

\* A running make clean does nothing but remove, and no other target removes
\* a rendered file.
Removing == {"destroy", "rmGen", "rmTopo"}
CleanSeq(t, target) ==
    \A i \in DOMAIN t :
        IF target = "clean" THEN t[i] \in Removing ELSE t[i] \notin {"rmGen", "rmTopo"}
CleanInv == CleanSeq(Todo, inv.target)

\* Whatever the topology is rendered after is there, or is rendered before it.
Before == RuleTargets \ {"topo"}
RenderSeq(t, f) ==
    \A i \in DOMAIN t :
        /\ t[i] = "topo" => \A a \in Before : f[a] # Nil \/ \E j \in 1 .. i - 1 : t[j] = a
        /\ t[i] = "bind" => i # Len(t)
RenderInv == RenderSeq(Todo, files)

\* A redeploy destroys before it deploys, and all of it.
Starting == {"kmeStage", "kmeUp", "full"}
Lasts(t, x) == \E i \in DOMAIN t : t[i] = x
Order(t) ==
    \A i, j \in DOMAIN t :
        /\ t[i] = "destroy" /\ t[j] \in Starting => i < j
        /\ t[i] = "kmeStage" /\ t[j] \in Starting => i <= j
Emptied(t, up, old) ==
    ~Lasts(t, "destroy") => old = {} /\ (Lasts(t, "kmeStage") => up = {})
RedeployInv ==
    /\ RedeployRecovers
    /\ Running => inv.old \subseteq Up
    /\ Running /\ inv.target = "redeploy" => Order(Todo) /\ Emptied(Todo, Up, inv.old)

\* The installation has come past the switches that are no longer in its list.
Installed(n) == job.swix \in ext[n] /\ (agent[n] # NoSwix \/ n \in job.restarted)
JobShape ==
    /\ DOMAIN job = {"at", "todo", "swix", "fault", "restarted"}
    /\ job.todo \in Seq(Ceos)
    /\ job.at # "none" => Running /\ Head(Todo) = "install"
    /\ job.at \in Steps \cup {"none", "ok", "failed"}
JobInv ==
    /\ JobShape
    /\ Installing =>
          /\ job.todo # <<>> /\ job.swix # NoSwix
          /\ \A n \in Ceos : n \in ToSet(job.todo) \/ Installed(n)
    /\ Installing /\ job.at # "show" => nodes[Target] # Nil
    /\ job.at = "copy" => job.swix \notin ext[Target]
    /\ job.at \in {"agent", "start"} => job.swix \in ext[Target]
    /\ InstallLeavesAgents /\ InstallFailsForAReason

IInv == Shapes /\ CleanInv /\ RenderInv /\ MarkVouchesForAll /\ RedeployInv /\ JobInv

-------------------------------------------------------------------------------
(* Sequences of steps.                                                     *)

LEMMA TailIs ==
    ASSUME NEW S, NEW t \in Seq(S), t # <<>>
    PROVE  /\ Len(t) \in Nat \ {0} /\ Head(t) = t[1] /\ DOMAIN t = 1 .. Len(t)
           /\ Tail(t) \in Seq(S) /\ Len(Tail(t)) = Len(t) - 1
           /\ DOMAIN Tail(t) = 1 .. Len(t) - 1
           /\ \A i \in 1 .. Len(t) - 1 : Tail(t)[i] = t[i + 1]
<1>1. Len(t) \in Nat \ {0} /\ DOMAIN t = 1 .. Len(t)
  BY EmptySeq, LenProperties
<1>2. Tail(t) \in Seq(S) /\ Len(Tail(t)) = Len(t) - 1
  BY <1>1
<1>3. DOMAIN Tail(t) = 1 .. Len(t) - 1
  BY <1>2, LenProperties
<1>. QED
  BY <1>1, <1>2, <1>3

\* A step in front is replaced by others.
LEMMA ExpandIs ==
    ASSUME NEW S, NEW t \in Seq(S), t # <<>>, NEW s \in Seq(S)
    PROVE  /\ s \o Tail(t) \in Seq(S) /\ Len(s) \in Nat
           /\ Len(s \o Tail(t)) = Len(s) + Len(t) - 1
           /\ DOMAIN (s \o Tail(t)) = 1 .. Len(s) + Len(t) - 1
           /\ \A i \in 1 .. Len(s) + Len(t) - 1 :
                 (s \o Tail(t))[i] = IF i <= Len(s) THEN s[i] ELSE t[i - Len(s) + 1]
<1>1. /\ Tail(t) \in Seq(S) /\ Len(Tail(t)) = Len(t) - 1 /\ Len(t) \in Nat \ {0}
      /\ \A i \in 1 .. Len(t) - 1 : Tail(t)[i] = t[i + 1]
  BY TailIs
<1>2. Len(s) \in Nat
  BY LenProperties
<1>3. /\ s \o Tail(t) \in Seq(S) /\ Len(s \o Tail(t)) = Len(s) + Len(Tail(t))
      /\ \A i \in 1 .. Len(s) + Len(Tail(t)) :
            (s \o Tail(t))[i] = IF i <= Len(s) THEN s[i] ELSE Tail(t)[i - Len(s)]
  BY <1>1, ConcatProperties
<1>4. DOMAIN (s \o Tail(t)) = 1 .. Len(s \o Tail(t))
  BY <1>3, LenProperties
<1>5. \A i \in 1 .. Len(s) + Len(t) - 1 :
         i <= Len(s) \/ (i - Len(s) \in 1 .. Len(t) - 1 /\ Tail(t)[i - Len(s)] = t[i - Len(s) + 1])
  BY <1>1, <1>2
<1>. QED
  BY <1>1, <1>2, <1>3, <1>4, <1>5

LEMMA RenderStepsAre ==
    /\ RenderSteps \in Seq(StepNames) /\ Len(RenderSteps) = 8
    /\ RenderSteps[6] = "bind" /\ RenderSteps[7] = "topo"
    /\ \A a \in Before : \E j \in 1 .. 5 : RenderSteps[j] = a
    /\ \A i \in 1 .. 8 : /\ RenderSteps[i] \notin Removing \cup Starting
                         /\ RenderSteps[i] = "topo" => i = 7
                         /\ RenderSteps[i] = "bind" => i = 6
<1>1. RenderSteps \in Seq(StepNames) /\ Len(RenderSteps) = 8
  BY DEF RenderSteps, StepNames
<1>2. /\ RenderSteps[1] = "ceos" /\ RenderSteps[2] = "radius" /\ RenderSteps[3] = "pki"
      /\ RenderSteps[4] = "kmepki" /\ RenderSteps[5] = "kmeconf" /\ RenderSteps[6] = "bind"
      /\ RenderSteps[7] = "topo" /\ RenderSteps[8] = "annot"
  BY DEF RenderSteps
<1>3. Before = {"ceos", "radius", "pki", "kmepki", "kmeconf"}
  BY DEF Before, RuleTargets, Artifacts, Uses
<1>. QED
  BY <1>1, <1>2, <1>3 DEF Removing, Starting

LEMMA RenderTail ==
    ASSUME NEW t \in Seq(StepNames), t # <<>>, NEW f, NEW g, RenderSeq(t, f),
           \A a \in Before : f[a] # Nil \/ Head(t) = a => g[a] # Nil
    PROVE  RenderSeq(Tail(t), g)
<1>1. SUFFICES ASSUME NEW i \in 1 .. Len(t) - 1
               PROVE  /\ t[i + 1] = "topo" => \A a \in Before :
                              g[a] # Nil \/ \E j \in 1 .. i - 1 : Tail(t)[j] = a
                      /\ t[i + 1] = "bind" => i # Len(t) - 1
  <2>1. /\ DOMAIN Tail(t) = 1 .. Len(t) - 1 /\ Len(Tail(t)) = Len(t) - 1
        /\ \A i \in 1 .. Len(t) - 1 : Tail(t)[i] = t[i + 1]
    BY TailIs
  <2>. QED
    BY <2>1 DEF RenderSeq
<1>2. i + 1 \in DOMAIN t /\ i \in Nat \ {0} /\ Len(t) \in Nat
  BY TailIs
<1>3. ASSUME t[i + 1] = "topo", NEW a \in Before
      PROVE  g[a] # Nil \/ \E j \in 1 .. i - 1 : Tail(t)[j] = a
  <2>1. f[a] # Nil \/ \E j \in 1 .. i : t[j] = a
    BY <1>2, <1>3 DEF RenderSeq
  <2>2. CASE f[a] # Nil
    BY <2>2
  <2>3. CASE \E j \in 1 .. i : t[j] = a
    <3>1. PICK j \in 1 .. i : t[j] = a
      BY <2>3
    <3>2. CASE j = 1
      BY <3>1, <3>2, TailIs
    <3>3. CASE j # 1
      <4>1. j - 1 \in 1 .. i - 1 /\ j - 1 \in 1 .. Len(t) - 1 /\ (j - 1) + 1 = j
        BY <1>2, <3>3
      <4>2. Tail(t)[j - 1] = t[(j - 1) + 1]
        BY <4>1, TailIs
      <4>. QED
        BY <3>1, <4>1, <4>2
    <3>. QED
      BY <3>2, <3>3
  <2>. QED
    BY <2>1, <2>2, <2>3
<1>4. t[i + 1] = "bind" => i # Len(t) - 1
  BY <1>2 DEF RenderSeq
<1>. QED
  BY <1>3, <1>4

LEMMA RenderPrefix ==
    ASSUME NEW t \in Seq(StepNames), t # <<>>, NEW f, RenderSeq(t, f)
    PROVE  RenderSeq(RenderSteps \o Tail(t), f)
<1> DEFINE u == RenderSteps \o Tail(t)
<1>1. /\ DOMAIN u = 1 .. Len(t) + 7 /\ Len(u) = Len(t) + 7 /\ Len(t) \in Nat \ {0}
      /\ \A i \in 1 .. Len(t) + 7 : u[i] = IF i <= 8 THEN RenderSteps[i] ELSE t[i - 7]
  <2>1. Len(t) \in Nat \ {0}
    BY TailIs
  <2>2. RenderSteps \in Seq(StepNames) /\ Len(RenderSteps) = 8
    BY RenderStepsAre
  <2>3. DOMAIN u = 1 .. 8 + Len(t) - 1 /\ Len(u) = 8 + Len(t) - 1
    BY <2>2, ExpandIs
  <2>4. \A i \in 1 .. 8 + Len(t) - 1 :
           u[i] = IF i <= 8 THEN RenderSteps[i] ELSE t[i - 8 + 1]
    <3>1. \A i \in 1 .. Len(RenderSteps) + Len(t) - 1 :
             u[i] = IF i <= Len(RenderSteps) THEN RenderSteps[i] ELSE t[i - Len(RenderSteps) + 1]
      BY <2>2, ExpandIs, Zenon
    <3> HIDE DEF u
    <3>. QED
      BY <2>2, <3>1, Zenon
  <2>5. \A i \in 1 .. Len(t) + 7 : u[i] = IF i <= 8 THEN RenderSteps[i] ELSE t[i - 7]
    <3>1. SUFFICES ASSUME NEW i \in 1 .. Len(t) + 7
                   PROVE  u[i] = IF i <= 8 THEN RenderSteps[i] ELSE t[i - 7]
      OBVIOUS
    <3>2. i \in 1 .. 8 + Len(t) - 1 /\ i - 8 + 1 = i - 7
      BY <2>1
    <3>3. u[i] = IF i <= 8 THEN RenderSteps[i] ELSE t[i - 8 + 1]
      BY <2>4, <3>2
    <3> HIDE DEF u
    <3>. QED
      BY <3>2, <3>3, Zenon
  <2> HIDE DEF u
  <2>6. 8 + Len(t) - 1 = Len(t) + 7
    BY <2>1
  <2>7. DOMAIN u = 1 .. Len(t) + 7 /\ Len(u) = Len(t) + 7
    BY <2>3, <2>6, Zenon
  <2>. QED
    BY <2>1, <2>5, <2>7
<1> HIDE DEF u
<1>2. \A a \in Before : \E j \in 1 .. 5 : u[j] = a
  BY <1>1, RenderStepsAre
<1>3. ASSUME NEW i \in 1 .. Len(t) + 7
      PROVE  /\ u[i] = "topo" => \A a \in Before :
                                    f[a] # Nil \/ \E j \in 1 .. i - 1 : u[j] = a
             /\ u[i] = "bind" => i # Len(u)
  <2>1. CASE i <= 8
    BY <1>1, <1>2, <2>1, RenderStepsAre
  <2>2. CASE i > 8
    <3>1. i - 7 \in DOMAIN t /\ u[i] = t[i - 7]
      BY <1>1, <2>2, TailIs
    <3>2. u[i] = "bind" => i # Len(u)
      BY <1>1, <2>2, <3>1 DEF RenderSeq
    <3>. QED
      BY <1>1, <1>2, <2>2, <3>2
  <2>. QED
    BY <1>1, <2>1, <2>2
<1>. QED
  BY <1>1, <1>3 DEF RenderSeq, u

LEMMA CleanTail ==
    ASSUME NEW t \in Seq(StepNames), t # <<>>, NEW x, CleanSeq(t, x)
    PROVE  CleanSeq(Tail(t), x)
<1>1. \A i \in DOMAIN Tail(t) : i + 1 \in DOMAIN t /\ Tail(t)[i] = t[i + 1]
  BY TailIs
<1>. QED
  BY <1>1 DEF CleanSeq

LEMMA CleanExpand ==
    ASSUME NEW t \in Seq(StepNames), t # <<>>, NEW x, CleanSeq(t, x), Head(t) \notin Removing,
           NEW s \in Seq(StepNames), \A i \in 1 .. Len(s) : s[i] \notin Removing
    PROVE  CleanSeq(s \o Tail(t), x)
<1>1. x # "clean"
  <2>1. 1 \in DOMAIN t /\ t[1] = Head(t)
    BY TailIs
  <2>. QED
    BY <2>1 DEF CleanSeq
<1> DEFINE u == s \o Tail(t)
<1>2. ASSUME NEW i \in DOMAIN u
      PROVE  u[i] \notin {"rmGen", "rmTopo"}
  <2>1. Len(s) \in Nat /\ Len(t) \in Nat \ {0} /\ DOMAIN t = 1 .. Len(t)
    BY TailIs, ExpandIs
  <2>2. /\ i \in 1 .. Len(s) + Len(t) - 1
        /\ u[i] = IF i <= Len(s) THEN s[i] ELSE t[i - Len(s) + 1]
    <3>1. /\ DOMAIN u = 1 .. Len(s) + Len(t) - 1
          /\ \A m \in 1 .. Len(s) + Len(t) - 1 :
                u[m] = IF m <= Len(s) THEN s[m] ELSE t[m - Len(s) + 1]
      BY ExpandIs, Zenon
    <3> HIDE DEF u
    <3>. QED
      BY <3>1, Zenon
  <2> HIDE DEF u
  <2>3. CASE i <= Len(s)
    BY <2>1, <2>2, <2>3 DEF Removing
  <2>4. CASE ~ (i <= Len(s))
    <3>1. i - Len(s) + 1 \in DOMAIN t
      BY <2>1, <2>2, <2>4
    <3>2. u[i] = t[i - Len(s) + 1]
      BY <2>2, <2>4, Zenon
    <3>. QED
      BY <1>1, <3>1, <3>2 DEF CleanSeq
  <2>. QED
    BY <2>3, <2>4
<1>. QED
  BY <1>1, <1>2 DEF CleanSeq

LEMMA OrderTail ==
    ASSUME NEW t \in Seq(StepNames), t # <<>>, Order(t)
    PROVE  Order(Tail(t))
<1>1. \A i \in DOMAIN Tail(t) : i \in Nat /\ i + 1 \in DOMAIN t /\ Tail(t)[i] = t[i + 1]
  BY TailIs
<1>. QED
  BY <1>1 DEF Order

LEMMA LastsTail ==
    ASSUME NEW t \in Seq(StepNames), t # <<>>, NEW x
    PROVE  /\ Lasts(Tail(t), x) => Lasts(t, x)
           /\ Lasts(t, x) /\ Head(t) # x => Lasts(Tail(t), x)
<1>1. \A i \in DOMAIN Tail(t) : i + 1 \in DOMAIN t /\ Tail(t)[i] = t[i + 1]
  BY TailIs
<1>2. \A i \in DOMAIN t : i = 1 \/ (i - 1 \in DOMAIN Tail(t) /\ Tail(t)[i - 1] = t[i])
  <2>1. SUFFICES ASSUME NEW i \in DOMAIN t, i # 1
                 PROVE  i - 1 \in DOMAIN Tail(t) /\ Tail(t)[i - 1] = t[i]
    OBVIOUS
  <2>2. i - 1 \in 1 .. Len(t) - 1 /\ (i - 1) + 1 = i
    BY <2>1, TailIs
  <2>3. Tail(t)[i - 1] = t[(i - 1) + 1]
    BY <2>2, TailIs
  <2>. QED
    BY <2>2, <2>3, TailIs
<1>3. Head(t) = t[1]
  BY TailIs
<1>. QED
  BY <1>1, <1>2, <1>3 DEF Lasts

LEMMA PrefixIs ==
    ASSUME NEW t \in Seq(StepNames), t # <<>>
    PROVE  LET u == RenderSteps \o Tail(t) IN
           /\ Len(t) \in Nat \ {0} /\ DOMAIN t = 1 .. Len(t) /\ DOMAIN u = 1 .. Len(t) + 7
           /\ \A i \in 1 .. 8 : u[i] \notin Removing \cup Starting
           /\ \A i \in 2 .. Len(t) : u[i + 7] = t[i]
           /\ u \in Seq(StepNames) /\ u # <<>>
<1> DEFINE u == RenderSteps \o Tail(t)
           k == Len(RenderSteps)
<1>1. RenderSteps \in Seq(StepNames) /\ k = 8
  BY RenderStepsAre
<1>2. Len(t) \in Nat \ {0} /\ DOMAIN t = 1 .. Len(t)
  BY TailIs
<1>3. /\ u \in Seq(StepNames) /\ DOMAIN u = 1 .. k + Len(t) - 1
      /\ \A i \in 1 .. k + Len(t) - 1 : u[i] = IF i <= k THEN RenderSteps[i] ELSE t[i - k + 1]
  BY <1>1, ExpandIs, Zenon
<1>4. \A i \in 1 .. 8 : RenderSteps[i] \notin Removing \cup Starting
  BY RenderStepsAre
<1> HIDE DEF u, k
<1>5. DOMAIN u = 1 .. Len(t) + 7
  <2>1. k + Len(t) - 1 = Len(t) + 7
    BY <1>1, <1>2
  <2>. QED
    BY <1>3, <2>1, Zenon
<1>6. \A i \in 1 .. 8 : u[i] \notin Removing \cup Starting
  <2>1. \A i \in 1 .. 8 : i \in 1 .. k + Len(t) - 1 /\ i <= k
    BY <1>1, <1>2
  <2>. QED
    BY <1>3, <1>4, <2>1, Zenon
<1>7. \A i \in 2 .. Len(t) : u[i + 7] = t[i]
  <2>1. SUFFICES ASSUME NEW i \in 2 .. Len(t)
                 PROVE  u[i + 7] = t[i]
    OBVIOUS
  <2>2. i + 7 \in 1 .. k + Len(t) - 1 /\ ~ (i + 7 <= k) /\ (i + 7) - k + 1 = i
    BY <1>1, <1>2
  <2>. QED
    BY <1>3, <2>2, Zenon
<1>8. u # <<>>
  BY <1>2, <1>5
<1>. QED
  BY <1>2, <1>3, <1>5, <1>6, <1>7, <1>8 DEF u

LEMMA OrderPrefix ==
    ASSUME NEW t \in Seq(StepNames), t # <<>>, Order(t),
           Head(t) \notin Removing \cup Starting
    PROVE  /\ Order(RenderSteps \o Tail(t))
           /\ \A x \in {"destroy", "kmeStage"} :
                 Lasts(RenderSteps \o Tail(t), x) <=> Lasts(t, x)
<1> DEFINE u == RenderSteps \o Tail(t)
<1>1. /\ Len(t) \in Nat \ {0} /\ DOMAIN t = 1 .. Len(t) /\ DOMAIN u = 1 .. Len(t) + 7
      /\ \A i \in 1 .. 8 : u[i] \notin Removing \cup Starting
      /\ \A i \in 2 .. Len(t) : u[i + 7] = t[i]
  BY PrefixIs
<1> HIDE DEF u
<1>2. ASSUME NEW i \in DOMAIN u, u[i] \in Removing \cup Starting
      PROVE  i \in Nat /\ i - 7 \in DOMAIN t /\ u[i] = t[i - 7]
  <2>1. i > 8 /\ i - 7 \in 2 .. Len(t) /\ (i - 7) + 7 = i
    BY <1>1, <1>2
  <2>. QED
    BY <1>1, <2>1
<1>3. Order(u)
  BY <1>1, <1>2 DEF Order, Removing, Starting
<1>4. ASSUME NEW x \in {"destroy", "kmeStage"}
      PROVE  Lasts(u, x) <=> Lasts(t, x)
  <2>1. Lasts(u, x) => Lasts(t, x)
    BY <1>2 DEF Lasts, Removing, Starting
  <2>2. ASSUME NEW i \in DOMAIN t, t[i] = x
        PROVE  i + 7 \in DOMAIN u /\ u[i + 7] = x
    <3>1. i # 1
      BY <2>2, TailIs DEF Removing, Starting
    <3>. QED
      BY <1>1, <2>2, <3>1
  <2>. QED
    BY <2>1, <2>2 DEF Lasts
<1>. QED
  BY <1>3, <1>4 DEF u

LEMMA StageIs ==
    ASSUME NEW t \in Seq(StepNames), t # <<>>
    PROVE  LET u == <<"kmeUp">> \o Tail(t) IN
           /\ DOMAIN u = DOMAIN t /\ DOMAIN t = 1 .. Len(t) /\ Len(t) \in Nat \ {0}
           /\ u \in Seq(StepNames) /\ u # <<>> /\ Len(u) = Len(t)
           /\ u[1] = "kmeUp" /\ \A i \in 2 .. Len(t) : u[i] = t[i]
<1> DEFINE s == <<"kmeUp">>
           u == s \o Tail(t)
<1>1. s \in Seq(StepNames) /\ Len(s) = 1 /\ s[1] = "kmeUp"
  BY DEF StepNames
<1> HIDE DEF s
<1>2. Len(t) \in Nat \ {0} /\ DOMAIN t = 1 .. Len(t)
  BY TailIs
<1>3. /\ u \in Seq(StepNames) /\ Len(u) = Len(s) + Len(t) - 1
      /\ DOMAIN u = 1 .. Len(s) + Len(t) - 1
      /\ \A i \in 1 .. Len(s) + Len(t) - 1 : u[i] = IF i <= Len(s) THEN s[i] ELSE t[i - Len(s) + 1]
  BY <1>1, ExpandIs, Zenon
<1> HIDE DEF u
<1>4. Len(s) + Len(t) - 1 = Len(t)
  BY <1>1, <1>2
<1>5. DOMAIN u = 1 .. Len(t) /\ Len(u) = Len(t)
  BY <1>3, <1>4, Zenon
<1>6. \A i \in 2 .. Len(t) : u[i] = t[i]
  <2>1. SUFFICES ASSUME NEW i \in 2 .. Len(t)
                 PROVE  u[i] = t[i]
    OBVIOUS
  <2>2. i \in 1 .. Len(s) + Len(t) - 1 /\ ~ (i <= Len(s)) /\ i - Len(s) + 1 = i
    BY <1>1, <1>2
  <2>. QED
    BY <1>3, <2>2, Zenon
<1>7. u[1] = "kmeUp"
  <2>1. 1 \in 1 .. Len(s) + Len(t) - 1 /\ 1 <= Len(s)
    BY <1>1, <1>2
  <2>. QED
    BY <1>1, <1>3, <2>1, Zenon
<1>8. u # <<>>
  BY <1>2, <1>5
<1>. QED
  BY <1>2, <1>3, <1>5, <1>6, <1>7, <1>8 DEF u, s

LEMMA OrderStage ==
    ASSUME NEW t \in Seq(StepNames), t # <<>>, Head(t) = "kmeStage", Order(t)
    PROVE  LET u == <<"kmeUp">> \o Tail(t) IN
           Order(u) /\ ~Lasts(t, "destroy") /\ ~Lasts(u, "destroy") /\ ~Lasts(u, "kmeStage")
<1> DEFINE u == <<"kmeUp">> \o Tail(t)
<1>1. /\ DOMAIN u = DOMAIN t /\ DOMAIN t = 1 .. Len(t) /\ Len(t) \in Nat \ {0}
      /\ u[1] = "kmeUp" /\ \A i \in 2 .. Len(t) : u[i] = t[i]
  BY StageIs
<1>2. t[1] = "kmeStage"
  BY TailIs
<1> HIDE DEF u
<1>3. \A i \in DOMAIN t : t[i] # "destroy" /\ (t[i] = "kmeStage" => i = 1)
  BY <1>1, <1>2 DEF Order, Starting
<1>4. \A i \in DOMAIN u : u[i] \notin {"destroy", "kmeStage"}
  BY <1>1, <1>3
<1>. QED
  BY <1>3, <1>4 DEF Order, Lasts, u

-------------------------------------------------------------------------------
(* What a step of a running invocation may do to its list of steps, to the *)
(* nodes and to the files.                                                 *)

Kept == DOMAIN inv' = DOMAIN inv /\ inv'.target = inv.target /\ inv'.set = inv.set
Stays == inv'.todo = Todo /\ inv'.result = inv.result
Refused ==
    \/ Head(Todo) = "kmeStage" /\ Kmes \cap Up # {}
    \/ Head(Todo) = "full" /\ Ceos \cap inv.old # {}
Ends ==
    /\ inv'.todo = <<>> /\ inv'.result \in {"ok", "failed", "invalid", "rejected", "died"}
    /\ inv'.result = "rejected" => Refused
Goes(t) == inv'.todo = t /\ inv'.result = "running" /\ inv'.old = inv.old
Shrinks == Goes(Tail(Todo)) /\ Tail(Todo) # <<>>
Renders == Goes(RenderSteps \o Tail(Todo)) /\ Head(Todo) \in {"gen", "rule", "configRule"}
Stages == Goes(<<"kmeUp">> \o Tail(Todo)) /\ Head(Todo) = "kmeStage"
TodoMoves == Kept /\ (Stays \/ (Running /\ (Ends \/ Shrinks \/ Renders \/ Stages)))

Grows ==
    /\ Stays /\ inv'.old = inv.old
    /\ Running /\ Head(Todo) \in {"kmeUp", "full"} /\ Up \subseteq Up'
Loses ==
    /\ Stays /\ Running /\ Head(Todo) = "destroy"
    /\ \E n \in Nodes : Up' = Up \ {n} /\ inv'.old = inv.old \ {n}
NodeMoves ==
    /\ DOMAIN nodes' = Nodes /\ DOMAIN ext' = Ceos /\ DOMAIN agent' = Ceos
    /\ \/ nodes' = nodes /\ (Stays => inv'.old = inv.old)
       \/ Grows \/ Loses
    /\ Shrinks /\ Head(Todo) = "destroy" => Up = {}

Writes(a) ==
    /\ Running /\ Head(Todo) = a /\ (Ends \/ Shrinks) /\ files'[a] # Nil
    /\ \A b \in Artifacts \ {a} : files'[b] = files[b]
    /\ a # "topo" => torn' = torn
Removes ==
    /\ Running /\ Head(Todo) \in {"rmGen", "rmTopo"}
    /\ torn' \/ files'["topo"] = Nil \/ (files' = files /\ torn' = torn)
FileMoves ==
    /\ DOMAIN files' = Artifacts
    /\ \/ files' = files /\ torn' = torn /\ (Shrinks => Head(Todo) \notin Artifacts)
       \/ (\E a \in Artifacts : Writes(a))
       \/ Removes

LEMMA EndMoves ==
    ASSUME Shapes, Running, NEW r \in {"ok", "failed", "invalid", "rejected", "died"},
           r = "rejected" => Refused, End(r)
    PROVE  Kept /\ Ends
<1>1. /\ DOMAIN inv' = DOMAIN inv /\ inv'.target = inv.target /\ inv'.set = inv.set
      /\ inv'.todo = <<>> /\ inv'.result = r
  BY DEF End, Shapes, Fields
<1>. QED
  BY <1>1 DEF Kept, Ends

LEMMA TailMoves ==
    ASSUME Shapes, Running, Len(Todo) # 1, inv' = [inv EXCEPT !.todo = Tail(@)]
    PROVE  Kept /\ Shrinks
<1>1. /\ DOMAIN inv' = DOMAIN inv /\ inv'.target = inv.target /\ inv'.set = inv.set
      /\ inv'.todo = Tail(Todo) /\ inv'.result = "running" /\ inv'.old = inv.old
  BY DEF Shapes, Fields, Running, Todo
<1>2. Tail(Todo) # <<>>
  <2>1. Todo \in Seq(StepNames) /\ Todo # <<>>
    BY DEF Shapes
  <2>2. Len(Todo) \in Nat \ {0} /\ Len(Tail(Todo)) = Len(Todo) - 1
    BY <2>1, TailIs
  <2>3. Len(<<>>) = 0
    OBVIOUS
  <2>4. Len(Tail(Todo)) # 0
    BY <2>2
  <2>. QED
    BY <2>3, <2>4
<1>. QED
  BY <1>1, <1>2 DEF Kept, Shrinks, Goes

LEMMA DoneMoves ==
    ASSUME Shapes, Running, Done
    PROVE  Kept /\ (Ends \/ Shrinks)
<1>1. CASE Len(Todo) = 1
  <2>1. End("ok")
    BY <1>1 DEF Done, Todo
  <2>. QED
    BY <2>1, EndMoves
<1>2. CASE Len(Todo) # 1
  <2>1. inv' = [inv EXCEPT !.todo = Tail(@)]
    BY <1>2 DEF Done, Todo
  <2>. QED
    BY <1>2, <2>1, TailMoves
<1>. QED
  BY <1>1, <1>2

\* A step that leaves the invocation, the nodes and the files alone.
LEMMA QuietMoves ==
    ASSUME Shapes, UNCHANGED <<inv, nodes, files, torn>>,
           DOMAIN ext' = Ceos, DOMAIN agent' = Ceos
    PROVE  TodoMoves /\ NodeMoves /\ FileMoves
<1>1. Kept /\ Stays /\ inv'.old = inv.old
  BY DEF Kept, Stays, Todo
<1>2. ~Shrinks
  <2>1. Running => Len(Tail(Todo)) # Len(Todo)
    <3>1. Running => Todo \in Seq(StepNames) /\ Todo # <<>>
      BY DEF Shapes
    <3>. QED
      BY <3>1, TailIs
  <2>. QED
    BY <2>1 DEF Shrinks, Goes, Running, Todo
<1>. QED
  BY <1>1, <1>2 DEF TodoMoves, NodeMoves, FileMoves, Shapes

\* A step that leaves the nodes and the files alone and goes on, or ends.
LEMMA WorkMoves ==
    ASSUME Shapes, Running, UNCHANGED <<nodes, files, torn>>,
           DOMAIN ext' = Ceos, DOMAIN agent' = Ceos,
           Kept, Ends \/ Shrinks \/ Renders \/ Stages,
           Head(Todo) \notin Artifacts \/ Ends, Head(Todo) = "destroy" => Up = {} \/ Ends
    PROVE  TodoMoves /\ NodeMoves /\ FileMoves
<1>1. ~Stays
  <2>1. Todo \in Seq(StepNames) /\ Todo # <<>>
    BY DEF Shapes
  <2>2. CASE Ends
    BY <2>1, <2>2 DEF Stays, Ends
  <2>3. CASE Shrinks
    BY <2>1, <2>3, TailIs DEF Stays, Shrinks, Goes
  <2>4. CASE Renders
    <3>1. DOMAIN inv'.todo = 1 .. Len(Todo) + 7 /\ DOMAIN Todo = 1 .. Len(Todo) /\ Len(Todo) \in Nat
      BY <2>1, <2>4, PrefixIs DEF Renders, Goes
    <3>2. Len(Todo) + 7 \in 1 .. Len(Todo) + 7 /\ Len(Todo) + 7 \notin 1 .. Len(Todo)
      BY <3>1
    <3>. QED
      BY <3>1, <3>2 DEF Stays
  <2>5. CASE Stages
    <3>1. inv'.todo[1] = "kmeUp"
      BY <2>1, <2>5, StageIs DEF Stages, Goes
    <3>2. Todo[1] = "kmeStage"
      BY <2>1, <2>5, TailIs DEF Stages
    <3>. QED
      BY <3>1, <3>2 DEF Stays
  <2>. QED
    BY <2>2, <2>3, <2>4, <2>5
<1>2. Ends => ~Shrinks
  BY DEF Ends, Shrinks, Goes
<1>. QED
  BY <1>1, <1>2 DEF TodoMoves, NodeMoves, FileMoves, Shapes

\* A file is written, and the invocation goes on or ends.
LEMMA WriteMoves ==
    ASSUME Shapes, Running, NEW a \in Artifacts, Head(Todo) = a, Kept, Ends \/ Shrinks,
           DOMAIN files' = Artifacts, files'[a] # Nil,
           \A b \in Artifacts \ {a} : files'[b] = files[b],
           a # "topo" => torn' = torn, UNCHANGED <<nodes, ext, agent>>
    PROVE  TodoMoves /\ NodeMoves /\ FileMoves
<1>1. Writes(a)
  BY DEF Writes
<1>2. ~Stays
  <2>1. Todo \in Seq(StepNames) /\ Todo # <<>>
    BY DEF Shapes
  <2>. QED
    BY <2>1, TailIs DEF Stays, Ends, Shrinks, Goes
<1>3. NodeMoves
  BY <1>2 DEF NodeMoves, Shapes, Artifacts, Uses
<1>. QED
  BY <1>1, <1>3 DEF TodoMoves, FileMoves

\* What a rendering that stops leaves.
LEMMA PartlyIs ==
    ASSUME Shapes, NEW a \in Artifacts, files' \in Partly(a)
    PROVE  \/ files' = files
           \/ /\ a # "topo" /\ DOMAIN files' = Artifacts /\ files'[a] # Nil
              /\ \A b \in Artifacts \ {a} : files'[b] = files[b]
<1> DEFINE R == [from |-> inv.set, sound |-> FALSE]
<1>1. R # Nil
  <2>1. R \in [from : Settings \cup {Nil}, sound : BOOLEAN]
    BY DEF Shapes
  <2>. QED
    BY <2>1, LabAssumption DEF LabAssumption
<1>2. files' = files \/ (a # "topo" /\ files' = [files EXCEPT ![a] = R])
  BY DEF Partly
<1> HIDE DEF R
<1>. QED
  BY <1>1, <1>2 DEF Shapes

LEMMA StepMoves ==
    ASSUME Shapes, RenderInv, [Next]_vars, ~Begin
    PROVE  TodoMoves /\ NodeMoves /\ FileMoves
<1> USE DEF Shapes
<1>1. Running => Todo \in Seq(StepNames) /\ Todo # <<>> /\ Head(Todo) = Todo[1] /\ 1 \in DOMAIN Todo
  BY TailIs
<1> DEFINE Same == UNCHANGED <<nodes, ext, agent, files, torn>>
<1>2. ASSUME Running, Same, Kept, Ends \/ Shrinks \/ Renders \/ Stages,
             Head(Todo) \notin Artifacts \cup {"destroy"} \/ Ends
      PROVE  TodoMoves /\ NodeMoves /\ FileMoves
  BY <1>2, WorkMoves
<1> HIDE DEF Shapes
<1>3. CASE GenTopoStep
  <2>1. Running /\ Head(Todo) = "gen" /\ Same
    BY <1>3 DEF GenTopoStep, Do, quadraVars, hostVars, Todo
  <2>2. Kept /\ Renders
    BY <1>3, <2>1 DEF GenTopoStep, Kept, Renders, Goes, Shapes, Fields, Todo, Running
  <2>. QED
    BY <1>2, <2>1, <2>2 DEF Artifacts, Uses
<1>4. CASE FileRule
  <2>1. Running /\ Head(Todo) \in {"rule", "configRule"} /\ Same
    BY <1>4 DEF FileRule, Do, quadraVars, hostVars, Todo
  <2>2. End("failed") \/ Expand(RenderSteps, FALSE) \/ Done
    BY <1>4 DEF FileRule
  <2>3. CASE End("failed")
    BY <2>1, <2>3, EndMoves, <1>2
  <2>4. CASE Expand(RenderSteps, FALSE)
    <3>1. Kept /\ Renders
      BY <2>1, <2>4 DEF Expand, Kept, Renders, Goes, Shapes, Fields, Todo, Running
    <3>. QED
      BY <1>2, <2>1, <3>1 DEF Artifacts, Uses
  <2>5. CASE Done
    BY <1>2, <2>1, <2>5, DoneMoves DEF Artifacts, Uses
  <2>. QED
    BY <2>2, <2>3, <2>4, <2>5
<1>5. ASSUME NEW a \in Artifacts, Do(a), Render(a), UNCHANGED <<nodes, ext, agent>>,
             a # "topo" \/ ~Renderable(a) => torn' = torn
      PROVE  TodoMoves /\ NodeMoves /\ FileMoves
  <2>1. Running /\ Head(Todo) = a
    BY <1>5 DEF Do, Todo
  <2>2. CASE ~Renderable(a)
    <3>1. End("failed") /\ files' \in Partly(a) /\ torn' = torn
      BY <1>5, <2>2 DEF Render
    <3>2. Kept /\ Ends
      BY <2>1, <3>1, EndMoves
    <3>. QED
      BY <1>2, <1>5, <2>1, <3>1, <3>2, PartlyIs, WriteMoves
  <2>3. CASE Renderable(a)
    <3>1. /\ files' = [files EXCEPT ![a] = [from |-> inv.set, sound |-> template.of # a]]
          /\ Done
      BY <1>5, <2>3 DEF Render
    <3>2. Kept /\ (Ends \/ Shrinks)
      BY <2>1, <3>1, DoneMoves
    <3>3. [from |-> inv.set, sound |-> template.of # a] # Nil
      <4>1. \A b \in BOOLEAN : [from |-> inv.set, sound |-> b] # Nil
        BY LabAssumption DEF LabAssumption, Shapes
      <4>2. (template.of # a) \in BOOLEAN
        OBVIOUS
      <4>. QED
        BY <4>1, <4>2, Zenon
    <3>4. /\ DOMAIN files' = Artifacts /\ files'[a] # Nil
          /\ \A b \in Artifacts \ {a} : files'[b] = files[b]
      BY <3>1, <3>3 DEF Shapes
    <3>. QED
      BY <1>5, <2>1, <2>3, <3>2, <3>4, WriteMoves
  <2>. QED
    BY <2>2, <2>3
<1>6. CASE RenderFile
  BY <1>5, <1>6 DEF RenderFile, quadraVars
<1>7. CASE RenderTopology
  <2>1. "topo" \in Artifacts
    BY DEF Artifacts, Uses
  <2>2. /\ Do("topo") /\ Render("topo") /\ UNCHANGED <<nodes, ext, agent>>
        /\ ~Renderable("topo") => torn' = torn
    BY <1>7 DEF RenderTopology, quadraVars
  <2>. QED
    BY <1>5, <2>1, <2>2
<1>8. CASE ResolveBind
  <2>1. Running /\ Head(Todo) = "bind" /\ Same
    BY <1>8 DEF ResolveBind, Do, quadraVars, hostVars, Todo
  <2>2. Len(Todo) \in Nat \ {0, 1}
    <3>1. Len(Todo) \in Nat \ {0}
      BY <1>1, <2>1, TailIs
    <3>2. Todo[1] = "bind" => 1 # Len(Todo)
      BY <1>1, <2>1 DEF RenderInv, RenderSeq
    <3>. QED
      BY <1>1, <2>1, <3>1, <3>2
  <2>3. /\ DOMAIN inv' = DOMAIN inv /\ inv'.target = inv.target /\ inv'.set = inv.set
        /\ inv'.todo = Tail(Todo) /\ inv'.result = "running" /\ inv'.old = inv.old
    BY <1>8, <2>1 DEF ResolveBind, Shapes, Fields, Running, Todo
  <2>4. Tail(Todo) # <<>>
    <3>1. Len(Tail(Todo)) = Len(Todo) - 1
      BY <1>1, <2>1, TailIs
    <3>2. Len(<<>>) = 0
      OBVIOUS
    <3>3. Len(Tail(Todo)) # 0
      BY <2>2, <3>1
    <3>. QED
      BY <3>2, <3>3
  <2>. QED
    BY <1>2, <2>1, <2>3, <2>4 DEF Kept, Shrinks, Goes, Artifacts, Uses
<1>9. CASE ValidateTopo
  <2>1. Running /\ Head(Todo) = "validate" /\ Same /\ (Done \/ End("invalid"))
    BY <1>9 DEF ValidateTopo, Do, quadraVars, hostVars, Todo
  <2>2. Kept /\ (Ends \/ Shrinks)
    BY <2>1, DoneMoves, EndMoves
  <2>. QED
    BY <1>2, <2>1, <2>2 DEF Artifacts, Uses
<1>10. CASE WaitKmePool
  <2>1. Running /\ Head(Todo) = "pool" /\ Same /\ Done
    BY <1>10 DEF WaitKmePool, Do, quadraVars, hostVars, Todo
  <2>. QED
    BY <1>2, <2>1, DoneMoves DEF Artifacts, Uses
<1>11. ASSUME Running, Head(Todo) \in {"kmeUp", "full"}, NEW ns \in SUBSET Nodes, Create(ns),
              UNCHANGED <<files, torn>>
       PROVE  TodoMoves /\ NodeMoves /\ FileMoves
  <2>1. /\ Stays /\ Kept /\ inv'.old = inv.old /\ DOMAIN ext' = Ceos /\ DOMAIN agent' = Ceos
        /\ Shrinks => FALSE
    <3>1. inv' = inv /\ ext' = ext /\ agent' = agent
      BY <1>11 DEF Create
    <3>2. Len(Tail(Todo)) # Len(Todo)
      BY <1>1, <1>11, TailIs
    <3>. QED
      BY <3>1, <3>2 DEF Stays, Kept, Shapes, Shrinks, Goes, Todo
  <2>2. DOMAIN nodes' = Nodes /\ Up \subseteq Up'
    <3>1. PICK n \in ns \ Up : \E r : nodes' = [nodes EXCEPT ![n] = r]
      BY <1>11 DEF Create
    <3>2. DOMAIN nodes' = Nodes /\ \A m \in Nodes \ {n} : nodes'[m] = nodes[m]
      BY <3>1 DEF Shapes
    <3>. QED
      BY <3>1, <3>2 DEF Up
  <2>3. Grows
    BY <1>11, <2>1, <2>2 DEF Grows
  <2>. QED
    BY <1>11, <2>1, <2>2, <2>3 DEF TodoMoves, NodeMoves, FileMoves, Shapes
<1>12. CASE DeployKmes
  <2>1. UNCHANGED <<files, torn>>
    BY <1>12 DEF DeployKmes, hostVars
  <2>2. CASE Do("kmeStage") /\ UNCHANGED <<nodes, ext, agent>>
             /\ (IF Kmes \cap Up # {} THEN End("rejected")
                 ELSE IF \E n \in Kmes : ~Mountable(n) THEN End("failed")
                 ELSE inv' = [inv EXCEPT !.todo = <<"kmeUp">> \o Tail(@)])
    <3>1. Running /\ Head(Todo) = "kmeStage" /\ Same
      BY <2>1, <2>2 DEF Do, Todo
    <3>2. CASE Kmes \cap Up # {}
      BY <1>2, <2>2, <3>1, <3>2, EndMoves DEF Refused
    <3>3. CASE Kmes \cap Up = {} /\ \E n \in Kmes : ~Mountable(n)
      BY <1>2, <2>2, <3>1, <3>3, EndMoves
    <3>4. CASE inv' = [inv EXCEPT !.todo = <<"kmeUp">> \o Tail(@)]
      <4>1. Kept /\ Stages
        BY <3>1, <3>4 DEF Kept, Stages, Goes, Shapes, Fields, Running, Todo
      <4>. QED
        BY <1>2, <3>1, <4>1 DEF Artifacts, Uses
    <3>. QED
      BY <2>2, <3>2, <3>3, <3>4
  <2>3. CASE Do("kmeUp") /\ Create(Kmes)
    BY <1>11, <2>1, <2>3 DEF Do, Todo, Nodes
  <2>4. CASE Do("kmeUp") /\ Done /\ UNCHANGED <<nodes, ext, agent>>
    <3>1. Running /\ Head(Todo) = "kmeUp" /\ Same
      BY <2>1, <2>4 DEF Do, Todo
    <3>. QED
      BY <1>2, <2>4, <3>1, DoneMoves DEF Artifacts, Uses
  <2>. QED
    BY <1>12, <2>2, <2>3, <2>4 DEF DeployKmes
<1>13. CASE DeployAll
  <2>1. UNCHANGED <<files, torn>> /\ Running /\ Head(Todo) = "full"
    BY <1>13 DEF DeployAll, hostVars, Do, Todo
  <2>2. CASE Ceos \cap inv.old # {} /\ End("rejected") /\ UNCHANGED <<nodes, ext, agent>>
    BY <1>2, <2>1, <2>2, EndMoves DEF Refused
  <2>3. CASE End("failed") /\ UNCHANGED <<nodes, ext, agent>>
    BY <1>2, <2>1, <2>3, EndMoves
  <2>4. CASE Create(Nodes)
    BY <1>11, <2>1, <2>4
  <2>. QED
    BY <1>13, <2>2, <2>3, <2>4 DEF DeployAll
<1>14. CASE RunInstallExecs
  <2>1. /\ Running /\ Head(Todo) = "full" /\ UNCHANGED <<nodes, files, torn>> /\ Done
        /\ DOMAIN ext' = Ceos /\ DOMAIN agent' = Ceos
    BY <1>14 DEF RunInstallExecs, hostVars, Do, Todo
  <2>2. Kept /\ (Ends \/ Shrinks)
    BY <2>1, DoneMoves
  <2>. QED
    BY <2>1, <2>2, WorkMoves DEF Artifacts, Uses
<1>15. CASE DestroyLab
  <2>1. Running /\ Head(Todo) = "destroy" /\ UNCHANGED <<files, torn>>
    BY <1>15 DEF DestroyLab, hostVars, Do, Todo
  <2>2. ASSUME NEW n \in Up, nodes' = [nodes EXCEPT ![n] = Nil],
               DOMAIN ext' = Ceos, DOMAIN agent' = Ceos,
               inv' = [inv EXCEPT !.old = @ \ {n}]
        PROVE  TodoMoves /\ NodeMoves /\ FileMoves
    <3>1. Kept /\ Stays /\ inv'.old = inv.old \ {n}
      BY <2>2 DEF Kept, Stays, Shapes, Fields, Todo
    <3>2. Len(Tail(Todo)) # Len(Todo)
      BY <1>1, <2>1, TailIs
    <3>3. ~Shrinks
      BY <3>1, <3>2 DEF Shrinks, Goes, Stays
    <3>4. n \in Nodes /\ DOMAIN nodes' = Nodes /\ Up' = Up \ {n}
      BY <2>2 DEF Up, Shapes
    <3>5. Loses
      BY <2>1, <3>1, <3>4 DEF Loses
    <3>. QED
      BY <2>1, <2>2, <3>1, <3>3, <3>4, <3>5 DEF TodoMoves, NodeMoves, FileMoves, Shapes
  <2>3. CASE Up = {} /\ Done /\ UNCHANGED <<nodes, ext, agent>>
    <3>1. Kept /\ (Ends \/ Shrinks)
      BY <2>1, <2>3, DoneMoves
    <3>. QED
      BY <2>1, <2>3, <3>1, WorkMoves DEF Artifacts, Uses, Shapes
  <2>. QED
    BY <1>15, <2>2, <2>3 DEF DestroyLab
<1>16. CASE RemoveFiles
  <2>1. UNCHANGED <<nodes, ext, agent>> /\ Running /\ Head(Todo) \in {"rmGen", "rmTopo"}
    BY <1>16 DEF RemoveFiles, quadraVars, Do, Todo
  <2>2. Todo \in Seq(StepNames) /\ Todo # <<>> /\ Len(Tail(Todo)) # Len(Todo)
    BY <1>1, <2>1, TailIs
  <2>3. CASE Done /\ UNCHANGED <<files, torn>>
    <3>1. Kept /\ (Ends \/ Shrinks)
      BY <2>1, <2>3, DoneMoves
    <3>. QED
      BY <2>1, <2>3, <3>1, <1>2 DEF Artifacts, Uses
  <2>4. CASE torn' = TRUE /\ inv' = inv /\ \E a \in Artifacts : files' = [files EXCEPT ![a] = Nil]
    <3>1. Kept /\ Stays /\ inv'.old = inv.old /\ ~Shrinks
      BY <2>2, <2>4 DEF Kept, Stays, Shrinks, Goes, Todo
    <3>2. DOMAIN files' = Artifacts /\ Removes
      BY <2>1, <2>4 DEF Removes, Shapes
    <3>. QED
      BY <2>1, <3>1, <3>2 DEF TodoMoves, NodeMoves, FileMoves, Shapes
  <2>6. CASE UNCHANGED <<files, torn, inv>>
    BY <2>1, <2>6, QuietMoves DEF Shapes
  <2>5. CASE Done /\ files' = [files EXCEPT !.topo = Nil, !.annot = Nil]
    <3>1. Kept /\ (Ends \/ Shrinks)
      BY <2>1, <2>5, DoneMoves
    <3>2. ~Stays
      BY <2>2, <3>1 DEF Stays, Ends, Shrinks, Goes
    <3>3. "topo" \in Artifacts /\ "annot" \in Artifacts
      BY DEF Artifacts, Uses
    <3>4. DOMAIN files' = Artifacts /\ files'["topo"] = Nil
      BY <2>5, <3>3 DEF Shapes
    <3>5. Removes
      BY <2>1, <3>4 DEF Removes
    <3>. QED
      BY <2>1, <3>1, <3>2, <3>4, <3>5 DEF TodoMoves, NodeMoves, FileMoves, Shapes
  <2>. QED
    BY <1>16, <2>3, <2>4, <2>5, <2>6 DEF RemoveFiles, RuleTargets
<1>17. ASSUME UNCHANGED <<inv, nodes, files, torn>>, DOMAIN ext' = Ceos, DOMAIN agent' = Ceos
       PROVE  TodoMoves /\ NodeMoves /\ FileMoves
  BY <1>17, QuietMoves
<1>18. CASE InstallQuadra
  <2>1. Running /\ Head(Todo) = "install" /\ UNCHANGED <<nodes, files, torn>>
    BY <1>18 DEF InstallQuadra, Do, Todo, hostVars
  <2>2. CASE UNCHANGED <<inv, ext, agent>>
    BY <1>17, <2>1, <2>2 DEF Shapes
  <2>3. CASE inv' = inv /\ (InstallStep \/ CallFails)
    <3>1. DOMAIN ext' = Ceos /\ DOMAIN agent' = Ceos
      BY <2>3 DEF InstallStep, CallFails, ShowExtensions, CopyToFlash, InstallExtension,
                  ShowAgent, StartAgent, Shapes
    <3>. QED
      BY <1>17, <2>1, <2>3, <3>1
  <2>4. CASE job.at \in {"ok", "failed"} /\ End(job.at) /\ UNCHANGED <<ext, agent>>
    <3>1. Kept /\ Ends
      BY <2>1, <2>4, EndMoves
    <3>. QED
      BY <1>2, <2>1, <2>4, <3>1
  <2>. QED
    BY <1>18, <2>2, <2>3, <2>4 DEF InstallQuadra
<1>19. CASE Die
  <2>1. Running /\ End("died") /\ UNCHANGED <<nodes, ext, agent, torn>>
    BY <1>19 DEF Die, quadraVars
  <2>2. Kept /\ Ends
    BY <2>1, EndMoves
  <2>3. CASE files' = files
    BY <1>2, <2>1, <2>2, <2>3
  <2>4. CASE Head(Todo) \in Artifacts /\ files' \in Partly(Head(Todo))
    BY <1>2, <2>1, <2>2, <2>4, PartlyIs, WriteMoves
  <2>. QED
    BY <1>19, <2>3, <2>4 DEF Die, Todo
<1>20. CASE DropSwix
  BY <1>17, <1>20 DEF DropSwix, quadraVars, hostVars, Shapes
<1>21. CASE EditTemplate
  BY <1>17, <1>21 DEF EditTemplate, quadraVars, Shapes
<1>22. CASE RestartSwitch
  <2>1. DOMAIN ext' = Ceos /\ DOMAIN agent' = Ceos
    BY <1>22 DEF RestartSwitch, Restart, Shapes
  <2>. QED
    BY <1>17, <1>22, <2>1 DEF RestartSwitch, hostVars
<1>23. CASE UNCHANGED vars
  BY <1>17, <1>23 DEF vars, quadraVars, hostVars, Shapes
<1>24. CASE EnsureCa \/ NewLeafKey \/ MarkLeaf
  BY <1>17, <1>24 DEF EnsureCa, NewLeafKey, MarkLeaf, quadraVars, Shapes
<1>25. CASE SignLeaf
  <2>1. Running /\ Same /\ (inv' = inv \/ End("failed"))
    BY <1>25 DEF SignLeaf, Pki, Do, quadraVars
  <2>2. CASE inv' = inv
    BY <1>17, <2>1, <2>2 DEF Shapes
  <2>3. CASE End("failed")
    BY <1>2, <2>1, <2>3, EndMoves
  <2>. QED
    BY <2>1, <2>2, <2>3
<1>26. CASE CopyLeaf
  <2> DEFINE R == [from |-> work.crt, sound |-> work.key = "own" /\ work.chain]
  <2>1. /\ Running /\ Head(Todo) = "pki" /\ UNCHANGED <<nodes, ext, agent, torn>>
        /\ files' = [files EXCEPT !["pki"] = R] /\ (End("failed") \/ Done)
    BY <1>26 DEF CopyLeaf, Pki, Do, Todo, quadraVars
  <2>2. R # Nil
    <3>1. R \in [from : Settings \cup {Nil}, sound : BOOLEAN]
      BY DEF Shapes, Works
    <3>. QED
      BY <3>1, LabAssumption DEF LabAssumption
  <2> HIDE DEF R
  <2>3. "pki" \in Artifacts
    BY DEF Artifacts, Uses
  <2>4. /\ DOMAIN files' = Artifacts /\ files'["pki"] # Nil
        /\ \A b \in Artifacts \ {"pki"} : files'[b] = files[b]
    BY <2>1, <2>2, <2>3 DEF Shapes
  <2>5. Kept /\ (Ends \/ Shrinks)
    BY <2>1, EndMoves, DoneMoves
  <2>. QED
    BY <2>1, <2>3, <2>4, <2>5, WriteMoves
<1>. QED
  BY <1>24, <1>25, <1>26, <1>3, <1>4, <1>6, <1>7, <1>8, <1>9, <1>10, <1>12, <1>13, <1>14, <1>15, <1>16, <1>18,
     <1>19, <1>20, <1>21, <1>22, <1>23 DEF Next, GenerateRadsecPki

-------------------------------------------------------------------------------
(* The targets.                                                            *)

LEMMA PartsAre ==
    /\ GenTopo \in Seq(Plain) /\ Len(GenTopo) = 3 /\ GenTopo[1] = "gen"
    /\ Destroy \in Seq(Plain) /\ Len(Destroy) = 2 /\ Destroy[2] = "destroy"
    /\ Deploy \in Seq(Plain) /\ Len(Deploy) = 5
    /\ Deploy[1] = "configRule" /\ Deploy[2] = "rule" /\ Deploy[3] = "kmeStage"
    /\ Deploy[4] = "pool" /\ Deploy[5] = "full"
    /\ GenTopo[2] = "rule" /\ GenTopo[3] = "validate" /\ Destroy[1] = "rule"
<1> DEFINE s == <<"configRule">>
           k == DeployKme
           t == <<"pool", "full">>
<1>1. s \in Seq(Plain) /\ Len(s) = 1 /\ s[1] = "configRule"
  BY DEF Plain, StepNames
<1>2. k \in Seq(Plain) /\ Len(k) = 2 /\ k[1] = "rule" /\ k[2] = "kmeStage"
  BY DEF Plain, StepNames, DeployKme
<1>3. t \in Seq(Plain) /\ Len(t) = 2 /\ t[1] = "pool" /\ t[2] = "full"
  BY DEF Plain, StepNames
<1>4. Deploy = (s \o k) \o t
  BY DEF Deploy
<1> HIDE DEF s, k, t
<1>5. /\ s \o k \in Seq(Plain) /\ Len(s \o k) = 3
      /\ (s \o k)[1] = s[1] /\ (s \o k)[2] = k[1] /\ (s \o k)[3] = k[2]
  <2>1. /\ s \o k \in Seq(Plain) /\ Len(s \o k) = 3
        /\ \A i \in 1 .. 3 : (s \o k)[i] = IF i <= 1 THEN s[i] ELSE k[i - 1]
    BY <1>1, <1>2, ConcatProperties
  <2>. QED
    BY <2>1
<1>6. /\ (s \o k) \o t \in Seq(Plain)
      /\ \A i \in 1 .. 5 : ((s \o k) \o t)[i] = IF i <= 3 THEN (s \o k)[i] ELSE t[i - 3]
  BY <1>3, <1>5, ConcatProperties
<1>11. Len((s \o k) \o t) = 5
  <2>1. Len((s \o k) \o t) = Len(s \o k) + Len(t)
    BY <1>3, <1>5, ConcatProperties, Zenon
  <2>. QED
    BY <1>3, <1>5, <2>1
<1>7. GenTopo \in Seq(Plain) /\ Len(GenTopo) = 3
  BY DEF GenTopo, Plain, StepNames
<1>8. GenTopo[1] = "gen" /\ GenTopo[2] = "rule" /\ GenTopo[3] = "validate"
  BY DEF GenTopo
<1>9. /\ Destroy \in Seq(Plain) /\ Len(Destroy) = 2
      /\ Destroy[1] = "rule" /\ Destroy[2] = "destroy"
  BY DEF Destroy, Plain, StepNames
<1>10. /\ Deploy \in Seq(Plain) /\ Len(Deploy) = 5
       /\ Deploy[1] = "configRule" /\ Deploy[2] = "rule" /\ Deploy[3] = "kmeStage"
       /\ Deploy[4] = "pool" /\ Deploy[5] = "full"
  BY <1>1, <1>2, <1>3, <1>4, <1>5, <1>6, <1>11
<1>. QED
  BY <1>7, <1>8, <1>9, <1>10

\* Where the steps of two sequences are in their concatenation.
LEMMA JoinIs ==
    ASSUME NEW S, NEW s \in Seq(S), NEW t \in Seq(S)
    PROVE  LET u == s \o t
               k == Len(s)
           IN /\ k \in Nat /\ DOMAIN s = 1 .. k /\ DOMAIN t \subseteq Nat \ {0}
              /\ \A i \in DOMAIN u : \/ i \in DOMAIN s /\ u[i] = s[i]
                                     \/ i \in Nat /\ i - k \in DOMAIN t /\ u[i] = t[i - k]
              /\ \A i \in DOMAIN s : i \in DOMAIN u /\ u[i] = s[i]
              /\ \A i \in DOMAIN t : k + i \in DOMAIN u /\ u[k + i] = t[i]
<1> DEFINE u == s \o t
           k == Len(s)
           n == Len(t)
<1>1. k \in Nat /\ n \in Nat /\ DOMAIN s = 1 .. k /\ DOMAIN t = 1 .. n
  BY LenProperties
<1>2. /\ u \in Seq(S) /\ Len(u) = k + n
      /\ \A i \in 1 .. k + n : u[i] = IF i <= k THEN s[i] ELSE t[i - k]
  BY ConcatProperties, Zenon
<1>3. DOMAIN u = 1 .. Len(u)
  BY <1>2, LenProperties
<1> HIDE DEF u, k, n
<1>4. DOMAIN u = 1 .. k + n
  BY <1>2, <1>3, Zenon
<1>5. ASSUME NEW i \in DOMAIN u
      PROVE  \/ i \in DOMAIN s /\ u[i] = s[i]
             \/ i \in Nat /\ i - k \in DOMAIN t /\ u[i] = t[i - k]
  <2>1. i \in 1 .. k + n
    BY <1>4, <1>5
  <2>2. CASE i <= k
    BY <1>1, <1>2, <2>1, <2>2
  <2>3. CASE ~ (i <= k)
    <3>1. i \in Nat /\ i - k \in DOMAIN t
      BY <1>1, <2>1, <2>3
    <3>2. u[i] = t[i - k]
      BY <1>2, <2>1, <2>3, Zenon
    <3>. QED
      BY <3>1, <3>2
  <2>. QED
    BY <2>2, <2>3
<1>6. ASSUME NEW i \in DOMAIN s
      PROVE  i \in DOMAIN u /\ u[i] = s[i]
  <2>1. i \in 1 .. k + n /\ i <= k
    BY <1>1
  <2>. QED
    BY <1>2, <1>4, <2>1, Zenon
<1>7. ASSUME NEW i \in DOMAIN t
      PROVE  k + i \in DOMAIN u /\ u[k + i] = t[i]
  <2>1. k + i \in 1 .. k + n /\ ~ (k + i <= k) /\ (k + i) - k = i
    BY <1>1
  <2>2. u[k + i] = t[(k + i) - k]
    BY <1>2, <2>1, Zenon
  <2>3. t[(k + i) - k] = t[i]
    BY <2>1, Zenon
  <2>4. k + i \in DOMAIN u
    BY <1>4, <2>1, Zenon
  <2>. QED
    BY <2>2, <2>3, <2>4, Zenon
<1>8. DOMAIN t \subseteq Nat \ {0}
  BY <1>1
<1>. QED
  BY <1>1, <1>5, <1>6, <1>7, <1>8, Zenon DEF u, k

LEMMA RedeployOrdered ==
    /\ Redeploy \in Seq(Plain) /\ Redeploy # <<>>
    /\ Order(Redeploy) /\ Lasts(Redeploy, "destroy")
<1> DEFINE s == GenTopo \o Destroy
           t == Deploy
<1>1. /\ GenTopo \in Seq(Plain \ Starting) /\ Destroy \in Seq(Plain \ Starting)
      /\ GenTopo \in Seq(Plain) /\ Destroy \in Seq(Plain)
  BY DEF GenTopo, Destroy, Plain, StepNames, Starting
<1>2. s \in Seq(Plain \ Starting) /\ s \in Seq(Plain)
  BY <1>1, ConcatProperties, Zenon
<1>3. Lasts(s, "destroy")
  <2>1. 2 \in DOMAIN Destroy /\ Destroy[2] = "destroy"
    BY DEF Destroy
  <2>2. \A i \in DOMAIN Destroy :
           Len(GenTopo) + i \in DOMAIN s /\ s[Len(GenTopo) + i] = Destroy[i]
    BY <1>1, JoinIs, Zenon
  <2>. QED
    BY <2>1, <2>2, Zenon DEF Lasts
<1>4. /\ t \in Seq(Plain) /\ DOMAIN t = 1 .. 5 
      /\ t[1] = "configRule" /\ t[2] = "rule" /\ t[3] = "kmeStage"
      /\ t[4] = "pool" /\ t[5] = "full"
  <2>1. DOMAIN t = 1 .. Len(t)
    BY PartsAre, LenProperties
  <2>. QED
    BY <2>1, PartsAre
<1>5. /\ \A j \in DOMAIN t : t[j] # "destroy"
      /\ \A i, j \in DOMAIN t : t[i] = "kmeStage" /\ t[j] \in Starting => i <= j
  BY <1>4 DEF Starting
<1>6. Redeploy = s \o t
  BY DEF Redeploy
<1> HIDE DEF s, t
<1> DEFINE k == Len(s)
<1>7. /\ k \in Nat /\ DOMAIN s = 1 .. k /\ DOMAIN t \subseteq Nat \ {0}
      /\ \A i \in DOMAIN Redeploy :
            \/ i \in DOMAIN s /\ Redeploy[i] = s[i]
            \/ i \in Nat /\ i - k \in DOMAIN t /\ Redeploy[i] = t[i - k]
      /\ \A i \in DOMAIN s : i \in DOMAIN Redeploy /\ Redeploy[i] = s[i]
  <2>1. s \in Seq(Plain) /\ t \in Seq(Plain)
    BY <1>2, <1>4
  <2> DEFINE u == s \o t
  <2>2. /\ k \in Nat /\ DOMAIN s = 1 .. k /\ DOMAIN t \subseteq Nat \ {0}
        /\ \A i \in DOMAIN u : \/ i \in DOMAIN s /\ u[i] = s[i]
                               \/ i \in Nat /\ i - k \in DOMAIN t /\ u[i] = t[i - k]
        /\ \A i \in DOMAIN s : i \in DOMAIN u /\ u[i] = s[i]
    BY <2>1, JoinIs, Zenon
  <2>3. Redeploy = u
    BY <1>6
  <2> HIDE DEF u
  <2>. QED
    BY <2>2, <2>3, Zenon
<1>8. Redeploy \in Seq(Plain)
  BY <1>2, <1>4, <1>6, ConcatProperties, Zenon
<1>9. Lasts(Redeploy, "destroy")
  BY <1>3, <1>7 DEF Lasts
<1>10. Redeploy # <<>>
  BY <1>9 DEF Lasts
<1> HIDE DEF k
<1>11. \A i \in DOMAIN s : s[i] \notin Starting
  BY <1>2
<1>12. ASSUME NEW i \in DOMAIN Redeploy, NEW j \in DOMAIN Redeploy, Redeploy[j] \in Starting
       PROVE  /\ Redeploy[i] = "destroy" => i < j
              /\ Redeploy[i] = "kmeStage" => i <= j
  <2>1. j \in Nat /\ j - k \in DOMAIN t /\ Redeploy[j] = t[j - k]
    BY <1>7, <1>11, <1>12, Zenon
  <2>2. CASE Redeploy[i] = "destroy"
    <3>1. i \in 1 .. k
      BY <1>5, <1>7, <2>2, Zenon
    <3>2. j - k \in Nat \ {0}
      BY <1>7, <2>1
    <3>. QED
      BY <1>7, <2>1, <2>2, <3>1, <3>2
  <2>3. CASE Redeploy[i] = "kmeStage"
    <3>1. "kmeStage" \in Starting
      BY DEF Starting
    <3>2. i \in Nat /\ i - k \in DOMAIN t /\ Redeploy[i] = t[i - k]
      BY <1>7, <1>11, <2>3, <3>1, Zenon
    <3>3. i - k <= j - k
      BY <1>5, <1>12, <2>1, <2>3, <3>2, Zenon
    <3>. QED
      BY <1>7, <2>1, <2>3, <3>2, <3>3
  <2>. QED
    BY <2>2, <2>3
<1>13. Order(Redeploy)
  BY <1>12, Zenon DEF Order
<1>. QED
  BY <1>8, <1>9, <1>10, <1>13

LEMMA RecipesAre ==
    ASSUME NEW x \in Targets
    PROVE  /\ Recipe[x] \in Seq(StepNames) /\ Recipe[x] # <<>>
           /\ CleanSeq(Recipe[x], x) /\ \A f : RenderSeq(Recipe[x], f)
           /\ x = "redeploy" => Order(Recipe[x]) /\ Lasts(Recipe[x], "destroy")
<1>1. ASSUME NEW t \in Seq(Plain)
      PROVE  /\ t \in Seq(StepNames) /\ \A f : RenderSeq(t, f)
             /\ x # "clean" => CleanSeq(t, x)
  BY <1>1 DEF Plain, StepNames, CleanSeq, RenderSeq
<1>2. CASE x = "clean"
  <2>1. Recipe[x] = <<"destroy", "rmGen", "rmTopo">>
    BY <1>2 DEF Recipe
  <2>2. /\ Recipe[x] \in Seq(StepNames) /\ Recipe[x] # <<>>
        /\ \A i \in DOMAIN Recipe[x] : Recipe[x][i] \in Removing
    BY <2>1 DEF StepNames, Removing
  <2>. QED
    BY <1>2, <2>2 DEF CleanSeq, RenderSeq, Removing
<1>3. CASE x = "redeploy"
  <2>1. Recipe[x] = Redeploy
    BY <1>3 DEF Recipe
  <2>. QED
    BY <1>1, <1>3, <2>1, RedeployOrdered
<1>4. CASE x \in {"gen-topo", "validate-topo", "deploy-kme", "deploy", "destroy", "install-quadra"}
  <2>1. Recipe[x] \in Seq(Plain) /\ Len(Recipe[x]) # 0
    <3>1. CASE x = "gen-topo"
      BY <3>1, PartsAre DEF Recipe
    <3>2. CASE x = "validate-topo"
      BY <3>2 DEF Recipe, Plain, StepNames
    <3>3. CASE x = "deploy-kme"
      BY <3>3 DEF Recipe, Plain, StepNames, DeployKme
    <3>4. CASE x = "deploy"
      <4>1. Recipe[x] = GenTopo \o Deploy
        BY <3>4 DEF Recipe
      <4>. QED
        BY <4>1, PartsAre, ConcatProperties
    <3>5. CASE x = "destroy"
      BY <3>5, PartsAre DEF Recipe
    <3>6. CASE x = "install-quadra"
      BY <3>6 DEF Recipe, Plain, StepNames
    <3>. QED
      BY <1>4, <3>1, <3>2, <3>3, <3>4, <3>5, <3>6
  <2>2. Recipe[x] # <<>>
    BY <2>1
  <2>. QED
    BY <1>1, <1>4, <2>1, <2>2
<1>. QED
  BY <1>2, <1>3, <1>4 DEF Targets, Recipe

\* What Begin leaves.
LEMMA BeginIs ==
    ASSUME Shapes, Begin
    PROVE  /\ Shapes' /\ inv'.target \in Targets /\ inv'.todo = Recipe[inv'.target]
           /\ ~Running /\ inv'.result = "running" /\ inv'.old = Up
           /\ UNCHANGED <<nodes, ext, agent, job, files, torn, work, broken>>
<1>1. PICK x \in Targets, o \in Overrides, v \in Vias :
        \E s \in Settings \cup {Nil} :
           inv' = [target |-> x, set |-> s, override |-> o, via |-> v,
                   todo |-> Recipe[x], result |-> "running", passing |-> FALSE,
                   bind |-> NoSwix, seen |-> NoSwix, old |-> Up]
  BY DEF Begin, Targets
<1>2. /\ inv'.target = x /\ inv'.todo = Recipe[x] /\ inv'.result = "running" /\ inv'.old = Up
      /\ inv'.set \in Settings \cup {Nil} /\ Fields \subseteq DOMAIN inv'
  BY <1>1 DEF Fields
<1>3. ~Running /\ UNCHANGED <<nodes, ext, agent, job, files, torn, work, broken>>
  BY DEF Begin, quadraVars, hostVars, pkiVars
<1>. QED
  BY <1>2, <1>3, RecipesAre DEF Shapes, Todo

-------------------------------------------------------------------------------
(* Each part of the invariant is kept.                                     *)

\* What is left of the files of the PKI, and who left it.
LEMMA PkiTyped ==
    ASSUME Shapes, [Next]_vars
    PROVE  work' \in Works /\ broken' \subseteq Settings \cup {Nil}
<1> USE DEF Shapes
<1>1. CASE UNCHANGED pkiVars
  BY <1>1 DEF pkiVars
<1>2. CASE Leave
  BY <1>2 DEF Leave, Works
<1>3. CASE EnsureCa
  <2>1. PICK w \in Spared :
          work' = IF "crt" \in w.ca THEN [w EXCEPT !.at = "leaf"]
                  ELSE [w EXCEPT !.at = "leaf", !.ca = {"key", "crt"}, !.chain = FALSE]
    BY <1>3 DEF EnsureCa
  <2>2. w \in Works
    BY DEF Spared, Works
  <2>. QED
    BY <1>3, <2>1, <2>2 DEF EnsureCa, Works
<1>4. CASE NewLeafKey
  BY <1>4 DEF NewLeafKey, Works
<1>5. CASE SignLeaf
  <2>1. \/ Leave
        \/ /\ work' = [work EXCEPT !.at = "mark", !.key = "own", !.crt = inv.set, !.chain = TRUE]
           /\ broken' = broken
    BY <1>5 DEF SignLeaf
  <2>. QED
    BY <1>2, <2>1 DEF Works
<1>6. CASE MarkLeaf
  BY <1>6 DEF MarkLeaf, Works
<1>7. CASE CopyLeaf
  BY <1>2, <1>7 DEF CopyLeaf
<1>8. CASE RemoveFiles
  <2>1. NoWork \in Works
    BY DEF NoWork, Works
  <2>. QED
    BY <1>1, <1>8, <2>1 DEF RemoveFiles
<1>9. CASE Die
  BY <1>2, <1>9 DEF Die, Works
<1>10. CASE ~(GenerateRadsecPki \/ RemoveFiles \/ Die)
  <2>1. UNCHANGED pkiVars
    BY <1>10 DEF Next, Begin, GenTopoStep, FileRule, RenderFile, ResolveBind, RenderTopology, ValidateTopo,
       DeployKmes, WaitKmePool, DeployAll, RunInstallExecs, DestroyLab, InstallQuadra, DropSwix,
       EditTemplate, RestartSwitch, vars, hostVars
  <2>. QED
    BY <1>1, <2>1
<1>. QED
  BY <1>3, <1>4, <1>5, <1>6, <1>7, <1>8, <1>9, <1>10 DEF GenerateRadsecPki

LEMMA ShapesStep ==
    ASSUME Shapes, RenderInv, [Next]_vars
    PROVE  Shapes'
<1>1. CASE Begin
  BY <1>1, BeginIs
<1>2. CASE ~Begin
  <2>1. TodoMoves /\ NodeMoves /\ FileMoves
    BY <1>2, StepMoves
  <2>2. Running => Todo \in Seq(StepNames) /\ Todo # <<>>
    BY DEF Shapes
  <2>3. inv'.todo \in Seq(StepNames) /\ (inv'.result = "running" => inv'.todo # <<>>)
    <3>1. CASE Stays
      BY <3>1 DEF Stays, Shapes, Running
    <3>2. CASE Ends
      BY <3>2 DEF Ends
    <3>3. CASE Running /\ Shrinks
      BY <2>2, <3>3, TailIs DEF Shrinks, Goes
    <3>4. CASE Running /\ Renders
      BY <2>2, <3>4, PrefixIs DEF Renders, Goes
    <3>5. CASE Running /\ Stages
      BY <2>2, <3>5, StageIs DEF Stages, Goes
    <3>. QED
      BY <2>1, <3>1, <3>2, <3>3, <3>4, <3>5 DEF TodoMoves
  <2>4. /\ Fields \subseteq DOMAIN inv' /\ inv'.target \in Targets \cup {"none"}
        /\ inv'.set \in Settings \cup {Nil}
    BY <2>1 DEF TodoMoves, Kept, Shapes
  <2>5. DOMAIN files' = Artifacts /\ DOMAIN nodes' = Nodes /\ DOMAIN ext' = Ceos /\ DOMAIN agent' = Ceos
    BY <2>1 DEF NodeMoves, FileMoves
  <2>. QED
    BY <2>3, <2>4, <2>5, PkiTyped DEF Shapes, Running, Todo
<1>. QED
  BY <1>1, <1>2

LEMMA CleanStep ==
    ASSUME Shapes, RenderInv, CleanInv, [Next]_vars
    PROVE  CleanInv'
<1>1. CASE Begin
  <2>1. inv'.target \in Targets /\ inv'.todo = Recipe[inv'.target]
    BY <1>1, BeginIs
  <2>2. CleanSeq(inv'.todo, inv'.target)
    BY <2>1, RecipesAre
  <2>. QED
    BY <2>2 DEF CleanInv, Todo
<1>2. CASE ~Begin
  <2>1. TodoMoves
    BY <1>2, StepMoves
  <2>2. Running => Todo \in Seq(StepNames) /\ Todo # <<>>
    BY DEF Shapes
  <2>3. CASE Stays
    BY <2>1, <2>3 DEF Stays, TodoMoves, Kept, CleanInv, Todo
  <2>4. CASE Ends
    BY <2>4 DEF Ends, CleanInv, CleanSeq, Todo
  <2>5. CASE Running /\ Shrinks
    <3>1. CleanSeq(Tail(Todo), inv.target)
      BY <2>2, <2>5, CleanTail DEF CleanInv
    <3>. QED
      BY <2>1, <2>5, <3>1 DEF Shrinks, Goes, TodoMoves, Kept, CleanInv, Todo
  <2>6. CASE Running /\ Renders
    <3>1. Head(Todo) \notin Removing
      BY <2>6 DEF Renders, Removing
    <3>2. RenderSteps \in Seq(StepNames) /\ \A i \in 1 .. Len(RenderSteps) : RenderSteps[i] \notin Removing
      BY RenderStepsAre
    <3>3. CleanSeq(RenderSteps \o Tail(Todo), inv.target)
      BY <2>2, <2>6, <3>1, <3>2, CleanExpand, Zenon DEF CleanInv
    <3>. QED
      BY <2>1, <2>6, <3>3 DEF Renders, Goes, TodoMoves, Kept, CleanInv, Todo
  <2>7. CASE Running /\ Stages
    <3> DEFINE s == <<"kmeUp">>
    <3>1. Head(Todo) \notin Removing
      BY <2>7 DEF Stages, Removing
    <3>2. s \in Seq(StepNames) /\ \A i \in 1 .. Len(s) : s[i] \notin Removing
      BY DEF StepNames, Removing
    <3> HIDE DEF s
    <3>3. CleanSeq(s \o Tail(Todo), inv.target)
      BY <2>2, <2>7, <3>1, <3>2, CleanExpand, Zenon DEF CleanInv
    <3>. QED
      BY <2>1, <2>7, <3>3 DEF Stages, Goes, TodoMoves, Kept, CleanInv, Todo, s
  <2>. QED
    BY <2>1, <2>3, <2>4, <2>5, <2>6, <2>7 DEF TodoMoves
<1>. QED
  BY <1>1, <1>2

\* Without a make clean no file is removed.
LEMMA FilesGrow ==
    ASSUME Shapes, CleanInv, FileMoves, inv.target # "clean"
    PROVE  /\ \A a \in Artifacts : files[a] # Nil => files'[a] # Nil
           /\ ~Removes
           /\ Shrinks => \A a \in Before : Head(Todo) = a => files'[a] # Nil
<1>1. ~Removes
  <2>1. Running => Todo \in Seq(StepNames) /\ Todo # <<>>
    BY DEF Shapes
  <2>2. Running => 1 \in DOMAIN Todo /\ Head(Todo) = Todo[1]
    BY <2>1, TailIs
  <2>. QED
    BY <2>2 DEF Removes, CleanInv, CleanSeq
<1>2. Before \subseteq Artifacts
  BY DEF Before, RuleTargets
<1>. QED
  BY <1>1, <1>2 DEF FileMoves, Writes

LEMMA RenderStep ==
    ASSUME Shapes, RenderInv, CleanInv, [Next]_vars
    PROVE  RenderInv'
<1>1. CASE Begin
  <2>1. inv'.target \in Targets /\ inv'.todo = Recipe[inv'.target]
    BY <1>1, BeginIs
  <2>2. RenderSeq(inv'.todo, files')
    BY <2>1, RecipesAre
  <2>. QED
    BY <2>2 DEF RenderInv, Todo
<1>2. CASE ~Begin /\ inv.target = "clean"
  <2>1. CleanInv' /\ inv'.target = "clean"
    BY <1>2, CleanStep, StepMoves DEF TodoMoves, Kept
  <2>. QED
    BY <2>1 DEF CleanInv, CleanSeq, RenderInv, RenderSeq, Removing
<1>3. CASE ~Begin /\ inv.target # "clean"
  <2>1. TodoMoves /\ FileMoves
    BY <1>3, StepMoves
  <2>2. Running => Todo \in Seq(StepNames) /\ Todo # <<>>
    BY DEF Shapes
  <2>3. /\ \A a \in Artifacts : files[a] # Nil => files'[a] # Nil
        /\ ~Removes /\ Before \subseteq Artifacts
        /\ Shrinks => \A a \in Before : Head(Todo) = a => files'[a] # Nil
    BY <1>3, <2>1, FilesGrow DEF Before, RuleTargets
  <2>4. CASE Stays
    <3>1. RenderSeq(Todo, files')
      BY <2>3 DEF RenderInv, RenderSeq
    <3>. QED
      BY <2>4, <3>1 DEF Stays, RenderInv, Todo
  <2>5. CASE Ends
    BY <2>5 DEF Ends, RenderInv, RenderSeq, Todo
  <2>6. CASE Running /\ Shrinks
    <3>1. \A a \in Before : files[a] # Nil \/ Head(Todo) = a => files'[a] # Nil
      BY <2>3, <2>6
    <3>2. RenderSeq(Todo, files)
      BY DEF RenderInv
    <3>3. RenderSeq(Tail(Todo), files')
      BY <2>2, <2>6, <3>1, <3>2, RenderTail
    <3>. QED
      BY <2>6, <3>3 DEF Shrinks, Goes, RenderInv, Todo
  <2>7. CASE Running /\ Renders
    <3>1. RenderSeq(Todo, files')
      BY <2>3 DEF RenderInv, RenderSeq
    <3>2. RenderSeq(RenderSteps \o Tail(Todo), files')
      BY <2>2, <2>7, <3>1, RenderPrefix
    <3>. QED
      BY <2>7, <3>2 DEF Renders, Goes, RenderInv, Todo
  <2>8. CASE Running /\ Stages
    <3>1. RenderSeq(Todo, files')
      BY <2>3 DEF RenderInv, RenderSeq
    <3> DEFINE u == <<"kmeUp">> \o Tail(Todo)
    <3>2. /\ DOMAIN u = DOMAIN Todo /\ Len(u) = Len(Todo) /\ DOMAIN Todo = 1 .. Len(Todo)
          /\ Len(Todo) \in Nat \ {0}
          /\ u[1] = "kmeUp" /\ \A i \in 2 .. Len(Todo) : u[i] = Todo[i]
      BY <2>2, <2>8, StageIs
    <3>3. Todo[1] = "kmeStage" /\ "kmeStage" \notin Before
      BY <2>2, <2>8, TailIs DEF Stages, Before, RuleTargets, Artifacts, Uses
    <3> HIDE DEF u
    <3>4. ASSUME NEW i \in DOMAIN u
          PROVE  /\ u[i] = "topo" => \A a \in Before :
                        files'[a] # Nil \/ \E j \in 1 .. i - 1 : u[j] = a
                 /\ u[i] = "bind" => i # Len(u)
      <4>1. CASE i = 1
        BY <3>2, <4>1
      <4>2. CASE i # 1
        <5>1. i \in DOMAIN Todo /\ u[i] = Todo[i] /\ i \in 2 .. Len(Todo)
          BY <3>2, <4>2
        <5>2. \A j \in 1 .. i - 1 : j \in DOMAIN Todo /\ (j = 1 \/ u[j] = Todo[j])
          BY <3>2, <5>1
        <5>3. \A a \in Before, j \in 1 .. i - 1 : Todo[j] = a => u[j] = a
          BY <3>3, <5>2
        <5>. QED
          BY <3>1, <3>2, <5>1, <5>3 DEF RenderSeq
      <4>. QED
        BY <4>1, <4>2
    <3>5. RenderSeq(u, files')
      BY <3>4 DEF RenderSeq
    <3>. QED
      BY <2>8, <3>5 DEF Stages, Goes, RenderInv, Todo, u
  <2>. QED
    BY <2>1, <2>4, <2>5, <2>6, <2>7, <2>8 DEF TodoMoves
<1>. QED
  BY <1>1, <1>2, <1>3

LEMMA MarkStep ==
    ASSUME Shapes, RenderInv, MarkVouchesForAll, [Next]_vars
    PROVE  MarkVouchesForAll'
<1> USE DEF MarkVouchesForAll
<1>1. CASE Begin
  BY <1>1, BeginIs
<1>2. CASE ~Begin
  <2>1. FileMoves
    BY <1>2, StepMoves
  <2>2. CASE files' = files /\ torn' = torn
    BY <2>2
  <2>3. ASSUME NEW a \in Artifacts, Writes(a)
        PROVE  MarkVouchesForAll'
    <3>1. CASE a = "topo"
      <4>1. Todo \in Seq(StepNames) /\ Todo # <<>>
        BY <2>3 DEF Writes, Shapes
      <4>2. 1 \in DOMAIN Todo /\ Todo[1] = "topo"
        BY <2>3, <3>1, <4>1, TailIs DEF Writes
      <4>3. \A b \in Before : files[b] # Nil
        BY <4>2 DEF RenderInv, RenderSeq
      <4>4. \A b \in Before : files'[b] # Nil
        BY <2>3, <3>1, <4>3 DEF Writes, Before, RuleTargets
      <4>. QED
        BY <2>3, <3>1, <4>4 DEF Writes, Before
    <3>2. CASE a # "topo"
      <4>1. "topo" \in Artifacts
        BY DEF Artifacts, Uses
      <4>. QED
        BY <2>3, <3>2, <4>1 DEF Writes, RuleTargets
    <3>. QED
      BY <3>1, <3>2
  <2>4. CASE Removes
    BY <2>4 DEF Removes
  <2>. QED
    BY <2>1, <2>2, <2>3, <2>4 DEF FileMoves
<1>. QED
  BY <1>1, <1>2

LEMMA RedeployStep ==
    ASSUME Shapes, RenderInv, RedeployInv, [Next]_vars
    PROVE  RedeployInv'
<1>1. CASE Begin
  <2>1. /\ inv'.target \in Targets /\ inv'.todo = Recipe[inv'.target]
        /\ inv'.result = "running" /\ inv'.old = Up /\ Up' = Up
    BY <1>1, BeginIs DEF Up
  <2>2. inv'.target = "redeploy" => Order(inv'.todo) /\ Lasts(inv'.todo, "destroy")
    BY <2>1, RecipesAre
  <2>. QED
    BY <2>1, <2>2 DEF RedeployInv, RedeployRecovers, Running, Todo, Emptied
<1>2. CASE ~Begin
  <2>1. TodoMoves /\ NodeMoves
    BY <1>2, StepMoves
  <2>2. Running => Todo \in Seq(StepNames) /\ Todo # <<>> /\ 1 \in DOMAIN Todo /\ Head(Todo) = Todo[1]
    BY TailIs DEF Shapes
  <2>3. inv'.target = inv.target
    BY <2>1 DEF TodoMoves, Kept
  <2>4. ASSUME Running, inv.target = "redeploy", Head(Todo) \in Starting
        PROVE  ~Lasts(Todo, "destroy") /\ inv.old = {}
    <3>1. \A i \in DOMAIN Todo : i \in Nat /\ i >= 1
      BY <2>2, <2>4, TailIs
    <3>2. Order(Todo) /\ Emptied(Todo, Up, inv.old)
      BY <2>4 DEF RedeployInv
    <3>3. ~Lasts(Todo, "destroy")
      BY <2>2, <2>4, <3>1, <3>2 DEF Order, Lasts
    <3>. QED
      BY <3>2, <3>3 DEF Emptied
  <2>5. CASE Running /\ Ends
    <3>1. inv.target = "redeploy" => ~Refused
      <4>1. SUFFICES ASSUME Running, inv.target = "redeploy", Head(Todo) \in {"kmeStage", "full"}
                     PROVE  inv.old = {} /\ (Head(Todo) = "kmeStage" => Up = {})
        BY <2>5 DEF Refused
      <4>2. ~Lasts(Todo, "destroy") /\ inv.old = {}
        BY <2>4, <4>1 DEF Starting
      <4>3. Head(Todo) = "kmeStage" => Lasts(Todo, "kmeStage")
        BY <2>2, <4>1 DEF Lasts
      <4>4. Emptied(Todo, Up, inv.old)
        BY <4>1 DEF RedeployInv
      <4>. QED
        BY <4>2, <4>3, <4>4 DEF Emptied
    <3>. QED
      BY <2>3, <2>5, <3>1 DEF Ends, RedeployInv, RedeployRecovers, Running
  <2>6. CASE Stays
    <3>1. RedeployRecovers'
      BY <2>3, <2>6 DEF Stays, RedeployInv, RedeployRecovers
    <3>2. CASE nodes' = nodes /\ inv'.old = inv.old
      <4>1. Up' = Up
        BY <3>2 DEF Up
      <4>. QED
        BY <2>3, <2>6, <3>1, <3>2, <4>1 DEF Stays, RedeployInv, Running, Todo
    <3>3. CASE Grows
      <4>1. inv.target = "redeploy" => ~Lasts(Todo, "kmeStage")
        <5>1. SUFFICES ASSUME inv.target = "redeploy"
                       PROVE  ~Lasts(Todo, "kmeStage")
          OBVIOUS
        <5>2. \A i \in DOMAIN Todo : i \in Nat /\ i >= 1
          BY <2>2, <3>3, TailIs DEF Grows
        <5>3. Order(Todo)
          BY <3>3, <5>1 DEF Grows, RedeployInv
        <5>4. \A i \in DOMAIN Todo : Todo[i] = "kmeStage" => i = 1
          BY <2>2, <3>3, <5>2, <5>3 DEF Grows, Order, Starting
        <5>. QED
          BY <2>2, <3>3, <5>4 DEF Grows, Lasts
      <4>. QED
        BY <2>3, <2>6, <3>1, <3>3, <4>1 DEF Stays, Grows, RedeployInv, Running, Todo, Emptied
    <3>4. CASE Loses
      <4>1. Lasts(Todo, "destroy")
        BY <2>2, <3>4 DEF Loses, Lasts
      <4>. QED
        BY <2>3, <2>6, <3>1, <3>4, <4>1 DEF Stays, Loses, RedeployInv, Running, Todo, Emptied
    <3>. QED
      BY <2>1, <2>6, <3>2, <3>3, <3>4 DEF NodeMoves
  <2>7. ASSUME Running, NEW t, Goes(t), nodes' = nodes,
               inv.target = "redeploy" => Order(t) /\ Emptied(t, Up, inv.old)
        PROVE  RedeployInv'
    <3>1. Up' = Up
      BY <2>7 DEF Up
    <3>. QED
      BY <2>3, <2>7, <3>1 DEF Goes, RedeployInv, RedeployRecovers, Running, Todo
  <2>8. ASSUME Running, NEW t, Goes(t), t # Todo
        PROVE  nodes' = nodes
    BY <2>1, <2>8 DEF NodeMoves, Grows, Loses, Stays, Goes
  <2>9. CASE Running /\ Shrinks
    <3>1. Tail(Todo) # Todo
      BY <2>2, <2>9, TailIs
    <3>2. nodes' = nodes
      BY <2>8, <2>9, <3>1 DEF Shrinks
    <3>3. ASSUME inv.target = "redeploy"
          PROVE  Order(Tail(Todo)) /\ Emptied(Tail(Todo), Up, inv.old)
      <4>1. Order(Todo) /\ Emptied(Todo, Up, inv.old)
        BY <2>9, <3>3 DEF RedeployInv
      <4>2. Order(Tail(Todo))
        BY <2>2, <2>9, <4>1, OrderTail
      <4>3. /\ Lasts(Tail(Todo), "kmeStage") => Lasts(Todo, "kmeStage")
            /\ Lasts(Todo, "destroy") /\ Head(Todo) # "destroy" => Lasts(Tail(Todo), "destroy")
        BY <2>2, <2>9, LastsTail
      <4>4. Head(Todo) = "destroy" => Up = {} /\ inv.old = {}
        BY <2>1, <2>9 DEF NodeMoves, RedeployInv
      <4>. QED
        BY <4>1, <4>2, <4>3, <4>4 DEF Emptied
    <3>. QED
      BY <2>7, <2>9, <3>2, <3>3 DEF Shrinks
  <2>10. CASE Running /\ Renders
    <3>1. Head(Todo) \notin Removing \cup Starting
      BY <2>10 DEF Renders, Removing, Starting
    <3>2. RenderSteps \o Tail(Todo) # Todo
      <4>1. /\ DOMAIN Todo = 1 .. Len(Todo) /\ Len(Todo) \in Nat
            /\ DOMAIN (RenderSteps \o Tail(Todo)) = 1 .. Len(Todo) + 7
        BY <2>2, <2>10, PrefixIs
      <4>2. Len(Todo) + 7 \in 1 .. Len(Todo) + 7 /\ Len(Todo) + 7 \notin 1 .. Len(Todo)
        BY <4>1
      <4>. QED
        BY <4>1, <4>2
    <3>3. nodes' = nodes
      BY <2>8, <2>10, <3>2 DEF Renders
    <3>4. ASSUME inv.target = "redeploy"
          PROVE  Order(RenderSteps \o Tail(Todo)) /\ Emptied(RenderSteps \o Tail(Todo), Up, inv.old)
      <4>1. Order(Todo) /\ Emptied(Todo, Up, inv.old)
        BY <2>10, <3>4 DEF RedeployInv
      <4>2. /\ Order(RenderSteps \o Tail(Todo))
            /\ \A x \in {"destroy", "kmeStage"} :
                  Lasts(RenderSteps \o Tail(Todo), x) <=> Lasts(Todo, x)
        BY <2>2, <2>10, <3>1, <4>1, OrderPrefix
      <4>. QED
        BY <4>1, <4>2 DEF Emptied
    <3>. QED
      BY <2>7, <2>10, <3>3, <3>4 DEF Renders
  <2>11. CASE Running /\ Stages
    <3> DEFINE u == <<"kmeUp">> \o Tail(Todo)
    <3>1. u[1] = "kmeUp" /\ Todo[1] = "kmeStage"
      BY <2>2, <2>11, StageIs DEF Stages
    <3>2. u # Todo
      <4> HIDE DEF u
      <4>. QED
        BY <3>1
    <3>3. nodes' = nodes
      BY <2>8, <2>11, <3>2 DEF Stages
    <3>4. ASSUME inv.target = "redeploy"
          PROVE  Order(u) /\ Emptied(u, Up, inv.old)
      <4>1. Order(Todo) /\ Emptied(Todo, Up, inv.old)
        BY <2>11, <3>4 DEF RedeployInv
      <4>2. Order(u) /\ ~Lasts(Todo, "destroy") /\ ~Lasts(u, "destroy") /\ ~Lasts(u, "kmeStage")
        BY <2>2, <2>11, <4>1, OrderStage DEF Stages
      <4>. QED
        BY <4>1, <4>2 DEF Emptied
    <3>. QED
      BY <2>7, <2>11, <3>3, <3>4 DEF Stages
  <2>. QED
    BY <2>1, <2>5, <2>6, <2>9, <2>10, <2>11 DEF TodoMoves
<1>. QED
  BY <1>1, <1>2

-------------------------------------------------------------------------------
(* The installation.                                                       *)

\* Without an installation there is nothing to say about it.
LEMMA NoJobInv ==
    ASSUME DOMAIN job' = {"at", "todo", "swix", "fault", "restarted"}, job'.todo \in Seq(Ceos),
           job'.at = "none"
    PROVE  JobInv'
  BY DEF JobInv, JobShape, Installing, Steps, InstallLeavesAgents, InstallFailsForAReason

\* Nothing that the installation depends on changes.
LEMMA JobStays ==
    ASSUME JobInv, UNCHANGED <<nodes, ext, agent, job, inv>>
    PROVE  JobInv'
<1>1. Todo' = Todo /\ (Running <=> Running')
  BY DEF Todo, Running
<1>2. JobShape'
  BY <1>1 DEF JobInv, JobShape
<1>3. /\ (Installing <=> Installing') /\ Target' = Target
      /\ \A n \in Ceos : Installed(n) <=> Installed(n)'
  BY DEF Installing, Target, Installed
<1>4. InstallLeavesAgents' /\ InstallFailsForAReason'
  BY DEF JobInv, InstallLeavesAgents, InstallFailsForAReason, Mounted
<1>. QED
  BY <1>2, <1>3, <1>4 DEF JobInv

\* A switch is done, and the next one is looked at.
LEMMA NextStep ==
    ASSUME Shapes, JobInv, Installing, UNCHANGED <<nodes, ext, inv, faults>>,
           job'.todo = Tail(job.todo), job'.swix = job.swix,
           job'.at = IF Len(job.todo) = 1 THEN "ok" ELSE "show",
           DOMAIN job' = {"at", "todo", "swix", "fault", "restarted"},
           job.swix \in ext[Target],
           \A n \in Ceos : agent[n] # NoSwix => agent'[n] # NoSwix,
           agent'[Target] # NoSwix,
           \A n \in Ceos \ {Target} : n \in job.restarted => n \in job'.restarted
    PROVE  JobInv'
<1>1. /\ job.todo \in Seq(Ceos) /\ job.todo # <<>> /\ job.swix # NoSwix
      /\ \A n \in Ceos : n \in ToSet(job.todo) \/ Installed(n)
  BY DEF JobInv, JobShape
<1>2. /\ Tail(job.todo) \in Seq(Ceos) /\ Target = job.todo[1]
      /\ Len(job.todo) \in Nat \ {0} /\ Len(Tail(job.todo)) = Len(job.todo) - 1
      /\ DOMAIN job.todo = 1 .. Len(job.todo) /\ DOMAIN Tail(job.todo) = 1 .. Len(job.todo) - 1
      /\ \A i \in 1 .. Len(job.todo) - 1 : Tail(job.todo)[i] = job.todo[i + 1]
  BY <1>1, TailIs DEF Target
<1>3. \A n \in ToSet(job.todo) : n = Target \/ n \in ToSet(Tail(job.todo))
  <2>1. SUFFICES ASSUME NEW i \in DOMAIN job.todo, i # 1
                 PROVE  job.todo[i] \in ToSet(Tail(job.todo))
    BY <1>2 DEF ToSet
  <2>2. i - 1 \in DOMAIN Tail(job.todo) /\ i - 1 \in 1 .. Len(job.todo) - 1 /\ (i - 1) + 1 = i
    BY <1>2, <2>1
  <2>3. Tail(job.todo)[i - 1] = job.todo[(i - 1) + 1]
    BY <1>2, <2>2, Zenon
  <2>. QED
    BY <2>2, <2>3 DEF ToSet
<1>4. \A n \in Ceos : n \in ToSet(Tail(job.todo)) \/ Installed(n)'
  BY <1>1, <1>3 DEF Installed
<1>5. JobShape'
  <2>1. job.at # "none"
    BY DEF Installing, Steps
  <2>2. Running /\ Head(Todo) = "install"
    BY <2>1 DEF JobInv, JobShape
  <2>3. Running' /\ Head(Todo)' = "install"
    BY <2>2 DEF Running, Todo
  <2>4. job'.at \in Steps \cup {"none", "ok", "failed"}
    BY DEF Steps
  <2>. QED
    BY <1>2, <2>3, <2>4 DEF JobShape
<1>6. CASE Len(job.todo) = 1
  <2>1. job'.at = "ok" /\ ToSet(Tail(job.todo)) = {}
    BY <1>2, <1>6 DEF ToSet
  <2>2. \A n \in ToSet(Quadra) : Installed(n)'
    BY <1>4, <2>1 DEF Ceos
  <2>3. InstallLeavesAgents' /\ InstallFailsForAReason'
    BY <2>1, <2>2 DEF InstallLeavesAgents, InstallFailsForAReason, Installed
  <2>. QED
    BY <1>5, <2>1, <2>3 DEF JobInv, Installing, Steps
<1>7. CASE Len(job.todo) # 1
  <2>1. job'.at = "show"
    BY <1>7
  <2>2. Tail(job.todo) # <<>>
    <3>1. Len(Tail(job.todo)) # 0
      BY <1>2, <1>7
    <3>2. Len(<<>>) = 0
      OBVIOUS
    <3>. QED
      BY <3>1, <3>2
  <2>3. InstallLeavesAgents' /\ InstallFailsForAReason'
    BY <2>1 DEF InstallLeavesAgents, InstallFailsForAReason
  <2>. QED
    BY <1>1, <1>4, <1>5, <2>1, <2>2, <2>3 DEF JobInv, Installing, Steps
<1>. QED
  BY <1>6, <1>7

\* The installation of a switch goes on.
LEMMA GotoStep ==
    ASSUME Shapes, JobInv, Installing, UNCHANGED <<nodes, agent, inv>>,
           NEW at \in Steps \cup {"failed"}, Goto(at),
           \A n \in Ceos : ext[n] \subseteq ext'[n],
           at \notin {"show", "failed"} => nodes[Target] # Nil,
           at = "copy" => job.swix \notin ext'[Target],
           at \in {"agent", "start"} => job.swix \in ext'[Target],
           at = "failed" => \E n \in Ceos : nodes[n] = Nil \/ (Mounted(n) /\ job.swix \notin ext'[n])
    PROVE  JobInv'
<1>1. /\ DOMAIN job' = DOMAIN job /\ job'.at = at /\ job'.todo = job.todo /\ job'.swix = job.swix
      /\ job'.restarted = job.restarted
  BY DEF Goto, JobInv, JobShape
<1>2. JobShape'
  <2>1. job.at # "none"
    BY DEF Installing, Steps
  <2>2. Running /\ Head(Todo) = "install"
    BY <2>1 DEF JobInv, JobShape
  <2>3. Running' /\ Head(Todo)' = "install"
    BY <2>2 DEF Running, Todo
  <2>. QED
    BY <1>1, <2>3 DEF JobInv, JobShape
<1>3. Target' = Target
  BY <1>1 DEF Target
<1>4. \A n \in Ceos : n \in ToSet(job'.todo) \/ Installed(n)'
  BY <1>1 DEF JobInv, Installed
<1>5. InstallLeavesAgents'
  BY <1>1 DEF InstallLeavesAgents, Steps
<1>6. InstallFailsForAReason'
  BY <1>1 DEF InstallFailsForAReason, Ceos, Mounted
<1>7. Installing' => /\ job'.todo # <<>> /\ job'.swix # NoSwix
                     /\ \A n \in Ceos : n \in ToSet(job'.todo) \/ Installed(n)'
  BY <1>1, <1>4 DEF JobInv
<1>8. Installing' /\ job'.at # "show" => nodes'[Target'] # Nil
  BY <1>1, <1>3 DEF Installing, Steps
<1>9. /\ job'.at = "copy" => job'.swix \notin ext'[Target']
      /\ job'.at \in {"agent", "start"} => job'.swix \in ext'[Target']
  BY <1>1, <1>3
<1>. QED
  BY <1>2, <1>5, <1>6, <1>7, <1>8, <1>9 DEF JobInv

LEMMA JobStep ==
    ASSUME Shapes, JobInv, [Next]_vars
    PROVE  JobInv'
<1>1. Installing => /\ Target \in Ceos /\ job.todo \in Seq(Ceos) /\ job.todo # <<>>
  <2>1. Installing => job.todo \in Seq(Ceos) /\ job.todo # <<>>
    BY DEF JobInv, JobShape
  <2>2. Installing => Head(job.todo) \in Ceos
    BY <2>1, HeadTailProperties
  <2>. QED
    BY <2>1, <2>2 DEF Target
<1>2. ASSUME ~ (Running /\ Head(Todo) = "install"), job' = job
      PROVE  JobInv'
  <2>1. job.at = "none"
    BY <1>2 DEF JobInv, JobShape
  <2>. QED
    BY <1>2, <2>1, NoJobInv DEF JobInv, JobShape
<1>3. ASSUME NEW step, Do(step), step # "install", job' = job
      PROVE  JobInv'
  BY <1>2, <1>3 DEF Do, Todo
<1>4. CASE Begin
  BY <1>2, <1>4 DEF Begin, quadraVars
<1>5. CASE GenTopoStep
  BY <1>3, <1>5 DEF GenTopoStep, quadraVars
<1>6. CASE FileRule
  BY <1>3, <1>6 DEF FileRule, quadraVars
<1>7. CASE RenderFile
  BY <1>3, <1>7 DEF RenderFile, quadraVars, Artifacts, Uses
<1>24. CASE GenerateRadsecPki
  BY <1>3, <1>24 DEF GenerateRadsecPki, EnsureCa, NewLeafKey, SignLeaf, MarkLeaf, CopyLeaf, Pki, quadraVars
<1>8. CASE ResolveBind
  BY <1>3, <1>8 DEF ResolveBind, quadraVars
<1>9. CASE RenderTopology
  BY <1>3, <1>9 DEF RenderTopology, quadraVars
<1>10. CASE ValidateTopo
  BY <1>3, <1>10 DEF ValidateTopo, quadraVars
<1>11. CASE DeployKmes
  BY <1>3, <1>11 DEF DeployKmes
<1>12. CASE WaitKmePool
  BY <1>3, <1>12 DEF WaitKmePool, quadraVars
<1>13. CASE DeployAll
  BY <1>3, <1>13 DEF DeployAll
<1>14. CASE RunInstallExecs
  BY <1>3, <1>14 DEF RunInstallExecs
<1>15. CASE DestroyLab
  BY <1>3, <1>15 DEF DestroyLab
<1>16. CASE RemoveFiles
  BY <1>3, <1>16 DEF RemoveFiles, quadraVars
<1>17. CASE InstallQuadra
  <2>1. Running /\ Head(Todo) = "install" /\ nodes' = nodes
    BY <1>17 DEF InstallQuadra, Do, Todo
  <2>2. CASE StartInstall(Resolve(Seen(TRUE))) /\ UNCHANGED <<ext, agent, inv>>
    <3> DEFINE file == Resolve(Seen(TRUE))
    <3> HIDE DEF file
    <3>1. /\ DOMAIN job' = {"at", "todo", "swix", "fault", "restarted"}
          /\ job'.at = (IF file = NoSwix THEN "failed" ELSE "show")
          /\ job'.todo = Quadra /\ job'.swix = file
      BY <2>2 DEF StartInstall, NoJob, file
    <3>2. Quadra \in Seq(Ceos) /\ Quadra # <<>>
      BY QuadraAssumption DEF QuadraAssumption, Ceos
    <3>3. Running' /\ Head(Todo)' = "install"
      BY <2>1, <2>2 DEF Running, Todo
    <3>4. JobShape'
      BY <3>1, <3>2, <3>3 DEF JobShape, Steps
    <3>5. InstallLeavesAgents' /\ InstallFailsForAReason'
      BY <3>1 DEF InstallLeavesAgents, InstallFailsForAReason
    <3>. QED
      BY <3>1, <3>2, <3>4, <3>5 DEF JobInv, Installing, Steps, Ceos
  <2>3. CASE ShowExtensions /\ inv' = inv
    <3>1. Installing /\ UNCHANGED <<ext, agent, inv>>
      BY <2>3 DEF ShowExtensions, Installing, Steps
    <3>2. CASE nodes[Target] = Nil
      <4>1. Goto("failed")
        BY <2>3, <3>2 DEF ShowExtensions
      <4>. QED
        BY <1>1, <2>1, <3>1, <3>2, <4>1, GotoStep DEF Steps
    <3>3. CASE nodes[Target] # Nil /\ job.swix \in ext[Target]
      <4>1. Goto("agent")
        BY <2>3, <3>3 DEF ShowExtensions
      <4>. QED
        BY <2>1, <3>1, <3>3, <4>1, GotoStep DEF Steps
    <3>4. CASE nodes[Target] # Nil /\ job.swix \notin ext[Target]
      <4>1. Goto("copy")
        BY <2>3, <3>4 DEF ShowExtensions
      <4>. QED
        BY <2>1, <3>1, <3>4, <4>1, GotoStep DEF Steps
    <3>. QED
      BY <3>2, <3>3, <3>4
  <2>4. CASE CopyToFlash /\ inv' = inv
    <3>1. Installing /\ UNCHANGED <<ext, agent, inv>> /\ job.at = "copy"
      BY <2>4 DEF CopyToFlash, Installing, Steps
    <3>2. nodes[Target] # Nil /\ job.swix \notin ext[Target]
      BY <3>1 DEF JobInv
    <3>3. CASE Mounted(Target)
      <4>1. Goto("failed")
        BY <2>4, <3>3 DEF CopyToFlash
      <4>. QED
        BY <1>1, <2>1, <3>1, <3>2, <3>3, <4>1, GotoStep DEF Steps
    <3>4. CASE ~Mounted(Target)
      <4>1. Goto("install")
        BY <2>4, <3>4 DEF CopyToFlash
      <4>. QED
        BY <2>1, <3>1, <3>2, <4>1, GotoStep DEF Steps
    <3>. QED
      BY <3>3, <3>4
  <2>5. CASE InstallExtension /\ inv' = inv
    <3>1. /\ Installing /\ job.at = "install" /\ UNCHANGED <<agent, inv>> /\ Goto("agent")
          /\ ext' = [ext EXCEPT ![Target] = @ \cup {job.swix}]
      BY <2>5 DEF InstallExtension, Installing, Steps
    <3>2. nodes[Target] # Nil
      BY <3>1 DEF JobInv
    <3>3. (\A n \in Ceos : ext[n] \subseteq ext'[n]) /\ job.swix \in ext'[Target]
      BY <1>1, <3>1 DEF Shapes
    <3>. QED
      BY <2>1, <3>1, <3>2, <3>3, GotoStep DEF Steps
  <2>6. CASE ShowAgent /\ inv' = inv
    <3>1. Installing /\ UNCHANGED <<ext, agent, inv, faults>> /\ job.at = "agent"
      BY <2>6 DEF ShowAgent, Installing, Steps
    <3>2. nodes[Target] # Nil /\ job.swix \in ext[Target]
      BY <3>1 DEF JobInv
    <3>3. CASE agent[Target] # NoSwix
      <4>1. job' = [job EXCEPT !.todo = Tail(@), !.at = IF Len(job.todo) = 1 THEN "ok" ELSE "show"]
        BY <2>6, <3>3 DEF ShowAgent, NextSwitch
      <4>2. /\ DOMAIN job' = {"at", "todo", "swix", "fault", "restarted"}
            /\ job'.todo = Tail(job.todo) /\ job'.swix = job.swix /\ job'.restarted = job.restarted
            /\ job'.at = IF Len(job.todo) = 1 THEN "ok" ELSE "show"
        BY <4>1 DEF JobInv, JobShape
      <4>. QED
        BY <2>1, <3>1, <3>2, <3>3, <4>2, NextStep
    <3>4. CASE agent[Target] = NoSwix
      <4>1. Goto("start")
        BY <2>6, <3>4 DEF ShowAgent
      <4>. QED
        BY <2>1, <3>1, <3>2, <4>1, GotoStep DEF Steps
    <3>. QED
      BY <3>3, <3>4
  <2>7. CASE StartAgent /\ inv' = inv
    <3>1. /\ Installing /\ UNCHANGED <<ext, inv, faults>> /\ job.at = "start"
          /\ agent' = [agent EXCEPT ![Target] = job.swix]
      BY <2>7 DEF StartAgent, Installing, Steps
    <3>2. job.swix \in ext[Target] /\ job.swix # NoSwix
      BY <3>1 DEF JobInv
    <3>3. (\A n \in Ceos : agent[n] # NoSwix => agent'[n] # NoSwix) /\ agent'[Target] # NoSwix
      BY <1>1, <3>1, <3>2 DEF Shapes
    <3>4. job' = [job EXCEPT !.todo = Tail(@), !.at = IF Len(job.todo) = 1 THEN "ok" ELSE "show",
                             !.restarted = @ \ {Target}]
      BY <2>7 DEF StartAgent
    <3>5. /\ DOMAIN job' = {"at", "todo", "swix", "fault", "restarted"}
          /\ job'.todo = Tail(job.todo) /\ job'.swix = job.swix
          /\ job'.restarted = job.restarted \ {Target}
          /\ job'.at = IF Len(job.todo) = 1 THEN "ok" ELSE "show"
      BY <3>4 DEF JobInv, JobShape
    <3>. QED
      BY <2>1, <3>1, <3>2, <3>3, <3>5, NextStep
  <2>8. CASE CallFails /\ inv' = inv
    <3>1. Installing /\ job' = [job EXCEPT !.at = "failed", !.fault = TRUE]
      BY <2>8 DEF CallFails
    <3>2. /\ DOMAIN job' = DOMAIN job /\ job'.at = "failed" /\ job'.fault = TRUE
          /\ job'.todo = job.todo
      BY <3>1 DEF JobInv, JobShape
    <3>3. Running' /\ Head(Todo)' = "install"
      BY <2>1, <2>8 DEF Running, Todo
    <3>4. JobShape'
      BY <3>2, <3>3 DEF JobInv, JobShape
    <3>5. InstallLeavesAgents' /\ InstallFailsForAReason'
      BY <3>2 DEF InstallLeavesAgents, InstallFailsForAReason
    <3>. QED
      BY <3>2, <3>4, <3>5 DEF JobInv, Installing, Steps
  <2>9. CASE job' = NoJob
    <3>1. job'.todo \in Seq(Ceos)
      BY <2>9 DEF NoJob
    <3>. QED
      BY <2>9, <3>1, NoJobInv DEF NoJob
  <2>. QED
    BY <1>17, <2>2, <2>3, <2>4, <2>5, <2>6, <2>7, <2>8, <2>9 DEF InstallQuadra, InstallStep
<1>18. CASE Die
  BY <1>2, <1>18 DEF Die, quadraVars, Todo
<1>19. CASE DropSwix
  BY <1>19, JobStays DEF DropSwix, quadraVars
<1>20. CASE EditTemplate
  BY <1>20, JobStays DEF EditTemplate, quadraVars
<1>21. ASSUME NEW n \in Ceos, Do("install"), Restart(n), nodes' = nodes, inv' = inv
       PROVE  JobInv'
  <2>1. /\ ext' = ext /\ agent' = [agent EXCEPT ![n] = NoSwix]
        /\ job' = IF job = NoJob THEN job ELSE [job EXCEPT !.restarted = @ \cup {n}]
    BY <1>21 DEF Restart
  <2>2. CASE job.at = "none"
    <3>1. DOMAIN job' = DOMAIN job /\ job'.at = "none" /\ job'.todo = job.todo
      BY <2>1, <2>2 DEF JobInv, JobShape
    <3>. QED
      BY <3>1, NoJobInv DEF JobInv, JobShape
  <2>3. CASE job.at # "none"
    <3>1. job # NoJob
      BY <2>3 DEF NoJob
    <3>2. /\ DOMAIN job' = DOMAIN job /\ job'.at = job.at /\ job'.todo = job.todo
          /\ job'.swix = job.swix /\ job'.fault = job.fault
          /\ job'.restarted = job.restarted \cup {n}
      BY <2>1, <3>1 DEF JobInv, JobShape
    <3>3. \A m \in Ceos : Installed(m) => Installed(m)'
      BY <2>1, <3>2 DEF Installed, Shapes
    <3>4. JobShape'
      <4>1. Running' /\ Head(Todo)' = "install"
        BY <1>21 DEF Do, Running, Todo
      <4>. QED
        BY <3>2, <4>1 DEF JobInv, JobShape
    <3>5. InstallLeavesAgents'
      <4>1. InstallLeavesAgents <=> (job.at = "ok" => \A m \in Ceos : Installed(m))
        BY DEF InstallLeavesAgents, Installed, Ceos
      <4>2. InstallLeavesAgents' <=> (job'.at = "ok" => \A m \in Ceos : Installed(m)')
        BY DEF InstallLeavesAgents, Installed, Ceos
      <4>. QED
        BY <3>2, <3>3, <4>1, <4>2 DEF JobInv
    <3>6. InstallFailsForAReason'
      BY <1>21, <2>1, <3>2 DEF JobInv, InstallFailsForAReason, Mounted
    <3>7. (Installing <=> Installing') /\ Target' = Target
      BY <3>2 DEF Installing, Target
    <3>. QED
      BY <1>21, <2>1, <3>2, <3>3, <3>4, <3>5, <3>6, <3>7 DEF JobInv
  <2>. QED
    BY <2>2, <2>3
<1>22. CASE RestartSwitch
  BY <1>21, <1>22 DEF RestartSwitch
<1>23. CASE UNCHANGED vars
  BY <1>23, JobStays DEF vars, quadraVars
<1>. QED
  BY <1>4, <1>5, <1>6, <1>7, <1>8, <1>9, <1>10, <1>11, <1>12, <1>13, <1>14, <1>15, <1>16,
     <1>17, <1>18, <1>19, <1>20, <1>22, <1>23, <1>24 DEF Next

-------------------------------------------------------------------------------
(* The theorems.                                                           *)

\* The invariant that carries the theorems below holds of every run of the
\* Makefile and install_quadra.py.
THEOREM LabInvariant == Spec => []IInv
<1>1. Init => IInv
  <2>1. SUFFICES ASSUME Init PROVE IInv
    OBVIOUS
  <2>2. /\ Fields \subseteq DOMAIN inv /\ Todo = <<>> /\ inv.result = "ok"
        /\ inv.target = "none" /\ inv.set = Nil
    BY <2>1 DEF Init, Fields, Todo
  <2>3. DOMAIN files = Artifacts /\ \A a \in Artifacts : files[a] = Nil
    BY <2>1 DEF Init
  <2>4. Shapes
    BY <2>1, <2>2, <2>3 DEF Init, Shapes, Running, Works, NoWork
  <2>5. CleanInv /\ RenderInv
    BY <2>2 DEF CleanInv, CleanSeq, RenderInv, RenderSeq
  <2>6. MarkVouchesForAll
    BY <2>3 DEF MarkVouchesForAll, Artifacts, Uses
  <2>7. RedeployInv
    BY <2>2 DEF RedeployInv, RedeployRecovers, Running
  <2>8. JobInv
    <3>1. job = NoJob
      BY <2>1 DEF Init
    <3>2. job.todo \in Seq(Ceos)
      BY <3>1 DEF NoJob
    <3>. QED
      BY <3>1, <3>2 DEF JobInv, JobShape, NoJob, Installing, Steps, InstallLeavesAgents,
                        InstallFailsForAReason
  <2>. QED
    BY <2>4, <2>5, <2>6, <2>7, <2>8 DEF IInv
<1>2. IInv /\ [Next]_vars => IInv'
  BY ShapesStep, CleanStep, RenderStep, MarkStep, RedeployStep, JobStep DEF IInv
<1>. QED
  BY <1>1, <1>2, PTL DEF Spec

\* The topology that make takes for the mark of a complete rendering vouches
\* for every file of render_lab(), wherever renderings died, except after a
\* make clean that died.
THEOREM MarkIsTrue == Spec => []MarkVouchesForAll
<1>1. IInv => MarkVouchesForAll
  BY DEF IInv
<1>. QED
  BY <1>1, LabInvariant, PTL

\* make redeploy is never rejected by containerlab, whatever runs or half
\* runs before it.
THEOREM RedeployNeverRejected == Spec => []RedeployRecovers
<1>1. IInv => RedeployRecovers
  BY DEF IInv, RedeployInv
<1>. QED
  BY <1>1, LabInvariant, PTL

\* install_quadra() reports success only with the file it resolved installed
\* and an agent running on every switch of its list.
THEOREM SuccessIsReal == Spec => []InstallLeavesAgents
<1>1. IInv => InstallLeavesAgents
  BY DEF IInv, JobInv
<1>. QED
  BY <1>1, LabInvariant, PTL

\* install_quadra() fails only for a failing call, a missing file or node, or
\* a mount that repetition cannot mend: it can be repeated.
THEOREM InstallRepeatable == Spec => []InstallFailsForAReason
<1>1. IInv => InstallFailsForAReason
  BY DEF IInv, JobInv
<1>. QED
  BY <1>1, LabInvariant, PTL

==============================================================================
