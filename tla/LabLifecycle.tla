----------------------------- MODULE LabLifecycle ----------------------------
(***************************************************************************)
(* The lab's life on one host: the Makefile targets that render, validate, *)
(* deploy, destroy and clean, with lab/render_topo.py, lab/validate_topo.py*)
(* and the validators of lab/topology_contract.py.  A target is a sequence *)
(* of steps (Recipe); a file rule or a rendering puts its own steps in     *)
(* front.  A step may fail or be interrupted and leave what it did.        *)
(* Meanwhile a user drops newer QuaDRA files into download/quadra; between *)
(* targets the user edits templates.  One make, and a serial one (no -j),  *)
(* runs at a time.                                                         *)
(*                                                                         *)
(* A rendered file is the settings it was rendered from and whether its    *)
(* template was sound.  A node is what it was created from: the topology,  *)
(* its configuration or certificates, and the QuaDRA file.  containerlab   *)
(* is external: it starts the nodes that do not run, rejects a staged      *)
(* deploy while KMEs run (docs/setup.md:61), and destroys by lab name.     *)
(*                                                                         *)
(* Of the RadSec PKI, which reuses what earlier runs left in its work      *)
(* directory, one leaf with a SAN marker stands for all.  The KME PKI      *)
(* issues every leaf anew in every run and is one step, as the rendering   *)
(* of several files of a kind is; either may stop in the middle.  PkiStore *)
(* has both PKIs file by file.                                             *)
(***************************************************************************)
EXTENDS QuadraInstall, FiniteSets

CONSTANTS Kmes,       \* nodes of the staged deploy; the switches are Quadra
          Settings,   \* [image, v4, v6]: CEOS_IMAGE and the two subnets
          Overrides,  \* values of QUADRA_SWIX: "unset", "own", "missing"
          Vias,       \* where it is set: "shell" (or command line), "dotenv"
          Flaws,      \* [of, how]: what an edit may do to a template
          MaxSwix,    \* bound: files dropped into download/quadra
          MaxRuns,    \* bound: invocations of make
          MaxDeaths,  \* bound: invocations that fail or are interrupted
          MaxEdits    \* bound: template edits

ASSUME LabAssumption ==
    /\ Settings # {} /\ \A s \in Settings : DOMAIN s = {"image", "v4", "v6"}
    /\ Overrides \subseteq {"unset", "own", "missing"}
    /\ Vias \subseteq {"shell", "dotenv"}
    /\ Flaws \subseteq
          [of : {"ceos", "radius", "topo"}, how : {"unresolved", "offcontract"}]
              \cup [of : {"annot"}, how : {"missing"}]
    /\ Nil \notin [from : Settings \cup {Nil}, sound : BOOLEAN] /\ Nil \notin Settings
    /\ {MaxSwix, MaxRuns, MaxDeaths, MaxEdits} \subseteq Nat

VARIABLES files,     \* rendered files
          outdated,  \* those older than a template the file rule lists
          swix,      \* the QuaDRA files the topology binds and installs
          torn,      \* make clean has begun to remove files and not finished
          work,      \* lab/.gen/pki/.work and where the generator is in it
          broken,    \* history: who left the leaf there unfinished (Leave)
          template,  \* the template that is not as the contract wants, if any
          newest,    \* the newest file in download/quadra
          inv,       \* the running (last) invocation of make
          runs, deaths, edits

pkiVars == <<work, broken>>
hostVars == <<files, outdated, swix, torn, pkiVars>>
bounds == <<runs, deaths, edits>>
vars == <<nodes, quadraVars, hostVars, template, newest, inv, bounds>>

Ceos == ToSet(Quadra)
Nodes == Kmes \cup Ceos
Up == {n \in Nodes : nodes[n] # Nil}

\* What each file is rendered from (build_substitutions() and its callers).
Uses == [ceos |-> {"v4", "v6"}, radius |-> {"v4", "v6"}, pki |-> {"v4", "v6"},
         kmepki |-> {"v4"}, kmeconf |-> {"v4"}, topo |-> {"image", "v4", "v6"},
         annot |-> {}]
Artifacts == DOMAIN Uses
RuleTargets == Artifacts \ {"annot"}    \* the targets of the file rule

\* The file or certificates of lab/.gen a node is created with.
OwnFile(n) == IF n \in Kmes THEN "kmepki" ELSE "ceos"

Fits(a, from, s) == \A u \in Uses[a] : from[u] = s[u]
Current(a) == files[a] # Nil /\ Fits(a, files[a].from, inv.set)

Sound == [of |-> "none", how |-> "sound"]

\* The CA's two files, and the leaf: its key file, absent, that of the
\* certificate or another; the settings of the certificate and whether the
\* present CA signed it; the settings of the SAN marker.  "cut": rm -rf has
\* begun to remove them.
NoWork == [at |-> "ca", cut |-> FALSE, ca |-> {}, key |-> "none", crt |-> Nil,
           chain |-> FALSE, marker |-> Nil]

-------------------------------------------------------------------------------
(* The targets of the Makefile as sequences of steps.  validate-topo,      *)
(* deploy-kme and destroy depend on the topology by the file rule.         *)

GenTopo == <<"gen", "rule", "validate">>
DeployKme == <<"rule", "kmeStage">>
Deploy == <<"configRule">> \o DeployKme \o <<"pool", "full">>
Destroy == <<"rule", "destroy">>

\* Bugs: redeploy forgets to destroy; it destroys first.
RedeployInPlace == GenTopo \o Deploy
RedeployDestroysFirst == Destroy \o GenTopo \o Deploy

\* make makes gen-topo once, although redeploy and deploy both name it.
Redeploy == GenTopo \o Destroy \o Deploy

Recipe ==
    [x \in {"gen-topo", "validate-topo", "deploy-kme", "deploy", "destroy",
            "redeploy", "clean", "install-quadra"} |->
        CASE x = "gen-topo"       -> GenTopo
          [] x = "validate-topo"  -> <<"rule", "validate">>
          [] x = "deploy-kme"     -> DeployKme
          [] x = "deploy"         -> GenTopo \o Deploy
          [] x = "destroy"        -> Destroy
          [] x = "redeploy"       -> Redeploy
          [] x = "clean"          -> <<"destroy", "rmGen", "rmTopo">>
          [] x = "install-quadra" -> <<"install">>]

\* Bug: the topology is rendered first.
TopologyFirst == <<"bind", "topo", "ceos", "radius", "pki", "kmepki", "kmeconf", "annot">>

\* render_lab(): the order in which it writes.  The topology comes after all
\* that it refers to; its QuaDRA bind is resolved before its install command.
RenderSteps == <<"ceos", "radius", "pki", "kmepki", "kmeconf", "bind", "topo", "annot">>

\* Bug: QUADRA_SWIX reaches only the recipes that pass it on.
SeenInRecipe(passing) == IF passing THEN inv.override ELSE "unset"

\* QUADRA_SWIX as a python process sees it.  The recipes of gen-topo and
\* install-quadra pass it on; others have it only when it came from the
\* shell, since make does not export what an included .env assigns.
Seen(passing) == IF inv.via = "shell" \/ passing THEN inv.override ELSE "unset"

\* resolve_quadra_swix(): an override that names no file is no file; without
\* one the newest in download/quadra.
Resolve(override) ==
    CASE override = "own"     -> MaxSwix + 1
      [] override = "missing" -> NoSwix
      [] OTHER                -> newest

Running == inv.result = "running"
Do(step) == Running /\ Head(inv.todo) = step
End(result) ==
    inv' = [inv EXCEPT !.todo = <<>>, !.result = result, !.override = "unset",
                       !.via = "shell", !.passing = FALSE, !.bind = NoSwix,
                       !.seen = NoSwix,
                       !.old = IF result = "ok" THEN @ ELSE {}]
Done == IF Len(inv.todo) = 1 THEN End("ok") ELSE inv' = [inv EXCEPT !.todo = Tail(@)]
Expand(steps, passing) ==
    inv' = [inv EXCEPT !.todo = steps \o Tail(@), !.passing = passing]

Init ==
    /\ nodes = [n \in Nodes |-> Nil]
    /\ ext = [n \in Ceos |-> {}] /\ agent = [n \in Ceos |-> NoSwix]
    /\ job = NoJob /\ faults = 0
    /\ files = [a \in Artifacts |-> Nil] /\ outdated = {}
    /\ swix = [bind |-> NoSwix, exec |-> NoSwix] /\ torn = FALSE
    /\ work = NoWork /\ broken = {}
    /\ template = Sound /\ newest = NoSwix
    /\ inv = [target |-> "none", set |-> Nil,
              override |-> "unset", via |-> "shell", todo |-> <<>>, result |-> "ok",
              passing |-> FALSE, bind |-> NoSwix, seen |-> NoSwix, old |-> {}]
    /\ runs = 0 /\ deaths = 0 /\ edits = 0

Begin ==
    /\ ~Running /\ runs < MaxRuns
    /\ \E x \in DOMAIN Recipe, o \in Overrides, v \in Vias :
       \E s \in IF x \in {"clean", "install-quadra"} THEN {Nil} ELSE Settings :
          inv' = [target |-> x, set |-> s, override |-> o, via |-> v,
                  todo |-> Recipe[x], result |-> "running", passing |-> FALSE,
                  bind |-> NoSwix, seen |-> NoSwix, old |-> Up]
    /\ runs' = runs + 1
    /\ UNCHANGED <<nodes, quadraVars, hostVars, template, newest, deaths, edits>>

-------------------------------------------------------------------------------
(* Rendering.                                                              *)

\* gen-topo renders whatever is there; the file rule what is missing or older
\* than a template it lists, and it fails when one of those is missing.
GenTopoStep ==
    /\ Do("gen")
    /\ inv' = [inv EXCEPT !.todo = RenderSteps \o Tail(@), !.passing = TRUE, !.seen = newest]
    /\ UNCHANGED <<nodes, quadraVars, hostVars, template, newest, bounds>>

Stale(a) == files[a] = Nil \/ a \in outdated

FileRule ==
    /\ \E step \in {"rule", "configRule"} :
          /\ Do(step)
          /\ IF template.how = "missing" THEN End("failed")
             ELSE IF \E a \in IF step = "rule" THEN {"topo"} ELSE RuleTargets \ {"topo"} : Stale(a)
             THEN Expand(RenderSteps, FALSE)
             ELSE Done
    /\ UNCHANGED <<nodes, quadraVars, hostVars, template, newest, bounds>>

\* A rendering of several files that stops has rewritten some of them.
Partly(a) ==
    IF a \notin {"ceos", "radius", "kmepki"} \/ files[a] = Nil THEN {files}
    ELSE {files, [files EXCEPT ![a] = [from |-> inv.set, sound |-> FALSE]]}

\* substitute_placeholders() raises on an unresolved placeholder, the
\* renderers on a missing template: main() returns 1.
Renderable(a) == template.of # a \/ template.how = "offcontract"

Render(a) ==
    IF Renderable(a)
    THEN /\ files' = [files EXCEPT ![a] = [from |-> inv.set, sound |-> template.of # a]]
         /\ outdated' = outdated \ {a}
         /\ Done
    ELSE End("failed") /\ files' \in Partly(a) /\ UNCHANGED outdated

\* render_config_templates(), generate_kme_pki(), render_kme_lab_conf(), and
\* after the topology its annotations.
RenderFile ==
    \E a \in Artifacts \ {"topo", "pki"} :
        /\ Do(a) /\ Render(a)
        /\ UNCHANGED <<nodes, quadraVars, swix, torn, pkiVars, template, newest, bounds>>

-------------------------------------------------------------------------------
(* generate_radsec_pki(), while "pki" is the step of the invocation.       *)

Pki(at) == Do("pki") /\ work.at = at

\* The files rm -rf spared when it was interrupted; it follows no order.
Spared ==
    IF ~work.cut THEN {work}
    ELSE [at : {"ca"}, cut : {FALSE}, ca : SUBSET work.ca, key : {work.key, "none"},
          crt : {work.crt, Nil}, chain : {work.chain}, marker : {work.marker, Nil}]

\* A new CA unless there is a CA certificate.  What the old one signed stays.
EnsureCa ==
    /\ Pki("ca")
    /\ \E w \in Spared :
          work' = IF "crt" \in w.ca THEN [w EXCEPT !.at = "leaf"]
                  ELSE [w EXCEPT !.at = "leaf", !.ca = {"key", "crt"}, !.chain = FALSE]
    /\ UNCHANGED <<nodes, quadraVars, files, outdated, swix, torn, broken, template, newest, inv, bounds>>

\* Bug: any SAN marker will do.
MarkedAtAll == work.crt # Nil /\ work.marker # Nil

LeafCurrent == work.crt # Nil /\ work.marker # Nil /\ Fits("pki", work.marker, inv.set)

\* openssl req -newkey overwrites the key of a leaf that is not current.
NewLeafKey ==
    /\ Pki("leaf")
    /\ work' = IF LeafCurrent THEN [work EXCEPT !.at = "copy"]
               ELSE [work EXCEPT !.at = "sign", !.key = "other"]
    /\ UNCHANGED <<nodes, quadraVars, files, outdated, swix, torn, broken, template, newest, inv, bounds>>

\* The generator ends here.  Between the new key and the marker that leaves
\* a leaf that is not what its marker says.
Leave ==
    /\ work' = [work EXCEPT !.at = "ca"]
    /\ broken' = IF work.at \in {"sign", "mark"} THEN broken \cup {inv.set} ELSE broken

\* openssl x509 -req needs the key of the CA.
SignLeaf ==
    /\ Pki("sign")
    /\ IF "key" \in work.ca
       THEN /\ work' = [work EXCEPT !.at = "mark", !.key = "own", !.crt = inv.set, !.chain = TRUE]
            /\ UNCHANGED <<broken, inv>>
       ELSE End("failed") /\ Leave
    /\ UNCHANGED <<nodes, quadraVars, files, outdated, swix, torn, template, newest, bounds>>

MarkLeaf ==
    /\ Pki("mark")
    /\ work' = [work EXCEPT !.at = "copy", !.marker = inv.set]
    /\ UNCHANGED <<nodes, quadraVars, files, outdated, swix, torn, broken, template, newest, inv, bounds>>

\* The certificate is copied to lab/.gen/pki, then the key, if there is one.
CopyLeaf ==
    /\ Pki("copy")
    /\ files' = [files EXCEPT !.pki = [from |-> work.crt, sound |-> work.key = "own" /\ work.chain]]
    /\ IF work.key = "none" THEN End("failed") /\ UNCHANGED outdated
       ELSE Done /\ outdated' = outdated \ {"pki"}
    /\ Leave
    /\ UNCHANGED <<nodes, quadraVars, swix, torn, template, newest, bounds>>

GenerateRadsecPki == EnsureCa \/ NewLeafKey \/ SignLeaf \/ MarkLeaf \/ CopyLeaf

-------------------------------------------------------------------------------
(* The topology.                                                           *)

\* inject_quadra_clab_nodes() adds the bind and the install command, or
\* neither, and resolves the file for each of them.
Inject(bind, exec) ==
    IF NoSwix \in {bind, exec} THEN [bind |-> NoSwix, exec |-> NoSwix]
    ELSE [bind |-> bind, exec |-> exec]

\* quadra_swix_clab_bind(); quadra_swix_install_exec() is part of the next.
ResolveBind ==
    /\ Do("bind")
    /\ inv' = [inv EXCEPT !.todo = Tail(@), !.bind = Resolve(Seen(inv.passing))]
    /\ UNCHANGED <<nodes, quadraVars, hostVars, template, newest, bounds>>

RenderTopology ==
    /\ Do("topo") /\ Render("topo")
    /\ IF Renderable("topo")
       THEN swix' = Inject(inv.bind, Resolve(Seen(inv.passing))) /\ torn' = FALSE
       ELSE UNCHANGED <<swix, torn>>
    /\ UNCHANGED <<nodes, quadraVars, pkiVars, template, newest, bounds>>

-------------------------------------------------------------------------------
(* Validation.  Certificates are looked for and not into; kme-lab.conf and *)
(* the annotations are not looked at.                                      *)

ValidateCeosConfigs == Current("ceos") /\ files.ceos.sound
ValidateRadiusConfigs == Current("radius") /\ files.radius.sound
ValidateSyslogConfigs == files.pki # Nil
ValidateHostPaths == \A a \in {"ceos", "radius", "pki", "kmepki"} : files[a] # Nil

\* The topology must have the bind and the command for the file that is
\* resolved now; others it may have are not looked for.
ValidateQuadra ==
    LET v == Resolve(Seen(FALSE)) IN v # NoSwix => swix = [bind |-> v, exec |-> v]

ValidateTopology ==
    /\ Current("topo") /\ files.topo.sound
    /\ ValidateQuadra /\ ValidateCeosConfigs /\ ValidateRadiusConfigs
    /\ ValidateSyslogConfigs /\ ValidateHostPaths

ValidateTopo ==
    /\ Do("validate")
    /\ IF ValidateTopology THEN Done ELSE End("invalid")
    /\ UNCHANGED <<nodes, quadraVars, hostVars, template, newest, bounds>>

-------------------------------------------------------------------------------
(* Deployment.                                                             *)

\* What containerlab mounts into a node must be there.
Mountable(n) == files.topo # Nil /\ files[OwnFile(n)] # Nil

\* containerlab creates one node of ns after the other.
Create(ns) ==
    \E n \in ns \ Up :
        /\ nodes' = [nodes EXCEPT ![n] =
              [topo |-> files.topo.from, own |-> files[OwnFile(n)].from,
               bind |-> IF n \in Kmes THEN NoSwix ELSE swix.bind,
               exec |-> IF n \in Kmes THEN NoSwix ELSE swix.exec]]
        /\ UNCHANGED <<ext, agent, inv>>

\* deploy-kme, the staged deploy of the KMEs.
DeployKmes ==
    /\ \/ /\ Do("kmeStage")
          /\ IF Kmes \cap Up # {} THEN End("rejected")
             ELSE IF \E n \in Kmes : ~Mountable(n) THEN End("failed")
             ELSE inv' = [inv EXCEPT !.todo = <<"kmeUp">> \o Tail(@)]
          /\ UNCHANGED <<nodes, ext, agent>>
       \/ Do("kmeUp") /\ Create(Kmes)
       \/ Do("kmeUp") /\ Kmes \subseteq Up /\ Done /\ UNCHANGED <<nodes, ext, agent>>
    /\ UNCHANGED <<job, faults, hostVars, template, newest, bounds>>

\* wait-kme-pool, which QkdKeyFlow has in detail; here it passes or dies.
WaitKmePool ==
    /\ Do("pool") /\ Done
    /\ UNCHANGED <<nodes, quadraVars, hostVars, template, newest, bounds>>

\* The full deploy.  Switches that an interrupted destroy left running stay
\* as they are, unless containerlab rejects them.
DeployAll ==
    /\ \/ /\ Do("full") /\ Ceos \cap inv.old # {}
          /\ End("rejected") /\ UNCHANGED <<nodes, ext, agent>>
       \/ /\ Do("full") /\ \E n \in Nodes \ Up : ~Mountable(n)
          /\ End("failed") /\ UNCHANGED <<nodes, ext, agent>>
       \/ Do("full") /\ (\A n \in Nodes \ Up : Mountable(n)) /\ Create(Nodes)
    /\ UNCHANGED <<job, faults, hostVars, template, newest, bounds>>

\* When all run, containerlab runs the install command of each new switch,
\* which installs the extension and starts the agent; nobody looks whether it
\* took, and it cannot with a file that is not the mounted one.
RunInstallExecs ==
    /\ Do("full") /\ Up = Nodes
    /\ \E took \in SUBSET {n \in Ceos \ inv.old :
                             nodes[n].bind # NoSwix /\ nodes[n].bind = nodes[n].exec} :
          /\ ext' = [n \in Ceos |-> IF n \in took THEN {nodes[n].bind} ELSE ext[n]]
          /\ agent' = [n \in Ceos |-> IF n \in took THEN nodes[n].bind ELSE agent[n]]
    /\ Done
    /\ UNCHANGED <<nodes, job, faults, hostVars, template, newest, bounds>>

\* Bug: without --cleanup the flash of a switch survives it.
DestroyKeepsFlash ==
    /\ Do("destroy")
    /\ \/ \E n \in Up :
             /\ nodes' = [nodes EXCEPT ![n] = Nil]
             /\ agent' = [m \in Ceos |-> IF m = n THEN NoSwix ELSE agent[m]]
             /\ inv' = [inv EXCEPT !.old = @ \ {n}]
       \/ Up = {} /\ Done /\ UNCHANGED <<nodes, agent>>
    /\ UNCHANGED <<ext, job, faults, hostVars, template, newest, bounds>>

\* containerlab destroy --cleanup, and docker rm -f of clean: node by node.
DestroyLab ==
    /\ Do("destroy")
    /\ \/ \E n \in Up :
             /\ nodes' = [nodes EXCEPT ![n] = Nil]
             /\ ext' = [m \in Ceos |-> IF m = n THEN {} ELSE ext[m]]
             /\ agent' = [m \in Ceos |-> IF m = n THEN NoSwix ELSE agent[m]]
             /\ inv' = [inv EXCEPT !.old = @ \ {n}]
       \/ Up = {} /\ Done /\ UNCHANGED <<nodes, ext, agent>>
    /\ UNCHANGED <<job, faults, hostVars, template, newest, bounds>>

\* clean: rm -rf lab/.gen, file by file, and then of lab/.gen.*.
RemoveFiles ==
    /\ \/ /\ Do("rmGen")
          /\ \E a \in RuleTargets \ {"topo"} :
                /\ files[a] # Nil /\ files' = [files EXCEPT ![a] = Nil]
                /\ outdated' = outdated \ {a}
          /\ torn' = TRUE /\ UNCHANGED <<inv, pkiVars>>
       \/ /\ Do("rmGen") /\ work # NoWork
          /\ work' = NoWork /\ broken' = {} /\ UNCHANGED <<files, outdated, torn, inv>>
       \/ /\ Do("rmGen") /\ work = NoWork /\ \A a \in RuleTargets \ {"topo"} : files[a] = Nil
          /\ Done /\ UNCHANGED <<files, outdated, torn, pkiVars>>
       \/ /\ Do("rmTopo") /\ Done
          /\ files' = [files EXCEPT !.topo = Nil, !.annot = Nil]
          /\ outdated' = {} /\ torn' = FALSE /\ UNCHANGED pkiVars
    /\ UNCHANGED <<nodes, quadraVars, swix, template, newest, bounds>>

-------------------------------------------------------------------------------
(* install-quadra, and the world outside make.                             *)

InstallQuadra ==
    \/ /\ Do("install") /\ job.at = "none"
       /\ StartInstall(Resolve(Seen(TRUE)))
       /\ UNCHANGED <<nodes, ext, agent, faults, hostVars, template, newest, inv, bounds>>
    \/ /\ Do("install") /\ (InstallStep \/ CallFails)
       /\ UNCHANGED <<nodes, hostVars, template, newest, inv, bounds>>
    \/ /\ Do("install") /\ job.at \in {"ok", "failed"}
       /\ End(job.at) /\ job' = NoJob
       /\ UNCHANGED <<nodes, ext, agent, faults, hostVars, template, newest, bounds>>

\* Ctrl-C, or a step that fails: openssl, docker, the pool wait, containerlab.
\* It may be in the middle of a rendering, or of the removal of the PKI.
Die ==
    /\ Running /\ Head(inv.todo) # "install" /\ deaths < MaxDeaths
    /\ End("died") /\ deaths' = deaths + 1
    /\ files' \in IF Head(inv.todo) \in Artifacts THEN Partly(Head(inv.todo)) ELSE {files}
    /\ \/ Leave
       \/ /\ Do("rmGen") /\ work # NoWork
          /\ work' = [work EXCEPT !.cut = TRUE] /\ broken' = broken \cup {Nil}
    /\ UNCHANGED <<nodes, quadraVars, outdated, swix, torn, template, newest, runs, edits>>

\* A newer file appears in download/quadra at any time.  Only the lookups
\* tell when: just before one of them stands for ever since the one before.
DropSwix ==
    /\ \E step \in {"gen", "bind", "topo", "validate", "install"} : Do(step)
    /\ newest < MaxSwix /\ newest' = newest + 1
    /\ UNCHANGED <<nodes, quadraVars, hostVars, template, inv, bounds>>

\* A template is damaged or repaired.  One of those that make up the switch
\* configurations, control-plane-acl.cfg.in, is not listed by the file rule
\* and makes nothing outdated.
EditTemplate ==
    /\ ~Running /\ runs < MaxRuns /\ edits < MaxEdits
    /\ template' \in (IF template = Sound THEN Flaws ELSE {Sound})
    /\ \/ outdated' = {a \in RuleTargets : files[a] # Nil} /\ template'.of # "annot"
       \/ outdated' = outdated /\ {"ceos", "annot"} \cap {template.of, template'.of} # {}
    /\ edits' = edits + 1
    /\ UNCHANGED <<nodes, quadraVars, files, swix, torn, pkiVars, newest, inv, runs, deaths>>

\* Likewise: only install-quadra looks at the agents.
RestartSwitch ==
    \E n \in Ceos :
        /\ Do("install") /\ Restart(n)
        /\ UNCHANGED <<nodes, hostVars, template, newest, inv, bounds>>

Next ==
    \/ Begin \/ GenTopoStep \/ FileRule \/ RenderFile \/ GenerateRadsecPki
    \/ ResolveBind \/ RenderTopology \/ ValidateTopo
    \/ DeployKmes \/ WaitKmePool \/ DeployAll \/ RunInstallExecs \/ DestroyLab \/ RemoveFiles
    \/ InstallQuadra \/ Die \/ DropSwix \/ EditTemplate \/ RestartSwitch

Spec == Init /\ [][Next]_vars

-------------------------------------------------------------------------------
(* Properties.                                                             *)

Contents == [from : Settings, sound : BOOLEAN]
Works == [at : {"ca", "leaf", "sign", "mark", "copy"}, cut : BOOLEAN, ca : SUBSET {"key", "crt"},
          key : {"none", "own", "other"}, crt : Settings \cup {Nil}, chain : BOOLEAN,
          marker : Settings \cup {Nil}]

\* The type invariant of files, nodes and the state of the QuaDRA extension.
TypeOK ==
    /\ files \in [Artifacts -> Contents \cup {Nil}] /\ outdated \subseteq RuleTargets
    /\ work \in Works /\ broken \subseteq Settings \cup {Nil}
    /\ swix \in [bind : 0 .. MaxSwix + 1, exec : 0 .. MaxSwix + 1]
    /\ \A n \in Up : nodes[n] \in [topo : Settings, own : Settings,
                                   bind : 0 .. MaxSwix + 1, exec : 0 .. MaxSwix + 1]
    /\ ext \in [Ceos -> SUBSET (1 .. MaxSwix + 1)] /\ agent \in [Ceos -> 0 .. MaxSwix + 1]
    /\ \A n \in Ceos \ Up : ext[n] = {} /\ agent[n] = NoSwix
    /\ template \in Flaws \cup {Sound}
    /\ inv.result \in {"running", "ok", "failed", "invalid", "rejected", "died"}

\* A make for other addresses died while it issued the RadSec certificates,
\* or a clean while it removed them, and no clean has removed them since:
\* then the SAN markers of lab/gen_pki.py cannot be trusted (the run
\* PkiStale has what they claim).
Mistrusted == \E s \in broken : s = Nil \/ ~Fits("pki", s, inv.set)

ArtifactAsAsked(a) ==
    \/ a = "pki" /\ Mistrusted /\ files[a] # Nil
    \/ Current(a) /\ files[a].sound

\* After a deploy or redeploy that succeeds every file and every node belongs
\* to the settings of that invocation, also the certificates and files that
\* no validation compares, and the switches mount the QuaDRA file they
\* install: whatever earlier invocations left half done, and however the
\* QuaDRA file changed between its lookups.  The exceptions are the RadSec
\* certificates when their markers are mistrusted and, for deploy, switches
\* that a broken destroy left running.
DeployedAsAsked ==
    inv.result = "ok" /\ inv.target \in {"deploy", "redeploy"} =>
        /\ \A a \in Artifacts : ArtifactAsAsked(a)
        /\ \A n \in IF inv.target = "deploy" THEN Nodes \ inv.old ELSE Nodes :
              /\ nodes[n] # Nil
              /\ Fits("topo", nodes[n].topo, inv.set)
              /\ Fits(OwnFile(n), nodes[n].own, inv.set)
              /\ nodes[n].bind = nodes[n].exec

\* make takes the topology for the mark that all rendered files exist.  It
\* does, whichever renderings died, unless make clean died while it removed
\* them (rm -rf takes lab/.gen first).
MarkVouchesForAll ==
    files.topo # Nil /\ ~torn => \A a \in RuleTargets : files[a] # Nil

\* No invocation refuses what it has just rendered itself from sound
\* templates, as long as no QuaDRA file was dropped since it began.
GenTopoAccepted ==
    [][ Running /\ inv'.result = "invalid" /\ "gen" \in ToSet(Recipe[inv.target])
        => newest # inv.seen \/ template # Sound ]_vars

\* redeploy gets out of every state in which containerlab rejects a deploy:
\* KMEs of a failed pool wait, half a lab of an interrupted destroy.
RedeployRecovers == inv.target = "redeploy" => inv.result # "rejected"

\* redeploy gives up a running lab only after it rendered and validated the
\* files of the next one.
LabKeptUntilAccepted ==
    [][ inv.target = "redeploy" /\ (\E n \in Nodes : nodes[n] # Nil /\ nodes'[n] = Nil)
        => \A a \in Artifacts : ArtifactAsAsked(a) ]_vars

==============================================================================
