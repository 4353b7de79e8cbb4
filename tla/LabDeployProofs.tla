---------------------------- MODULE LabDeployProofs --------------------------
(***************************************************************************)
(* What a successful make deploy, redeploy and gen-topo mean, proved for   *)
(* LabLifecycle with any nodes, switches, settings, flaws and overrides,   *)
(* and any number of invocations, deaths, edits and files dropped.         *)
(***************************************************************************)
EXTENDS LabLifecycleProofs

-------------------------------------------------------------------------------
(* Types.                                                                  *)

AllFields == {"target", "set", "override", "via", "todo", "result", "passing", "bind", "seen", "old"}
Versions == 0 .. MaxSwix + 1

\* TypeOK in parts: what is rendered, what runs, and the invocation.
FilesTyped ==
    /\ files \in [Artifacts -> Contents \cup {Nil}] /\ outdated \subseteq RuleTargets
    /\ swix \in [bind : Versions, exec : Versions] /\ template \in Flaws \cup {Sound}
NodeRecords == [topo : Settings, own : Settings, bind : Versions, exec : Versions]
NodesTyped ==
    /\ DOMAIN nodes = Nodes /\ \A n \in Up : nodes[n] \in NodeRecords
SwitchesTyped ==
    /\ ext \in [Ceos -> SUBSET (1 .. MaxSwix + 1)] /\ agent \in [Ceos -> Versions]
    /\ \A n \in Ceos \ Up : ext[n] = {} /\ agent[n] = NoSwix
    /\ "swix" \in DOMAIN job /\ job.swix \in Versions

\* Only make clean and make install-quadra have no settings, and they render
\* and create nothing.
Unset(t) == \A i \in DOMAIN t : t[i] \in Removing \cup {"install"}
InvTyped ==
    /\ DOMAIN inv = AllFields
    /\ inv.override \in Overrides \cup {"unset"} /\ inv.via \in Vias \cup {"shell"}
    /\ newest \in 0 .. MaxSwix /\ inv.seen \in 0 .. newest /\ inv.bind \in Versions
    /\ inv.set \in Settings \/ Unset(Todo)
    /\ inv.result \in {"running", "ok", "failed", "invalid", "rejected", "died"}
Typed == FilesTyped /\ NodesTyped /\ SwitchesTyped /\ InvTyped

LEMMA LabBounds == MaxSwix \in Nat /\ Overrides \subseteq {"unset", "own", "missing"} /\ Vias \subseteq {"shell", "dotenv"}
  BY LabAssumption DEF LabAssumption

LEMMA TypedIsTypeOK == Shapes /\ Typed => TypeOK
  BY DEF Shapes, Typed, FilesTyped, NodesTyped, SwitchesTyped, InvTyped, NodeRecords, Versions, TypeOK

\* A lookup finds a file that exists.
LEMMA ResolveIs ==
    ASSUME InvTyped, NEW o
    PROVE  Resolve(o) \in Versions
  BY LabBounds DEF InvTyped, Resolve, Versions, NoSwix

\* What the ways to change the invocation do to its fields.
LEMMA EndTyped ==
    ASSUME InvTyped, NEW r \in {"ok", "failed", "invalid", "rejected", "died"}, End(r), newest' = newest
    PROVE  InvTyped'
<1>1. /\ DOMAIN inv' = AllFields /\ inv'.set = inv.set /\ inv'.todo = <<>> /\ inv'.result = r
      /\ inv'.override = "unset" /\ inv'.via = "shell" /\ inv'.bind = NoSwix /\ inv'.seen = NoSwix
  BY DEF InvTyped, AllFields, End
<1>. QED
  BY <1>1, LabBounds DEF InvTyped, Unset, Todo, NoSwix, Versions

LEMMA TodoTyped ==
    ASSUME InvTyped, NEW t, inv' = [inv EXCEPT !.todo = t], newest' = newest,
           inv.set \in Settings \/ Unset(t)
    PROVE  InvTyped'
<1>1. /\ DOMAIN inv' = AllFields /\ inv'.todo = t
      /\ \A f \in AllFields \ {"todo"} : inv'[f] = inv[f]
  BY DEF InvTyped, AllFields
<1>. QED
  BY <1>1 DEF InvTyped, AllFields, Todo

LEMMA UnsetTail ==
    ASSUME NEW t \in Seq(StepNames), t # <<>>, Unset(t)
    PROVE  Unset(Tail(t)) /\ Head(t) \in Removing \cup {"install"}
<1>1. /\ \A i \in DOMAIN Tail(t) : i + 1 \in DOMAIN t /\ Tail(t)[i] = t[i + 1]
      /\ 1 \in DOMAIN t /\ Head(t) = t[1]
  BY TailIs
<1>. QED
  BY <1>1 DEF Unset

LEMMA DoneTyped ==
    ASSUME Shapes, InvTyped, Running, Done, newest' = newest
    PROVE  InvTyped'
<1>1. CASE Len(Todo) = 1
  <2>1. End("ok")
    BY <1>1 DEF Done, Todo
  <2>. QED
    BY <2>1, EndTyped
<1>2. CASE Len(Todo) # 1
  <2>1. inv' = [inv EXCEPT !.todo = Tail(Todo)]
    BY <1>2 DEF Done, Todo
  <2>2. Todo \in Seq(StepNames) /\ Todo # <<>>
    BY DEF Shapes
  <2>3. inv.set \in Settings \/ Unset(Tail(Todo))
    BY <2>2, UnsetTail DEF InvTyped
  <2>. QED
    BY <2>1, <2>3, TodoTyped
<1>. QED
  BY <1>1, <1>2

\* A step other than those of make clean and install-quadra has settings.
LEMMA WorkHasSettings ==
    ASSUME Shapes, InvTyped, NEW step, Do(step), step \notin Removing \cup {"install"}
    PROVE  inv.set \in Settings
<1>1. Todo \in Seq(StepNames) /\ Todo # <<>> /\ Head(Todo) = step
  BY DEF Shapes, Do, Todo
<1>. QED
  BY <1>1, UnsetTail DEF InvTyped

LEMMA BeginTyped ==
    ASSUME Shapes, InvTyped, Begin
    PROVE  InvTyped'
<1>1. PICK x \in Targets, o \in Overrides, v \in Vias :
        \E s \in IF x \in {"clean", "install-quadra"} THEN {Nil} ELSE Settings :
           inv' = [target |-> x, set |-> s, override |-> o, via |-> v,
                   todo |-> Recipe[x], result |-> "running", passing |-> FALSE,
                   bind |-> NoSwix, seen |-> NoSwix, old |-> Up]
  BY DEF Begin, Targets
<1>2. newest' = newest
  BY DEF Begin
<1>3. x \in {"clean", "install-quadra"} => Unset(Recipe[x])
  <2>1. Recipe["clean"] = <<"destroy", "rmGen", "rmTopo">> /\ Recipe["install-quadra"] = <<"install">>
    BY DEF Recipe
  <2>. QED
    BY <2>1 DEF Unset, Removing
<1>4. /\ DOMAIN inv' = AllFields /\ inv'.override = o /\ inv'.via = v /\ inv'.bind = NoSwix
      /\ inv'.seen = NoSwix /\ inv'.result = "running" /\ inv'.todo = Recipe[x]
      /\ inv'.set \in IF x \in {"clean", "install-quadra"} THEN {Nil} ELSE Settings
  BY <1>1 DEF AllFields
<1>. QED
  BY <1>2, <1>3, <1>4, LabBounds DEF InvTyped, Todo, NoSwix, Versions

LEMMA InvTypedStep ==
    ASSUME Shapes, InvTyped, [Next]_vars
    PROVE  InvTyped'
<1>1. CASE Begin
  BY <1>1, BeginTyped
<1>2. CASE GenTopoStep
  <2>1. /\ inv' = [inv EXCEPT !.todo = RenderSteps \o Tail(@), !.passing = TRUE, !.seen = newest]
        /\ newest' = newest /\ Do("gen")
    BY <1>2 DEF GenTopoStep
  <2>2. inv.set \in Settings
    BY <2>1, WorkHasSettings DEF Removing
  <2>3. /\ DOMAIN inv' = AllFields /\ inv'.seen = newest
        /\ \A f \in AllFields \ {"todo", "passing", "seen"} : inv'[f] = inv[f]
    BY <2>1 DEF InvTyped, AllFields
  <2>. QED
    BY <2>1, <2>2, <2>3, LabBounds DEF InvTyped, AllFields
<1>3. CASE FileRule
  <2>1. newest' = newest /\ Running /\ (End("failed") \/ Done \/ Expand(RenderSteps, FALSE))
        /\ \E step \in {"rule", "configRule"} : Do(step)
    BY <1>3 DEF FileRule, Do
  <2>2. CASE Expand(RenderSteps, FALSE)
    <3>1. inv.set \in Settings
      BY <2>1, WorkHasSettings DEF Removing
    <3>2. /\ DOMAIN inv' = AllFields
          /\ \A f \in AllFields \ {"todo", "passing"} : inv'[f] = inv[f]
      BY <2>2 DEF InvTyped, AllFields, Expand
    <3>. QED
      BY <2>1, <3>1, <3>2 DEF InvTyped, AllFields
  <2>. QED
    BY <2>1, <2>2, EndTyped, DoneTyped
<1>4. CASE RenderFile \/ RenderTopology
  <2>1. newest' = newest /\ Running /\ (End("failed") \/ Done)
    BY <1>4 DEF RenderFile, RenderTopology, Render, Do
  <2>. QED
    BY <2>1, EndTyped, DoneTyped
<1>5. CASE ResolveBind
  <2>1. inv' = [inv EXCEPT !.todo = Tail(@), !.bind = Resolve(Seen(inv.passing))]
        /\ newest' = newest /\ Do("bind")
    BY <1>5 DEF ResolveBind
  <2>2. inv.set \in Settings
    BY <2>1, WorkHasSettings DEF Removing
  <2>3. /\ DOMAIN inv' = AllFields /\ inv'.bind = Resolve(Seen(inv.passing))
        /\ \A f \in AllFields \ {"todo", "bind"} : inv'[f] = inv[f]
    BY <2>1 DEF InvTyped, AllFields
  <2>. QED
    BY <2>1, <2>2, <2>3, ResolveIs DEF InvTyped, AllFields
<1>6. CASE ValidateTopo \/ WaitKmePool \/ RunInstallExecs
  <2>1. newest' = newest /\ Running /\ (End("invalid") \/ Done)
    BY <1>6 DEF ValidateTopo, WaitKmePool, RunInstallExecs, Do
  <2>. QED
    BY <2>1, EndTyped, DoneTyped
<1>7. ASSUME UNCHANGED <<inv, newest>>
      PROVE  InvTyped'
  BY <1>7 DEF InvTyped, Todo
<1>8. CASE DeployKmes
  <2>1. newest' = newest /\ Running
    BY <1>8 DEF DeployKmes, Do
  <2>2. CASE Do("kmeStage") /\ inv' = [inv EXCEPT !.todo = <<"kmeUp">> \o Tail(@)]
    <3>1. inv.set \in Settings
      BY <2>2, WorkHasSettings DEF Removing
    <3>2. inv' = [inv EXCEPT !.todo = <<"kmeUp">> \o Tail(Todo)]
      BY <2>2 DEF Todo
    <3>. QED
      BY <2>1, <3>1, <3>2, TodoTyped
  <2>. QED
    BY <1>7, <1>8, <2>1, <2>2, EndTyped, DoneTyped DEF DeployKmes, Create
<1>9. CASE DeployAll
  BY <1>7, <1>9, EndTyped DEF DeployAll, Create
<1>10. CASE DestroyLab
  <2>1. newest' = newest /\ Running
    BY <1>10 DEF DestroyLab, Do
  <2>2. ASSUME NEW n, inv' = [inv EXCEPT !.old = @ \ {n}]
        PROVE  InvTyped'
    <3>1. /\ DOMAIN inv' = AllFields
          /\ \A f \in AllFields \ {"old"} : inv'[f] = inv[f]
      BY <2>2 DEF InvTyped, AllFields
    <3>. QED
      BY <2>1, <3>1 DEF InvTyped, AllFields, Todo
  <2>. QED
    BY <1>10, <2>1, <2>2, DoneTyped DEF DestroyLab
<1>11. CASE RemoveFiles
  <2>1. newest' = newest /\ Running /\ (Done \/ inv' = inv)
    BY <1>11 DEF RemoveFiles, Do
  <2>. QED
    BY <1>7, <2>1, DoneTyped
<1>12. CASE InstallQuadra
  <2>1. newest' = newest /\ (inv' = inv \/ End("ok") \/ End("failed"))
    BY <1>12 DEF InstallQuadra
  <2>. QED
    BY <1>7, <2>1, EndTyped
<1>13. CASE Die
  BY <1>13, EndTyped DEF Die
<1>14. CASE DropSwix
  <2>1. inv' = inv /\ newest < MaxSwix /\ newest' = newest + 1
    BY <1>14 DEF DropSwix
  <2>. QED
    BY <2>1, LabBounds DEF InvTyped, Todo
<1>15. CASE EditTemplate \/ RestartSwitch \/ UNCHANGED vars
  BY <1>7, <1>15 DEF EditTemplate, RestartSwitch, vars
<1>16. CASE GenerateRadsecPki
  <2>1. newest' = newest /\ Running /\ (inv' = inv \/ End("failed") \/ Done)
    BY <1>16 DEF GenerateRadsecPki, EnsureCa, NewLeafKey, SignLeaf, MarkLeaf, CopyLeaf, Pki, Do
  <2>. QED
    BY <1>7, <2>1, EndTyped, DoneTyped
<1>. QED
  BY <1>1, <1>2, <1>3, <1>4, <1>5, <1>6, <1>8, <1>9, <1>10, <1>11, <1>12, <1>13, <1>14, <1>15, <1>16 DEF Next

-------------------------------------------------------------------------------
(* The RadSec PKI.                                                         *)

\* Those whose leaf its marker may not describe, the running one included.
Unfinished == broken \cup (IF work.at \in {"sign", "mark"} THEN {inv.set} ELSE {})

\* A marker for the addresses of s stands for a certificate that is good.
Vouches(s) ==
    work.crt # Nil /\ work.marker # Nil /\ Fits("pki", work.marker, s) =>
        Fits("pki", work.crt, s) /\ work.key = "own" /\ work.chain

\* The markers can be trusted for the addresses of s unless a run for other
\* addresses died while it issued certificates, or a clean while it removed
\* them.
PkiInv ==
    /\ work.at # "ca" => Do("pki") /\ ~work.cut /\ "crt" \in work.ca
    /\ work.cut => Nil \in broken
    /\ Nil \notin broken /\ work.crt # Nil => "crt" \in work.ca
    /\ Nil \notin broken =>
          \A s \in Settings : (\A u \in Unfinished : Fits("pki", u, s)) => Vouches(s)
    /\ work.at = "mark" => work.crt = inv.set /\ work.key = "own" /\ work.chain
    /\ work.at = "copy" => LeafCurrent

LEMMA PkiFits ==
    ASSUME NEW s, NEW t
    PROVE  Fits("pki", s, t) <=> s.v4 = t.v4 /\ s.v6 = t.v6
  BY DEF Fits, Uses

\* The generator stops, wherever it is.
LEMMA LeaveKeeps ==
    ASSUME Shapes, InvTyped, PkiInv, Leave
    PROVE  PkiInv'
<1>1. /\ work'.at = "ca" /\ work'.cut = work.cut /\ work'.ca = work.ca /\ work'.crt = work.crt
      /\ work'.key = work.key /\ work'.chain = work.chain /\ work'.marker = work.marker
  BY DEF Leave, Shapes, Works
<1>2. work.at \in {"sign", "mark"} => inv.set \in Settings
  BY WorkHasSettings DEF PkiInv, Removing
<1>3. Nil \in broken' <=> Nil \in broken
  BY <1>2, LabAssumption DEF LabAssumption, Leave
<1>4. Unfinished' = Unfinished
  BY <1>1 DEF Leave, Unfinished
<1>5. \A s : Vouches(s)' <=> Vouches(s)
  BY <1>1 DEF Vouches, Fits
<1>. QED
  BY <1>1, <1>3, <1>4, <1>5 DEF PkiInv, Fits

\* Nothing happens to it.
LEMMA IdlePki ==
    ASSUME PkiInv, work.at = "ca", UNCHANGED pkiVars
    PROVE  PkiInv'
<1>1. work' = work /\ broken' = broken
  BY DEF pkiVars
<1>2. Unfinished' = Unfinished
  BY <1>1 DEF Unfinished
<1>3. \A s : Vouches(s)' <=> Vouches(s)
  BY <1>1 DEF Vouches, Fits
<1>. QED
  BY <1>1, <1>2, <1>3 DEF PkiInv, Fits

LEMMA PkiStep ==
    ASSUME Shapes, InvTyped, PkiInv, [Next]_vars
    PROVE  PkiInv'
<1>1. Do("pki") => inv.set \in Settings /\ inv.set # Nil
  BY WorkHasSettings, LabAssumption DEF LabAssumption, Removing
<1>2. work \in Works
  BY DEF Shapes
<1>3. CASE EnsureCa
  <2>1. PICK w \in Spared :
          work' = IF "crt" \in w.ca THEN [w EXCEPT !.at = "leaf"]
                  ELSE [w EXCEPT !.at = "leaf", !.ca = {"key", "crt"}, !.chain = FALSE]
    BY <1>3 DEF EnsureCa
  <2>2. w \in Works /\ ~w.cut /\ (~work.cut => w = work)
    BY <1>2, <1>3 DEF Spared, Works, EnsureCa, Pki
  <2>3. /\ work'.at = "leaf" /\ ~work'.cut /\ "crt" \in work'.ca
        /\ work'.crt = w.crt /\ work'.key = w.key /\ work'.marker = w.marker
        /\ "crt" \in w.ca => work'.chain = w.chain
    BY <2>1, <2>2 DEF Works
  <2>4. UNCHANGED <<broken, inv>> /\ Do("pki") /\ work.at = "ca"
    BY <1>3 DEF EnsureCa, Pki
  <2>5. Unfinished' = broken /\ Unfinished = broken
    BY <2>3, <2>4 DEF Unfinished
  <2>6. ASSUME Nil \notin broken, NEW s, Vouches(s)
        PROVE  Vouches(s)'
    <3>1. w = work /\ (work.crt # Nil => "crt" \in work.ca)
      BY <2>2, <2>6 DEF PkiInv
    <3>. QED
      BY <2>3, <2>6, <3>1 DEF Vouches, Fits
  <2>7. Do("pki")'
    BY <2>4 DEF Do, Running
  <2>. QED
    BY <2>3, <2>4, <2>5, <2>6, <2>7 DEF PkiInv, Fits
<1>4. CASE NewLeafKey
  <2>1. UNCHANGED <<broken, inv>> /\ Do("pki") /\ Do("pki")' /\ work.at = "leaf"
    BY <1>4 DEF NewLeafKey, Pki, Do, Running
  <2>2. /\ work'.cut = work.cut /\ work'.ca = work.ca /\ work'.crt = work.crt
        /\ work'.chain = work.chain /\ work'.marker = work.marker
        /\ IF LeafCurrent THEN work'.at = "copy" /\ work'.key = work.key ELSE work'.at = "sign"
    BY <1>2, <1>4 DEF NewLeafKey, Works
  <2>3. CASE LeafCurrent
    <3>1. Unfinished' = Unfinished /\ (\A s : Vouches(s)' <=> Vouches(s)) /\ LeafCurrent'
      BY <2>1, <2>2, <2>3 DEF Unfinished, Vouches, Fits, LeafCurrent
    <3>. QED
      BY <2>1, <2>2, <2>3, <3>1 DEF PkiInv, Fits
  <2>4. CASE ~LeafCurrent
    <3>1. ASSUME NEW s, \A u \in Unfinished' : Fits("pki", u, s)
          PROVE  Vouches(s)'
      <4>1. Fits("pki", inv.set, s)
        BY <2>1, <2>2, <2>4, <3>1 DEF Unfinished
      <4>2. ~(work.crt # Nil /\ work.marker # Nil /\ Fits("pki", work.marker, s))
        BY <2>4, <4>1, PkiFits DEF LeafCurrent
      <4>. QED
        BY <2>2, <4>2 DEF Vouches, Fits
    <3>. QED
      BY <2>1, <2>2, <2>4, <3>1 DEF PkiInv, Fits
  <2>. QED
    BY <2>3, <2>4
<1>5. CASE SignLeaf
  <2>1. CASE Leave
    BY <2>1, LeaveKeeps
  <2>2. CASE /\ work' = [work EXCEPT !.at = "mark", !.key = "own", !.crt = inv.set, !.chain = TRUE]
             /\ UNCHANGED <<broken, inv>>
    <3>1. Do("pki") /\ Do("pki")' /\ work.at = "sign"
      BY <1>5, <2>2 DEF SignLeaf, Pki, Do, Running
    <3>2. /\ work'.at = "mark" /\ work'.cut = work.cut /\ work'.ca = work.ca /\ work'.crt = inv.set
          /\ work'.key = "own" /\ work'.chain /\ work'.marker = work.marker
      BY <1>2, <2>2 DEF Works
    <3>3. Unfinished' = broken \cup {inv.set}
      BY <2>2, <3>2 DEF Unfinished
    <3>4. ASSUME NEW s, \A u \in Unfinished' : Fits("pki", u, s)
          PROVE  Vouches(s)'
      BY <3>2, <3>3, <3>4 DEF Vouches, Fits
    <3>. QED
      BY <2>2, <3>1, <3>2, <3>4 DEF PkiInv, Fits
  <2>. QED
    BY <1>5, <2>1, <2>2 DEF SignLeaf
<1>6. CASE MarkLeaf
  <2>1. UNCHANGED <<broken, inv>> /\ Do("pki") /\ Do("pki")' /\ work.at = "mark"
    BY <1>6 DEF MarkLeaf, Pki, Do, Running
  <2>2. /\ work'.at = "copy" /\ work'.cut = work.cut /\ work'.ca = work.ca /\ work'.crt = work.crt
        /\ work'.key = work.key /\ work'.chain = work.chain /\ work'.marker = inv.set
    BY <1>2, <1>6 DEF MarkLeaf, Works
  <2>3. work.crt = inv.set /\ work.key = "own" /\ work.chain
    BY <2>1 DEF PkiInv
  <2>4. \A s : Vouches(s)'
    BY <2>2, <2>3 DEF Vouches, Fits
  <2>5. LeafCurrent'
    BY <1>1, <2>1, <2>2, <2>3 DEF LeafCurrent, Fits
  <2>. QED
    BY <2>1, <2>2, <2>4, <2>5 DEF PkiInv, Fits
<1>7. CASE CopyLeaf
  BY <1>7, LeaveKeeps DEF CopyLeaf
<1>8. ASSUME UNCHANGED pkiVars, ~Do("pki")
      PROVE  PkiInv'
  BY <1>8, IdlePki DEF PkiInv
<1>9. CASE RemoveFiles
  <2>1. ~Do("pki")
    BY <1>9 DEF RemoveFiles, Do
  <2>2. CASE work' = NoWork /\ broken' = {}
    <3>1. /\ work'.at = "ca" /\ ~work'.cut /\ work'.crt = Nil
          /\ \A s : Vouches(s)'
      BY <2>2 DEF NoWork, Vouches
    <3>. QED
      BY <2>2, <3>1 DEF PkiInv
  <2>. QED
    BY <1>8, <1>9, <2>1, <2>2 DEF RemoveFiles
<1>10. CASE Die
  <2>1. CASE Do("rmGen") /\ work' = [work EXCEPT !.cut = TRUE] /\ broken' = broken \cup {Nil}
    <3>1. work.at = "ca"
      BY <2>1 DEF PkiInv, Do
    <3>2. work'.at = "ca" /\ Nil \in broken'
      BY <1>2, <2>1, <3>1 DEF Works
    <3>. QED
      BY <3>2 DEF PkiInv
  <2>. QED
    BY <1>10, <2>1, LeaveKeeps DEF Die
<1>11. CASE UNCHANGED vars
  <2>1. UNCHANGED <<work, broken, inv>>
    BY <1>11 DEF vars, hostVars, pkiVars
  <2>. QED
    BY <2>1 DEF PkiInv, Unfinished, Vouches, LeafCurrent, Fits, Do, Running
<1>12. CASE ~(GenerateRadsecPki \/ RemoveFiles \/ Die) /\ Next
  <2>1. UNCHANGED pkiVars
    BY <1>12 DEF Next, Begin, GenTopoStep, FileRule, RenderFile, ResolveBind, RenderTopology, ValidateTopo,
       DeployKmes, WaitKmePool, DeployAll, RunInstallExecs, DestroyLab, InstallQuadra, DropSwix,
       EditTemplate, RestartSwitch, hostVars
  <2>2. ~Do("pki")
    BY <1>12 DEF Next, Begin, GenTopoStep, FileRule, RenderFile, ResolveBind, RenderTopology, ValidateTopo,
       DeployKmes, WaitKmePool, DeployAll, RunInstallExecs, DestroyLab, InstallQuadra, DropSwix,
       EditTemplate, RestartSwitch, Do
  <2>. QED
    BY <1>8, <2>1, <2>2
<1>. QED
  BY <1>3, <1>4, <1>5, <1>6, <1>7, <1>9, <1>10, <1>11, <1>12 DEF GenerateRadsecPki

-------------------------------------------------------------------------------
(* Files and nodes.                                                        *)

LEMMA FilesTypedStep ==
    ASSUME Shapes, InvTyped, PkiInv, FilesTyped, [Next]_vars
    PROVE  FilesTyped'
<1>1. ASSUME UNCHANGED <<files, outdated, swix, template>>
      PROVE  FilesTyped'
  BY <1>1 DEF FilesTyped
<1>2. ASSUME NEW a \in Artifacts, Do(a), Render(a), template' = template, swix' \in [bind : Versions, exec : Versions]
      PROVE  FilesTyped'
  <2>1. inv.set \in Settings
    BY <1>2, WorkHasSettings DEF Artifacts, Uses, Removing
  <2>2. [from |-> inv.set, sound |-> template.of # a] \in Contents
    <3>1. (template.of # a) \in BOOLEAN
      OBVIOUS
    <3>. QED
      BY <2>1, <3>1 DEF Contents
  <2>3. [from |-> inv.set, sound |-> FALSE] \in Contents
    BY <2>1 DEF Contents
  <2>. QED
    BY <1>2, <2>2, <2>3 DEF Render, Partly, FilesTyped
<1>3. CASE RenderFile
  <2>1. PICK a \in Artifacts : Do(a) /\ Render(a) /\ UNCHANGED <<template, swix>>
    BY <1>3 DEF RenderFile
  <2>. QED
    BY <1>2, <2>1 DEF FilesTyped
<1>4. CASE RenderTopology
  <2>1. "topo" \in Artifacts /\ 0 \in Versions
    BY LabBounds DEF Artifacts, Uses, Versions
  <2>2. Do("topo") /\ Render("topo") /\ template' = template
    BY <1>4 DEF RenderTopology
  <2>3. swix' = swix \/ swix' = Inject(inv.bind, Resolve(Seen(inv.passing)))
    BY <1>4 DEF RenderTopology
  <2>4. \A i \in Versions, j \in Versions : Inject(i, j) \in [bind : Versions, exec : Versions]
    BY <2>1 DEF Inject, NoSwix
  <2>5. swix' \in [bind : Versions, exec : Versions]
    BY <2>3, <2>4, ResolveIs DEF InvTyped, FilesTyped
  <2>. QED
    BY <1>2, <2>1, <2>2, <2>5
<1>5. CASE RemoveFiles
  <2>1. UNCHANGED <<swix, template>>
    BY <1>5 DEF RemoveFiles
  <2>2. files' \in [Artifacts -> Contents \cup {Nil}] /\ outdated' \subseteq RuleTargets
    BY <1>5 DEF RemoveFiles, FilesTyped
  <2>. QED
    BY <2>1, <2>2 DEF FilesTyped
<1>6. CASE EditTemplate
  <2>1. /\ UNCHANGED <<files, swix>> /\ template' \in Flaws \cup {Sound}
        /\ outdated' = {a \in RuleTargets : files[a] # Nil} \/ outdated' = outdated
    BY <1>6 DEF EditTemplate
  <2>. QED
    BY <2>1 DEF FilesTyped
<1>7. CASE CopyLeaf
  <2>1. work.crt \in Settings
    BY <1>7 DEF CopyLeaf, Pki, PkiInv, LeafCurrent, Shapes, Works
  <2>2. [from |-> work.crt, sound |-> work.key = "own" /\ work.chain] \in Contents
    BY <2>1 DEF Contents, Shapes, Works
  <2>3. /\ files' = [files EXCEPT !["pki"] = [from |-> work.crt, sound |-> work.key = "own" /\ work.chain]]
        /\ outdated' \subseteq outdated /\ UNCHANGED <<swix, template>>
    BY <1>7 DEF CopyLeaf
  <2>. QED
    BY <2>2, <2>3 DEF FilesTyped
<1>8. CASE Die
  <2>1. UNCHANGED <<outdated, swix, template>>
    BY <1>8 DEF Die
  <2>2. CASE files' = files
    BY <1>1, <2>1, <2>2
  <2>3. CASE Head(Todo) \in Artifacts /\ files' \in Partly(Head(Todo))
    <3>1. inv.set \in Settings
      BY <1>8, <2>3, WorkHasSettings DEF Die, Do, Todo, Artifacts, Uses, Removing
    <3>2. [from |-> inv.set, sound |-> FALSE] \in Contents
      BY <3>1 DEF Contents
    <3>3. files' \in [Artifacts -> Contents \cup {Nil}]
      BY <2>3, <3>2 DEF Partly, FilesTyped
    <3>. QED
      BY <2>1, <3>3 DEF FilesTyped
  <2>. QED
    BY <1>8, <2>2, <2>3 DEF Die, Todo
<1>9. CASE ~(RenderFile \/ RenderTopology \/ RemoveFiles \/ EditTemplate \/ CopyLeaf \/ Die)
  <2>1. UNCHANGED <<files, outdated, swix, template>>
    BY <1>9 DEF Next, Begin, GenTopoStep, FileRule, GenerateRadsecPki, EnsureCa, NewLeafKey, SignLeaf, MarkLeaf,
       ResolveBind, ValidateTopo, DeployKmes, WaitKmePool, DeployAll, RunInstallExecs, DestroyLab,
       InstallQuadra, DropSwix, RestartSwitch, vars, hostVars
  <2>. QED
    BY <1>1, <2>1
<1>. QED
  BY <1>3, <1>4, <1>5, <1>6, <1>7, <1>8, <1>9

\* containerlab creates a node from files that are there.
LEMMA CreateTyped ==
    ASSUME FilesTyped, NodesTyped, NEW ns \in SUBSET Nodes, Create(ns),
           \A n \in ns \ Up : Mountable(n)
    PROVE  NodesTyped'
<1> DEFINE New(m) == [topo |-> files.topo.from, own |-> files[OwnFile(m)].from,
                      bind |-> IF m \in Kmes THEN NoSwix ELSE swix.bind,
                      exec |-> IF m \in Kmes THEN NoSwix ELSE swix.exec]
<1>1. PICK n \in ns \ Up : nodes' = [nodes EXCEPT ![n] = New(n)]
  BY DEF Create
<1>2. New(n) \in NodeRecords
  <2>1. files["topo"] \in Contents /\ files[OwnFile(n)] \in Contents
    BY <1>1 DEF Mountable, FilesTyped, OwnFile, Artifacts, Uses
  <2>2. swix.bind \in Versions /\ swix.exec \in Versions /\ NoSwix \in Versions
    BY LabBounds DEF FilesTyped, Versions, NoSwix
  <2>. QED
    BY <2>1, <2>2 DEF Contents, NodeRecords
<1> HIDE DEF New
<1>3. DOMAIN nodes' = Nodes /\ \A m \in Nodes : nodes'[m] = IF m = n THEN New(n) ELSE nodes[m]
  BY <1>1 DEF NodesTyped
<1>. QED
  BY <1>2, <1>3 DEF NodesTyped, Up

\* The KMEs are created from files that the staged deploy has looked at.
StagedInv ==
    \A i \in DOMAIN Todo : Todo[i] = "kmeUp" => i = 1 /\ \A n \in Kmes : Mountable(n)

LEMMA RecipesStage ==
    ASSUME NEW x \in Targets
    PROVE  \A i \in DOMAIN Recipe[x] : Recipe[x][i] # "kmeUp"
<1> DEFINE Rest == StepNames \ {"kmeUp"}
<1>1. /\ GenTopo \in Seq(Rest) /\ Destroy \in Seq(Rest) /\ DeployKme \in Seq(Rest)
      /\ <<"configRule">> \in Seq(Rest) /\ <<"pool", "full">> \in Seq(Rest)
  BY DEF GenTopo, Destroy, DeployKme, StepNames
<1>2. \A s, t \in Seq(Rest) : s \o t \in Seq(Rest)
  BY ConcatProperties
<1>3. Deploy \in Seq(Rest)
  BY <1>1, <1>2, Zenon DEF Deploy
<1>4. Redeploy \in Seq(Rest) /\ GenTopo \o Deploy \in Seq(Rest)
  BY <1>1, <1>2, <1>3, Zenon DEF Redeploy
<1>5. <<"rule", "validate">> \in Seq(Rest) /\ <<"install">> \in Seq(Rest)
      /\ <<"destroy", "rmGen", "rmTopo">> \in Seq(Rest)
  BY DEF StepNames
<1> HIDE DEF Rest
<1>6. Recipe[x] \in Seq(Rest)
  BY <1>1, <1>3, <1>4, <1>5, Zenon DEF Recipe, Targets
<1>7. \A i \in DOMAIN Recipe[x] : Recipe[x][i] \in Rest
  BY <1>6, ElementOfSeq, LenProperties
<1>. QED
  BY <1>7 DEF Rest

LEMMA StagedStep ==
    ASSUME Shapes, RenderInv, StagedInv, [Next]_vars
    PROVE  StagedInv'
<1>1. CASE Begin
  <2>1. inv'.target \in Targets /\ inv'.todo = Recipe[inv'.target]
    BY <1>1, BeginIs
  <2>. QED
    BY <2>1, RecipesStage DEF StagedInv, Todo
<1>2. CASE ~Begin
  <2>1. TodoMoves /\ FileMoves
    BY <1>2, StepMoves
  <2>2. Running => /\ Todo \in Seq(StepNames) /\ Todo # <<>> /\ Head(Todo) = Todo[1]
                   /\ DOMAIN Todo = 1 .. Len(Todo) /\ Len(Todo) \in Nat \ {0}
    BY TailIs DEF Shapes
  <2>3. Todo = <<>> => \A i \in DOMAIN Todo : FALSE
    OBVIOUS
  <2>4. CASE inv'.todo = <<>>
    BY <2>4 DEF StagedInv, Todo
  <2>5. CASE Stays /\ files' = files
    BY <2>5 DEF Stays, StagedInv, Todo, Mountable
  <2>6. CASE Stays /\ files' # files
    <3>1. Running /\ Head(Todo) # "kmeUp"
      BY <2>1, <2>6 DEF FileMoves, Writes, Removes, Artifacts, Uses
    <3>2. \A i \in DOMAIN Todo : Todo[i] # "kmeUp"
      BY <2>2, <3>1 DEF StagedInv
    <3>. QED
      BY <2>6, <3>2 DEF Stays, StagedInv, Todo
  <2>7. CASE Running /\ Shrinks
    <3>1. \A i \in DOMAIN Tail(Todo) : i \in Nat \ {0} /\ i + 1 \in DOMAIN Todo /\ Tail(Todo)[i] = Todo[i + 1]
      BY <2>2, <2>7, TailIs
    <3>2. \A i \in DOMAIN Tail(Todo) : Tail(Todo)[i] # "kmeUp"
      BY <3>1 DEF StagedInv
    <3>. QED
      BY <2>7, <3>2 DEF Shrinks, Goes, StagedInv, Todo
  <2>8. CASE Running /\ Renders
    <3> DEFINE u == RenderSteps \o Tail(Todo)
    <3>1. /\ DOMAIN u = 1 .. Len(Todo) + 7 /\ \A i \in 1 .. 8 : u[i] \notin Removing \cup Starting
          /\ \A i \in 2 .. Len(Todo) : u[i + 7] = Todo[i]
      BY <2>2, <2>8, PrefixIs
    <3> HIDE DEF u
    <3>2. \A i \in 2 .. Len(Todo) : Todo[i] # "kmeUp"
      BY <2>2, <2>8 DEF StagedInv
    <3>3. ASSUME NEW i \in DOMAIN u
          PROVE  u[i] # "kmeUp"
      <4>1. CASE i <= 8
        BY <2>2, <2>8, <3>1, <4>1 DEF Starting
      <4>2. CASE i > 8
        <5>1. i - 7 \in 2 .. Len(Todo) /\ (i - 7) + 7 = i
          BY <2>2, <2>8, <3>1, <4>2
        <5>2. u[(i - 7) + 7] = Todo[i - 7]
          BY <3>1, <5>1
        <5>. QED
          BY <3>2, <5>1, <5>2
      <4>. QED
        BY <2>2, <2>8, <3>1, <4>1, <4>2
    <3>. QED
      BY <2>8, <3>3 DEF Renders, Goes, StagedInv, Todo, u
  <2>9. CASE Running /\ Stages
    <3> DEFINE u == <<"kmeUp">> \o Tail(Todo)
    <3>1. /\ DOMAIN u = 1 .. Len(Todo) /\ \A i \in 2 .. Len(Todo) : u[i] = Todo[i]
      BY <2>2, <2>9, StageIs
    <3> HIDE DEF u
    <3>2. \A i \in DOMAIN u : u[i] = "kmeUp" => i = 1
      BY <2>2, <2>9, <3>1 DEF StagedInv, Stages
    <3>3. CASE DeployKmes
      <4>1. inv'.result = "running" /\ inv'.todo # Todo
        <5>1. u[1] = "kmeUp" /\ Todo[1] = "kmeStage"
          BY <2>2, <2>9, StageIs DEF Stages, u
        <5>. QED
          BY <2>9, <5>1 DEF Stages, Goes, u
      <4>2. \A n \in Kmes : Mountable(n)
        <5>1. ~End("rejected") /\ ~End("failed")
          BY <4>1 DEF End, Shapes, Fields
        <5>2. ~Do("kmeUp")
          BY <2>9 DEF Stages, Do, Todo
        <5>. QED
          BY <3>3, <5>1, <5>2 DEF DeployKmes
      <4>3. files' = files
        BY <3>3 DEF DeployKmes, hostVars
      <4>. QED
        BY <2>9, <3>2, <4>2, <4>3 DEF StagedInv, Stages, Goes, Todo, Mountable, u
    <3>4. CASE ~DeployKmes
      <4>1. Do("kmeStage")
        BY <2>9 DEF Stages, Do, Todo
      <4>2. inv' = inv \/ End("died")
        BY <1>2, <3>4, <4>1 DEF Next, Do, GenTopoStep, FileRule, RenderFile, RenderTopology, ResolveBind,
           GenerateRadsecPki, EnsureCa, NewLeafKey, SignLeaf, MarkLeaf, CopyLeaf, Pki,
           ValidateTopo, WaitKmePool, DeployAll, RunInstallExecs, DestroyLab, RemoveFiles, InstallQuadra,
           Die, DropSwix, EditTemplate, RestartSwitch, vars, Artifacts, Uses
      <4>3. CASE End("died")
        <5>1. Kept /\ Ends
          BY <2>9, <4>3, EndMoves
        <5>. QED
          BY <2>4, <5>1 DEF Ends
      <4>4. CASE inv' = inv
        <5>1. u[1] = "kmeUp" /\ Todo[1] = "kmeStage"
          BY <2>2, <2>9, StageIs DEF Stages, u
        <5>. QED
          BY <2>9, <4>4, <5>1 DEF Stages, Goes, Todo, u
      <4>. QED
        BY <4>2, <4>3, <4>4
    <3>. QED
      BY <3>3, <3>4
  <2>. QED
    BY <2>1, <2>4, <2>5, <2>6, <2>7, <2>8, <2>9 DEF TodoMoves, Ends
<1>. QED
  BY <1>1, <1>2

LEMMA NodesTypedStep ==
    ASSUME Shapes, StagedInv, FilesTyped, NodesTyped, [Next]_vars
    PROVE  NodesTyped'
<1>1. CASE nodes' = nodes
  BY <1>1 DEF NodesTyped, Up
<1>2. CASE DeployKmes
  <2>1. CASE Do("kmeUp") /\ Create(Kmes)
    <3>1. 1 \in DOMAIN Todo /\ Todo[1] = "kmeUp"
      BY <2>1, TailIs DEF Shapes, Do, Todo
    <3>. QED
      BY <2>1, <3>1, CreateTyped DEF StagedInv, Nodes
  <2>. QED
    BY <1>1, <1>2, <2>1 DEF DeployKmes
<1>3. CASE DeployAll
  <2>1. CASE (\A n \in Nodes \ Up : Mountable(n)) /\ Create(Nodes)
    BY <2>1, CreateTyped
  <2>. QED
    BY <1>1, <1>3, <2>1 DEF DeployAll
<1>4. CASE DestroyLab
  <2>1. ASSUME NEW n \in Up, nodes' = [nodes EXCEPT ![n] = Nil]
        PROVE  NodesTyped'
    BY <2>1 DEF NodesTyped, Up
  <2>. QED
    BY <1>1, <1>4, <2>1 DEF DestroyLab
<1>5. CASE ~(DeployKmes \/ DeployAll \/ DestroyLab)
  <2>1. nodes' = nodes
    BY <1>5 DEF Next, Begin, GenTopoStep, FileRule, RenderFile, RenderTopology, ResolveBind, ValidateTopo,
       WaitKmePool, RunInstallExecs, RemoveFiles, InstallQuadra, Die, DropSwix, EditTemplate,
       RestartSwitch, GenerateRadsecPki, EnsureCa, NewLeafKey, SignLeaf, MarkLeaf, CopyLeaf, vars
  <2>. QED
    BY <1>1, <2>1
<1>. QED
  BY <1>2, <1>3, <1>4, <1>5

LEMMA SwitchesTypedStep ==
    ASSUME Shapes, JobInv, InvTyped, NodesTyped, SwitchesTyped, [Next]_vars
    PROVE  SwitchesTyped'
<1> USE LabBounds DEF Versions, NoSwix
<1>1. ASSUME UNCHANGED <<ext, agent, job>>, \A n \in Ceos \cap Up : n \in Up'
      PROVE  SwitchesTyped'
  BY <1>1 DEF SwitchesTyped
<1>2. ASSUME UNCHANGED nodes
      PROVE  Up' = Up
  BY <1>2 DEF Up
<1>3. ASSUME NEW ns \in SUBSET Nodes, Create(ns), job' = job
      PROVE  SwitchesTyped'
  <2>1. Up \subseteq Up' /\ UNCHANGED <<ext, agent>>
    BY <1>3 DEF Create, Up, NodesTyped
  <2>. QED
    BY <1>1, <1>3, <2>1
<1>4. CASE DeployKmes \/ DeployAll
  <2>1. job' = job
    BY <1>4 DEF DeployKmes, DeployAll
  <2>2. CASE Create(Kmes) \/ Create(Nodes)
    BY <1>3, <2>1, <2>2 DEF Nodes
  <2>3. CASE UNCHANGED <<nodes, ext, agent>>
    BY <1>1, <1>2, <2>1, <2>3
  <2>. QED
    BY <1>4, <2>2, <2>3 DEF DeployKmes, DeployAll
<1>5. CASE RunInstallExecs
  <2>1. /\ UNCHANGED <<nodes, job>> /\ Up = Nodes
        /\ \E took \in SUBSET {n \in Ceos : nodes[n].bind # NoSwix} :
              /\ ext' = [n \in Ceos |-> IF n \in took THEN {nodes[n].bind} ELSE ext[n]]
              /\ agent' = [n \in Ceos |-> IF n \in took THEN nodes[n].bind ELSE agent[n]]
    BY <1>5 DEF RunInstallExecs
  <2>2. PICK took \in SUBSET {n \in Ceos : nodes[n].bind # NoSwix} :
              /\ ext' = [n \in Ceos |-> IF n \in took THEN {nodes[n].bind} ELSE ext[n]]
              /\ agent' = [n \in Ceos |-> IF n \in took THEN nodes[n].bind ELSE agent[n]]
    BY <2>1
  <2>3. \A n \in took : nodes[n].bind \in 1 .. MaxSwix + 1
    <3>1. \A n \in took : nodes[n] \in NodeRecords
      BY <2>1 DEF NodesTyped, Nodes
    <3>2. \A r \in NodeRecords : r.bind \in 0 .. MaxSwix + 1
      BY DEF NodeRecords
    <3>. QED
      BY <3>1, <3>2
  <2>4. ext' \in [Ceos -> SUBSET (1 .. MaxSwix + 1)] /\ agent' \in [Ceos -> Versions]
    BY <2>2, <2>3 DEF SwitchesTyped
  <2>5. Ceos \ Up' = {}
    BY <1>2, <2>1 DEF Nodes
  <2>. QED
    BY <2>1, <2>4, <2>5 DEF SwitchesTyped
<1>6. CASE DestroyLab
  <2>1. ASSUME NEW n \in Up, nodes' = [nodes EXCEPT ![n] = Nil], job' = job,
               ext' = [m \in Ceos |-> IF m = n THEN {} ELSE ext[m]],
               agent' = [m \in Ceos |-> IF m = n THEN NoSwix ELSE agent[m]]
        PROVE  SwitchesTyped'
    <3>1. Up' = Up \ {n}
      BY <2>1 DEF Up, NodesTyped
    <3>. QED
      BY <2>1, <3>1 DEF SwitchesTyped
  <2>. QED
    BY <1>1, <1>2, <1>6, <2>1 DEF DestroyLab
<1>7. Installing => Target \in Ceos /\ job.swix \in 1 .. MaxSwix + 1
  <2>1. ASSUME Installing
        PROVE  job.todo \in Seq(Ceos) /\ job.todo # <<>> /\ job.swix # 0
    BY <2>1 DEF JobInv, JobShape
  <2>2. Installing => Head(job.todo) \in Ceos
    BY <2>1, HeadTailProperties
  <2>. QED
    BY <2>1, <2>2 DEF Target, SwitchesTyped
<1>8. ASSUME UNCHANGED nodes, job'.swix = job.swix, DOMAIN job' = DOMAIN job,
             \/ UNCHANGED <<ext, agent>>
             \/ Installing /\ job.at # "show" /\ ext' = [ext EXCEPT ![Target] = @ \cup {job.swix}] /\ agent' = agent
             \/ Installing /\ job.at # "show" /\ agent' = [agent EXCEPT ![Target] = job.swix] /\ ext' = ext
             \/ ext' = ext /\ \E n \in Ceos : agent' = [agent EXCEPT ![n] = NoSwix]
      PROVE  SwitchesTyped'
  <2>1. Installing /\ job.at # "show" => nodes[Target] # Nil
    BY DEF JobInv
  <2>2. Installing /\ job.at # "show" => Target \in Up
    BY <1>7, <2>1 DEF Up, Nodes
  <2>. QED
    BY <1>2, <1>7, <1>8, <2>2 DEF SwitchesTyped
<1>9. CASE InstallQuadra
  <2>1. DOMAIN job = {"at", "todo", "swix", "fault", "restarted"}
    BY DEF JobInv, JobShape
  <2>2. CASE StartInstall(Resolve(Seen(TRUE))) /\ UNCHANGED <<nodes, ext, agent>>
    <3>1. DOMAIN job' = DOMAIN job /\ job'.swix = Resolve(Seen(TRUE))
      BY <2>1, <2>2 DEF StartInstall, NoJob
    <3>. QED
      BY <1>2, <2>2, <3>1, ResolveIs DEF SwitchesTyped
  <2>3. CASE (InstallStep \/ CallFails) /\ UNCHANGED nodes
    <3>1. job'.swix = job.swix /\ DOMAIN job' = DOMAIN job
      BY <2>1, <2>3 DEF InstallStep, ShowExtensions, CopyToFlash, InstallExtension, ShowAgent, StartAgent,
         CallFails, Goto, NextSwitch
    <3>. QED
      BY <1>8, <2>3, <3>1 DEF InstallStep, ShowExtensions, CopyToFlash, InstallExtension, ShowAgent,
         StartAgent, CallFails, Installing, Steps
  <2>4. CASE job' = NoJob /\ UNCHANGED <<nodes, ext, agent>>
    BY <1>2, <2>4 DEF NoJob, SwitchesTyped
  <2>. QED
    BY <1>9, <2>2, <2>3, <2>4 DEF InstallQuadra
<1>10. CASE RestartSwitch
  <2>1. PICK n \in Ceos : Restart(n) /\ UNCHANGED nodes
    BY <1>10 DEF RestartSwitch
  <2>2. job'.swix = job.swix /\ DOMAIN job' = DOMAIN job
    BY <2>1 DEF Restart, JobInv, JobShape
  <2>. QED
    BY <1>8, <2>1, <2>2 DEF Restart
<1>11. CASE ~(DeployKmes \/ DeployAll \/ RunInstallExecs \/ DestroyLab \/ InstallQuadra \/ RestartSwitch)
  <2>1. UNCHANGED <<nodes, ext, agent, job>>
    BY <1>11 DEF Next, Begin, GenTopoStep, FileRule, RenderFile, RenderTopology, ResolveBind, ValidateTopo,
       WaitKmePool, RemoveFiles, Die, DropSwix, EditTemplate, vars, quadraVars,
       GenerateRadsecPki, EnsureCa, NewLeafKey, SignLeaf, MarkLeaf, CopyLeaf
  <2>. QED
    BY <1>1, <1>2, <2>1
<1>. QED
  BY <1>4, <1>5, <1>6, <1>9, <1>10, <1>11

\* Type correctness, of what is rendered and of what was created from it.
THEOREM LabTypes == Spec => []TypeOK
<1> DEFINE Inv == Typed /\ StagedInv /\ PkiInv
<1>1. Init => Inv
  <2> SUFFICES ASSUME Init PROVE Inv
    OBVIOUS
  <2>2. FilesTyped /\ NodesTyped
    BY LabBounds DEF Init, FilesTyped, NodesTyped, Up, Versions, NoSwix
  <2>3. SwitchesTyped
    BY LabBounds DEF Init, SwitchesTyped, Versions, NoSwix, NoJob
  <2>4. InvTyped
    BY LabBounds DEF Init, InvTyped, AllFields, Unset, Todo, Versions, NoSwix
  <2>5. StagedInv /\ PkiInv
    BY DEF Init, StagedInv, Todo, NoWork, PkiInv, Vouches
  <2>. QED
    BY <2>2, <2>3, <2>4, <2>5 DEF Typed
<1>2. IInv /\ Inv /\ [Next]_vars => Inv'
  BY StagedStep, FilesTypedStep, NodesTypedStep, SwitchesTypedStep, InvTypedStep, PkiStep DEF IInv, Typed
<1>3. IInv /\ Inv => TypeOK
  BY TypedIsTypeOK DEF IInv
<1>. QED
  BY <1>1, <1>2, <1>3, LabInvariant, PTL DEF Spec

-------------------------------------------------------------------------------
(* The targets that begin with gen-topo, and what is true along their lists  *)
(* of steps.                                                                 *)

GenTargets == {"gen-topo", "deploy", "redeploy"}
Working == Running /\ inv.target \in GenTargets

Rendering == {"gen", "bind"} \cup Artifacts
Has(t, X) == \E i \in DOMAIN t : t[i] \in X
Precedes(t, X, Y) == \A i, j \in DOMAIN t : t[i] \in X /\ t[j] \in Y => i < j

\* All rendering comes before everything else, the validation before anything
\* that destroys or starts a node, and a deployment ends with its full stage.
PlanSeq(t, x) ==
    /\ \A i \in DOMAIN t : t[i] = "gen" => i = 1
    /\ Has(t, {"gen"}) => ~Has(t, Rendering \ {"gen"})
    /\ Has(t, Rendering) => Has(t, {"validate"})
    /\ Precedes(t, Rendering, StepNames \ Rendering)
    /\ Precedes(t, {"bind"}, {"topo"})
    /\ Precedes(t, {"validate"}, {"destroy"} \cup Starting)
    /\ ~Has(t, {"install"})
    /\ x # "gen-topo" => t[Len(t)] = "full"
PlanInv == Working => PlanSeq(Todo, inv.target)

\* What this invocation has rendered is as its settings and the template say,
\* the certificates as their markers can be trusted, and newer than the
\* templates: make has no reason to render it again.
Fresh(a) ==
    /\ a \notin outdated
    /\ IF a = "pki" THEN ArtifactAsAsked(a)
       ELSE files[a] = [from |-> inv.set, sound |-> template.of # a] /\ Renderable(a)
PendingInv ==
    Working /\ ~Has(Todo, {"gen"}) => \A a \in Artifacts : Has(Todo, {a}) \/ Fresh(a)

\* The lookups of the QuaDRA file agree unless one was dropped in between.
Found == Resolve(inv.override)
Dropped == inv.override = "unset" /\ inv.seen < newest
LookupInv ==
    Working /\ ~Has(Todo, {"gen"}) =>
        /\ inv.passing
        /\ ~Has(Todo, {"bind"}) => inv.bind = Found \/ Dropped
        /\ ~Has(Todo, {"topo"}) => swix = Inject(Found, Found) \/ Dropped

\* What the validation has accepted.
Accepted == (\A a \in Artifacts : Fresh(a) /\ ArtifactAsAsked(a)) /\ swix.bind = swix.exec
AcceptedInv == Working /\ ~Has(Todo, {"validate"}) => Accepted

\* The nodes that were not there before were created from what was accepted.
AsAsked(n) ==
    /\ Fits("topo", nodes[n].topo, inv.set)
    /\ Fits(OwnFile(n), nodes[n].own, inv.set)
    /\ nodes[n].bind = nodes[n].exec
NodesInv == Working /\ inv.target # "gen-topo" => \A n \in Up \ inv.old : AsAsked(n)

PlanParts == PlanInv /\ PendingInv /\ LookupInv /\ AcceptedInv /\ NodesInv

LEMMA HasTail ==
    ASSUME NEW t \in Seq(StepNames), t # <<>>, NEW X
    PROVE  /\ Has(Tail(t), X) => Has(t, X)
           /\ Has(t, X) /\ Head(t) \notin X => Has(Tail(t), X)
<1>1. \A x : Lasts(Tail(t), x) => Lasts(t, x)
  BY LastsTail
<1>2. \A x : Lasts(t, x) /\ Head(t) # x => Lasts(Tail(t), x)
  BY LastsTail
<1>. QED
  BY <1>1, <1>2 DEF Has, Lasts

LEMMA PrecedesTail ==
    ASSUME NEW t \in Seq(StepNames), t # <<>>, NEW X, NEW Y, Precedes(t, X, Y)
    PROVE  Precedes(Tail(t), X, Y)
<1>1. \A i \in DOMAIN Tail(t) : i \in Nat /\ i + 1 \in DOMAIN t /\ Tail(t)[i] = t[i + 1]
  BY TailIs
<1>. QED
  BY <1>1 DEF Precedes

\* What the first step tells of those that follow.
LEMMA HeadTells ==
    ASSUME NEW t \in Seq(StepNames), t # <<>>, NEW x, PlanSeq(t, x)
    PROVE  /\ Head(t) \in StepNames /\ Head(t) # "install"
           /\ Head(t) \notin Rendering => ~Has(t, Rendering)
           /\ Head(t) = "topo" => ~Has(t, {"bind"})
           /\ Head(t) \in {"destroy"} \cup Starting => ~Has(t, {"validate"})
           /\ ~Has(Tail(t), {"gen"})
           /\ Head(t) # "gen" => ~Has(t, {"gen"})
           /\ x # "gen-topo" /\ Len(t) = 1 => Head(t) = "full"
<1>1. /\ 1 \in DOMAIN t /\ Head(t) = t[1] /\ t[1] \in StepNames
      /\ DOMAIN t = 1 .. Len(t) /\ Len(t) \in Nat \ {0}
      /\ \A i \in DOMAIN t : i \in Nat /\ i >= 1
      /\ \A i \in DOMAIN Tail(t) : i \in Nat \ {0} /\ i + 1 \in DOMAIN t /\ Tail(t)[i] = t[i + 1]
  BY TailIs
<1>2. Head(t) \notin Rendering => ~Has(t, Rendering)
  BY <1>1 DEF PlanSeq, Precedes, Has
<1>3. Head(t) = "topo" => ~Has(t, {"bind"})
  BY <1>1 DEF PlanSeq, Precedes, Has
<1>4. Head(t) \in {"destroy"} \cup Starting => ~Has(t, {"validate"})
  BY <1>1 DEF PlanSeq, Precedes, Has
<1>5. ~Has(Tail(t), {"gen"}) /\ (Head(t) # "gen" => ~Has(t, {"gen"}))
  BY <1>1 DEF PlanSeq, Has
<1>6. Head(t) # "install" /\ (x # "gen-topo" /\ Len(t) = 1 => Head(t) = "full")
  BY <1>1 DEF PlanSeq, Has
<1>. QED
  BY <1>1, <1>2, <1>3, <1>4, <1>5, <1>6

LEMMA PlanTail ==
    ASSUME NEW t \in Seq(StepNames), t # <<>>, Tail(t) # <<>>, NEW x, PlanSeq(t, x)
    PROVE  PlanSeq(Tail(t), x)
<1>1. /\ Precedes(Tail(t), Rendering, StepNames \ Rendering) /\ Precedes(Tail(t), {"bind"}, {"topo"})
      /\ Precedes(Tail(t), {"validate"}, {"destroy"} \cup Starting)
  BY PrecedesTail DEF PlanSeq
<1>2. ~Has(Tail(t), {"gen"})
  BY HeadTells
<1>3. Has(Tail(t), Rendering) => Has(Tail(t), {"validate"})
  <2>1. ASSUME Has(Tail(t), Rendering)
        PROVE  Has(t, Rendering)
    BY <2>1, HasTail
  <2>2. Has(t, Rendering) => Head(t) # "validate" /\ Has(t, {"validate"})
    BY HeadTells DEF PlanSeq, Rendering, Artifacts, Uses
  <2>. QED
    BY <2>1, <2>2, HasTail
<1>4. ~Has(Tail(t), {"install"})
  BY HasTail DEF PlanSeq
<1>5. x # "gen-topo" => Tail(t)[Len(Tail(t))] = "full"
  <2>1. Len(Tail(t)) = Len(t) - 1 /\ Len(t) \in Nat \ {0}
    BY TailIs
  <2>2. Len(t) - 1 # 0
    BY <2>1, EmptySeq, TailIs
  <2>3. Tail(t)[Len(t) - 1] = t[(Len(t) - 1) + 1]
    BY <2>1, <2>2, TailIs
  <2>. QED
    BY <2>1, <2>2, <2>3 DEF PlanSeq
<1>. QED
  BY <1>1, <1>2, <1>3, <1>4, <1>5 DEF PlanSeq, Has

LEMMA PlanStage ==
    ASSUME NEW t \in Seq(StepNames), t # <<>>, Head(t) = "kmeStage", NEW x, PlanSeq(t, x)
    PROVE  LET u == <<"kmeUp">> \o Tail(t) IN
           PlanSeq(u, x) /\ \A X : Has(u, X) => Has(t, X) \/ "kmeUp" \in X
<1> DEFINE u == <<"kmeUp">> \o Tail(t)
<1>1. /\ DOMAIN u = DOMAIN t /\ DOMAIN t = 1 .. Len(t) /\ Len(t) \in Nat \ {0}
      /\ u[1] = "kmeUp" /\ \A i \in 2 .. Len(t) : u[i] = t[i]
      /\ Len(u) = Len(t) /\ Head(t) = t[1]
  BY StageIs, TailIs
<1> HIDE DEF u
<1>2. \A i \in DOMAIN u : \/ i = 1 /\ u[i] = "kmeUp" /\ t[i] = "kmeStage"
                          \/ i \in 2 .. Len(t) /\ u[i] = t[i] /\ i \in DOMAIN t
  BY <1>1
<1>3. ~Has(t, Rendering) /\ ~Has(t, {"validate"}) /\ ~Has(t, {"install"})
  BY HeadTells DEF PlanSeq, Starting, Rendering, Artifacts, Uses
<1>4. \A X : Has(u, X) => Has(t, X) \/ "kmeUp" \in X
  BY <1>2 DEF Has
<1>5. ~Has(u, Rendering) /\ ~Has(u, {"validate"}) /\ ~Has(u, {"install"})
  BY <1>3, <1>4 DEF Rendering, Artifacts, Uses
<1>6. x # "gen-topo" => u[Len(u)] = "full"
  BY <1>1, <1>2 DEF PlanSeq
<1>. QED
  BY <1>4, <1>5, <1>6 DEF PlanSeq, Has, Precedes, Rendering, u

\* gen-topo puts the rendering in front.
LEMMA PlanGen ==
    ASSUME NEW t \in Seq(StepNames), t # <<>>, Head(t) = "gen", NEW x, PlanSeq(t, x)
    PROVE  LET u == RenderSteps \o Tail(t) IN
           /\ PlanSeq(u, x) /\ ~Has(u, {"gen"}) /\ Has(u, {"bind"}) /\ Has(u, {"validate"})
           /\ \A a \in Artifacts : Has(u, {a})
<1> DEFINE u == RenderSteps \o Tail(t)
<1>1. /\ Len(t) \in Nat \ {0} /\ DOMAIN t = 1 .. Len(t) /\ DOMAIN u = 1 .. Len(t) + 7
      /\ \A i \in 2 .. Len(t) : u[i + 7] = t[i]
      /\ u \in Seq(StepNames) /\ u # <<>>
  BY PrefixIs
<1>2. \A i \in 1 .. 8 : u[i] = RenderSteps[i]
  <2>1. RenderSteps \in Seq(StepNames) /\ Len(RenderSteps) = 8
    BY RenderStepsAre
  <2>2. \A i \in DOMAIN RenderSteps : u[i] = RenderSteps[i]
    <3>1. Tail(t) \in Seq(StepNames)
      BY TailIs
    <3>2. \A i \in DOMAIN RenderSteps : i \in DOMAIN u /\ u[i] = RenderSteps[i]
      BY <2>1, <3>1, JoinIs, Zenon
    <3>. QED
      BY <3>2, Zenon
  <2>3. DOMAIN RenderSteps = 1 .. 8
    BY <2>1, LenProperties
  <2> HIDE DEF u
  <2>. QED
    BY <2>2, <2>3
<1>3. Len(u) = Len(t) + 7
  BY <1>1, LenProperties
<1> HIDE DEF u
<1>4. /\ u[1] = "ceos" /\ u[2] = "radius" /\ u[3] = "pki" /\ u[4] = "kmepki" /\ u[5] = "kmeconf"
      /\ u[6] = "bind" /\ u[7] = "topo" /\ u[8] = "annot"
  BY <1>2 DEF RenderSteps
<1>5. Artifacts = {"ceos", "radius", "pki", "kmepki", "kmeconf", "topo", "annot"}
  BY DEF Artifacts, Uses
<1>6. \A i \in DOMAIN u : i \in 1 .. 8 \/ (i - 7 \in 2 .. Len(t) /\ u[i] = t[i - 7] /\ i > 8)
  <2>1. SUFFICES ASSUME NEW i \in DOMAIN u, i \notin 1 .. 8
                 PROVE  i - 7 \in 2 .. Len(t) /\ u[i] = t[i - 7] /\ i > 8
    OBVIOUS
  <2>2. i - 7 \in 2 .. Len(t) /\ (i - 7) + 7 = i /\ i > 8
    BY <1>1, <2>1
  <2>3. u[(i - 7) + 7] = t[i - 7]
    BY <1>1, <2>2
  <2>. QED
    BY <2>2, <2>3
<1>7. 1 \in DOMAIN t /\ t[1] = "gen" /\ Has(t, {"gen"}) /\ Has(t, Rendering)
  BY <1>1, TailIs DEF Has, Rendering
<1>8. \A i \in 2 .. Len(t) : i \in DOMAIN t /\ t[i] \notin Rendering /\ t[i] # "install"
  <2>1. \A i \in 2 .. Len(t) : i \in DOMAIN t /\ i # 1
    BY <1>1
  <2>. QED
    BY <1>7, <2>1 DEF PlanSeq, Has, Rendering
<1>9. \A i \in 1 .. 8 : i \in DOMAIN u /\ u[i] \in {"bind"} \cup Artifacts
  <2>1. \A i \in 1 .. 8 : i \in DOMAIN u
    BY <1>1
  <2>. QED
    BY <1>4, <1>5, <2>1
<1>10. \A i \in DOMAIN u : \/ i \in 1 .. 8 /\ u[i] \in {"bind"} \cup Artifacts
                           \/ i > 8 /\ i - 7 \in DOMAIN t /\ u[i] = t[i - 7]
                              /\ u[i] \notin Rendering /\ u[i] # "install"
  BY <1>6, <1>8, <1>9
<1>11. ~Has(u, {"gen"}) /\ ~Has(u, {"install"})
  BY <1>5, <1>10 DEF Has, Rendering
<1>12. Precedes(u, Rendering, StepNames \ Rendering)
  BY <1>10, <1>1 DEF Precedes, Rendering
<1>13. Precedes(u, {"bind"}, {"topo"})
  <2>1. \A i \in DOMAIN u : (u[i] = "bind" => i = 6) /\ (u[i] = "topo" => i = 7)
    BY <1>4, <1>10, <1>5 DEF Rendering
  <2>. QED
    BY <2>1 DEF Precedes
<1>14. Precedes(u, {"validate"}, {"destroy"} \cup Starting)
  <2>1. \A i \in DOMAIN u : u[i] \in {"validate", "destroy"} \cup Starting =>
                              i - 7 \in DOMAIN t /\ u[i] = t[i - 7] /\ i \in Nat
    BY <1>10, <1>5, <1>1 DEF Starting
  <2>. QED
    BY <2>1 DEF PlanSeq, Precedes
<1>15. x # "gen-topo" => u[Len(u)] = "full"
  <2>1. SUFFICES ASSUME x # "gen-topo"
                 PROVE  u[Len(u)] = "full"
    OBVIOUS
  <2>2. t[Len(t)] = "full"
    BY <2>1 DEF PlanSeq
  <2>3. Len(t) \in 2 .. Len(t)
    BY <1>1, <1>7, <2>2
  <2>. QED
    BY <1>1, <1>3, <2>2, <2>3
<1>16. Has(u, {"validate"})
  <2>1. PICK i \in DOMAIN t : t[i] = "validate"
    BY <1>7 DEF PlanSeq, Has
  <2>2. i \in 2 .. Len(t) /\ i + 7 \in DOMAIN u
    BY <1>1, <1>7, <2>1
  <2>. QED
    BY <1>1, <2>1, <2>2 DEF Has
<1>17. Has(u, {"bind"}) /\ \A a \in Artifacts : Has(u, {a})
  BY <1>4, <1>5, <1>9 DEF Has
<1>. QED
  BY <1>11, <1>12, <1>13, <1>14, <1>15, <1>16, <1>17 DEF PlanSeq, Has, u

\* The lists of the three targets, as the Makefile puts them together.
LEMMA RecipeIsPlanned ==
    ASSUME NEW t \in Seq(StepNames), NEW x, Len(t) >= 3,
           t[1] = "gen", t[2] = "rule", t[3] = "validate",
           \A i \in 4 .. Len(t) :
              t[i] \in {"rule", "destroy", "configRule", "kmeStage", "pool", "full"},
           x # "gen-topo" => t[Len(t)] = "full"
    PROVE  PlanSeq(t, x)
<1>1. DOMAIN t = 1 .. Len(t) /\ Len(t) \in Nat
  BY LenProperties
<1>2. \A i \in DOMAIN t : \/ i = 1 /\ t[i] = "gen"
                          \/ i = 2 /\ t[i] = "rule"
                          \/ i = 3 /\ t[i] = "validate"
                          \/ i > 3 /\ t[i] \in {"rule", "destroy", "configRule", "kmeStage", "pool", "full"}
  BY <1>1
<1>3. \A i \in DOMAIN t : i \in Nat /\ (t[i] \in Rendering <=> i = 1) /\ (t[i] = "gen" <=> i = 1)
  BY <1>1, <1>2 DEF Rendering, Artifacts, Uses
<1>4. Has(t, {"validate"})
  BY <1>1 DEF Has
<1>5. ~Has(t, {"install"}) /\ (Has(t, {"gen"}) => ~Has(t, Rendering \ {"gen"}))
  BY <1>2, <1>3 DEF Has
<1>6. /\ Precedes(t, Rendering, StepNames \ Rendering) /\ Precedes(t, {"bind"}, {"topo"})
  BY <1>1, <1>2, <1>3 DEF Precedes
<1>7. Precedes(t, {"validate"}, {"destroy"} \cup Starting)
  BY <1>1, <1>2 DEF Precedes, Starting
<1>. QED
  BY <1>3, <1>4, <1>5, <1>6, <1>7 DEF PlanSeq

LEMMA DeployIs ==
    LET u == GenTopo \o Deploy IN
    /\ u \in Seq(StepNames) /\ Len(u) = 8
    /\ u[1] = "gen" /\ u[2] = "rule" /\ u[3] = "validate" /\ u[4] = "configRule" /\ u[5] = "rule"
    /\ u[6] = "kmeStage" /\ u[7] = "pool" /\ u[8] = "full"
<1> DEFINE u == GenTopo \o Deploy
<1>1. /\ GenTopo \in Seq(StepNames) /\ Deploy \in Seq(StepNames)
      /\ Len(GenTopo) = 3 /\ Len(Deploy) = 5
  BY PartsAre DEF Plain
<1>2. /\ u \in Seq(StepNames) /\ Len(u) = Len(GenTopo) + Len(Deploy)
      /\ \A i \in 1 .. Len(GenTopo) + Len(Deploy) :
            u[i] = IF i <= Len(GenTopo) THEN GenTopo[i] ELSE Deploy[i - Len(GenTopo)]
  BY <1>1, ConcatProperties, Zenon
<1> HIDE DEF u
<1>3. u \in Seq(StepNames) /\ Len(u) = 8
      /\ \A i \in 1 .. 8 : u[i] = IF i <= 3 THEN GenTopo[i] ELSE Deploy[i - 3]
  BY <1>1, <1>2
<1>4. /\ u[1] = GenTopo[1] /\ u[2] = GenTopo[2] /\ u[3] = GenTopo[3] /\ u[4] = Deploy[1]
      /\ u[5] = Deploy[2] /\ u[6] = Deploy[3] /\ u[7] = Deploy[4] /\ u[8] = Deploy[5]
  BY <1>3
<1>. QED
  BY <1>3, <1>4, PartsAre DEF u

LEMMA RedeployIs ==
    /\ Redeploy \in Seq(StepNames) /\ Len(Redeploy) = 10
    /\ Redeploy[1] = "gen" /\ Redeploy[2] = "rule" /\ Redeploy[3] = "validate"
    /\ Redeploy[4] = "rule" /\ Redeploy[5] = "destroy" /\ Redeploy[6] = "configRule"
    /\ Redeploy[7] = "rule" /\ Redeploy[8] = "kmeStage" /\ Redeploy[9] = "pool"
    /\ Redeploy[10] = "full"
<1> DEFINE s == GenTopo \o Destroy
           u == s \o Deploy
<1>1. /\ GenTopo \in Seq(StepNames) /\ Deploy \in Seq(StepNames) /\ Destroy \in Seq(StepNames)
      /\ Len(GenTopo) = 3 /\ Len(Destroy) = 2 /\ Len(Deploy) = 5
  BY PartsAre DEF Plain
<1>2. /\ s \in Seq(StepNames) /\ Len(s) = Len(GenTopo) + Len(Destroy)
      /\ \A i \in 1 .. Len(GenTopo) + Len(Destroy) :
            s[i] = IF i <= Len(GenTopo) THEN GenTopo[i] ELSE Destroy[i - Len(GenTopo)]
  BY <1>1, ConcatProperties, Zenon
<1> HIDE DEF s
<1>3. s \in Seq(StepNames) /\ Len(s) = 5
      /\ \A i \in 1 .. 5 : s[i] = IF i <= 3 THEN GenTopo[i] ELSE Destroy[i - 3]
  BY <1>1, <1>2
<1>4. /\ u \in Seq(StepNames) /\ Len(u) = Len(s) + Len(Deploy)
      /\ \A i \in 1 .. Len(s) + Len(Deploy) :
            u[i] = IF i <= Len(s) THEN s[i] ELSE Deploy[i - Len(s)]
  BY <1>1, <1>3, ConcatProperties, Zenon
<1> HIDE DEF u
<1>5. u \in Seq(StepNames) /\ Len(u) = 10
      /\ \A i \in 1 .. 10 : u[i] = IF i <= 5 THEN s[i] ELSE Deploy[i - 5]
  BY <1>1, <1>3, <1>4
<1>6. /\ u[1] = s[1] /\ u[2] = s[2] /\ u[3] = s[3] /\ u[4] = s[4] /\ u[5] = s[5]
      /\ u[6] = Deploy[1] /\ u[7] = Deploy[2] /\ u[8] = Deploy[3]
      /\ u[9] = Deploy[4] /\ u[10] = Deploy[5]
  BY <1>5
<1>7. /\ s[1] = GenTopo[1] /\ s[2] = GenTopo[2] /\ s[3] = GenTopo[3]
      /\ s[4] = Destroy[1] /\ s[5] = Destroy[2]
  BY <1>3
<1>8. Redeploy = u
  BY DEF Redeploy, u, s
<1>. QED
  BY <1>5, <1>6, <1>7, <1>8, PartsAre

LEMMA RecipesPlanned ==
    /\ \A x \in GenTargets : PlanSeq(Recipe[x], x) /\ Has(Recipe[x], {"gen"})
    /\ \A x \in Targets : "gen" \in ToSet(Recipe[x]) => x \in GenTargets
<1>1. ASSUME NEW x, NEW t \in Seq(StepNames), Len(t) >= 3,
             t[1] = "gen", t[2] = "rule", t[3] = "validate",
             \A i \in 4 .. Len(t) :
                t[i] \in {"rule", "destroy", "configRule", "kmeStage", "pool", "full"},
             x # "gen-topo" => t[Len(t)] = "full"
      PROVE  PlanSeq(t, x) /\ Has(t, {"gen"})
  <2>1. PlanSeq(t, x)
    BY <1>1, RecipeIsPlanned
  <2>2. 1 \in DOMAIN t
    BY <1>1, LenProperties
  <2>. QED
    BY <1>1, <2>1, <2>2 DEF Has
<1>2. PlanSeq(Recipe["gen-topo"], "gen-topo") /\ Has(Recipe["gen-topo"], {"gen"})
  <2>1. Recipe["gen-topo"] = GenTopo /\ GenTopo \in Seq(StepNames)
    BY PartsAre DEF Recipe, Plain
  <2>2. Len(GenTopo) = 3
    BY PartsAre
  <2>3. \A i \in 4 .. Len(GenTopo) :
           GenTopo[i] \in {"rule", "destroy", "configRule", "kmeStage", "pool", "full"}
    BY <2>2
  <2>4. Len(GenTopo) >= 3 /\ GenTopo[1] = "gen" /\ GenTopo[2] = "rule" /\ GenTopo[3] = "validate"
    BY <2>2, PartsAre
  <2>. QED
    BY <1>1, <2>1, <2>3, <2>4, Zenon
<1>3. PlanSeq(Recipe["deploy"], "deploy") /\ Has(Recipe["deploy"], {"gen"})
  <2> DEFINE u == GenTopo \o Deploy
  <2>1. Recipe["deploy"] = u
    BY DEF Recipe
  <2>2. /\ u \in Seq(StepNames) /\ Len(u) = 8
        /\ u[1] = "gen" /\ u[2] = "rule" /\ u[3] = "validate" /\ u[4] = "configRule"
        /\ u[5] = "rule" /\ u[6] = "kmeStage" /\ u[7] = "pool" /\ u[8] = "full"
    BY DeployIs, Zenon
  <2> HIDE DEF u
  <2>3. \A i \in 4 .. Len(u) :
           u[i] \in {"rule", "destroy", "configRule", "kmeStage", "pool", "full"}
    <3>1. \A i \in 4 .. Len(u) : i \in {4, 5, 6, 7, 8}
      BY <2>2
    <3>. QED
      BY <2>2, <3>1
  <2>4. Len(u) >= 3 /\ ("deploy" # "gen-topo" => u[Len(u)] = "full")
    BY <2>2
  <2>. QED
    BY <1>1, <2>1, <2>2, <2>3, <2>4, Zenon
<1>4. PlanSeq(Recipe["redeploy"], "redeploy") /\ Has(Recipe["redeploy"], {"gen"})
  <2>1. Recipe["redeploy"] = Redeploy
    BY DEF Recipe
  <2>2. \A i \in 4 .. Len(Redeploy) :
           Redeploy[i] \in {"rule", "destroy", "configRule", "kmeStage", "pool", "full"}
    <3>1. \A i \in 4 .. Len(Redeploy) : i \in {4, 5, 6, 7, 8, 9, 10}
      BY RedeployIs
    <3>. QED
      BY RedeployIs, <3>1
  <2>3. Len(Redeploy) >= 3 /\ ("redeploy" # "gen-topo" => Redeploy[Len(Redeploy)] = "full")
    BY RedeployIs
  <2>. QED
    BY <1>1, <2>1, <2>2, <2>3, RedeployIs, Zenon
<1>5. ASSUME NEW x \in Targets, x \notin GenTargets
      PROVE  "gen" \notin ToSet(Recipe[x])
  <2>1. \/ Recipe[x] = <<"rule", "validate">> \/ Recipe[x] = DeployKme \/ Recipe[x] = Destroy
        \/ Recipe[x] = <<"destroy", "rmGen", "rmTopo">> \/ Recipe[x] = <<"install">>
    BY <1>5 DEF Targets, Recipe, GenTargets
  <2>. QED
    BY <2>1 DEF DeployKme, Destroy, ToSet
<1>. QED
  BY <1>2, <1>3, <1>4, <1>5 DEF GenTargets

-------------------------------------------------------------------------------
(* The plan is kept.                                                        *)

\* What the plan says of the step that is next.
LEMMA NextStepTells ==
    ASSUME Shapes, PlanParts, Working
    PROVE  /\ Todo \in Seq(StepNames) /\ Todo # <<>> /\ PlanSeq(Todo, inv.target)
           /\ Head(Todo) \in StepNames
           /\ Head(Todo) # "gen" => ~Has(Todo, {"gen"})
           /\ Head(Todo) \notin Rendering =>
                 ~Has(Todo, {"bind"}) /\ ~Has(Todo, {"topo"}) /\ \A a \in Artifacts : Fresh(a)
           /\ Head(Todo) \in {"destroy"} \cup Starting => Accepted
<1>1. Todo \in Seq(StepNames) /\ Todo # <<>> /\ PlanSeq(Todo, inv.target)
  BY DEF Working, Shapes, PlanParts, PlanInv
<1>2. Head(Todo) \in StepNames /\ (Head(Todo) # "gen" => ~Has(Todo, {"gen"}))
  BY <1>1, HeadTells
<1>3. ASSUME Head(Todo) \notin Rendering
      PROVE  /\ ~Has(Todo, {"bind"}) /\ ~Has(Todo, {"topo"})
             /\ \A a \in Artifacts : Fresh(a)
  <2>1. ~Has(Todo, Rendering) /\ ~Has(Todo, {"gen"})
    BY <1>1, <1>2, <1>3, HeadTells DEF Rendering
  <2>2. \A a \in Rendering : ~Has(Todo, {a})
    BY <2>1 DEF Has
  <2>3. {"bind", "topo"} \cup Artifacts \subseteq Rendering
    BY DEF Rendering, Artifacts, Uses
  <2>. QED
    BY <2>1, <2>2, <2>3 DEF PlanParts, PendingInv
<1>4. Head(Todo) \in {"destroy"} \cup Starting => Accepted
  BY <1>1, HeadTells DEF PlanParts, AcceptedInv
<1>. QED
  BY <1>1, <1>2, <1>3, <1>4

LEMMA FreshTells ==
    ASSUME NEW a, Fresh(a), a # "pki"
    PROVE  files[a].from = inv.set /\ files[a].sound = (template.of # a)
<1>1. ASSUME NEW r, NEW f, NEW b, r = [from |-> f, sound |-> b]
      PROVE  r.from = f /\ r.sound = b
  BY <1>1
<1>2. files[a] = [from |-> inv.set, sound |-> template.of # a]
  BY Zenon DEF Fresh
<1>. QED
  BY <1>1, <1>2, Zenon

LEMMA FreshIs ==
    ASSUME Shapes, NEW a \in Artifacts, Fresh(a)
    PROVE  files[a] # Nil /\ a \notin outdated /\ (a # "pki" => Current(a))
<1>1. CASE a = "pki"
  BY <1>1 DEF Fresh, ArtifactAsAsked, Current
<1>2. CASE a # "pki"
  <2> DEFINE R == [from |-> inv.set, sound |-> template.of # a]
  <2>1. R \in [from : Settings \cup {Nil}, sound : BOOLEAN]
    <3>1. (template.of # a) \in BOOLEAN
      OBVIOUS
    <3>. QED
      BY <3>1 DEF Shapes
  <2>2. files[a] = R /\ a \notin outdated
    BY <1>2, Zenon DEF Fresh
  <2> HIDE DEF R
  <2>3. files[a] # Nil
    BY <2>1, <2>2, LabAssumption DEF LabAssumption
  <2>. QED
    BY <1>2, <2>2, <2>3, FreshTells DEF Current, Fits
<1>. QED
  BY <1>1, <1>2

\* What is fresh and what is as asked depends on little.
LEMMA AskedStays ==
    ASSUME NEW a, files'[a] = files[a], broken' = broken, inv'.set = inv.set
    PROVE  ArtifactAsAsked(a)' <=> ArtifactAsAsked(a)
<1>1. Current(a)' <=> Current(a)
  BY DEF Current, Fits
<1>2. Mistrusted' <=> Mistrusted
  BY DEF Mistrusted, Fits
<1>. QED
  BY <1>1, <1>2 DEF ArtifactAsAsked

LEMMA FreshStays ==
    ASSUME NEW a, files'[a] = files[a], broken' = broken, inv'.set = inv.set,
           a \in outdated' <=> a \in outdated, template' = template
    PROVE  Fresh(a)' <=> Fresh(a)
<1>1. ArtifactAsAsked(a)' <=> ArtifactAsAsked(a)
  BY AskedStays
<1>. QED
  BY <1>1 DEF Fresh, Renderable

LEMMA AllStays ==
    ASSUME UNCHANGED <<files, broken, outdated, template>>, inv'.set = inv.set
    PROVE  /\ \A a : Fresh(a)' <=> Fresh(a)
           /\ \A a : ArtifactAsAsked(a)' <=> ArtifactAsAsked(a)
<1>1. ASSUME NEW a
      PROVE  (Fresh(a)' <=> Fresh(a)) /\ (ArtifactAsAsked(a)' <=> ArtifactAsAsked(a))
  BY FreshStays, AskedStays
<1>. QED
  BY <1>1

LEMMA OverKeeps == ASSUME ~Working' PROVE PlanParts'
  BY DEF PlanParts, PlanInv, PendingInv, LookupInv, AcceptedInv, NodesInv

LEMMA EndKeeps ==
    ASSUME Shapes, NEW r \in {"ok", "failed", "invalid", "rejected", "died"}, End(r)
    PROVE  PlanParts'
<1>1. inv'.result = r
  BY DEF End, Shapes, Fields
<1>. QED
  BY <1>1, OverKeeps DEF Working, Running

\* A begun invocation has everything before it.
LEMMA BeginKeeps ==
    ASSUME Shapes, Begin
    PROVE  PlanParts'
<1>1. inv'.todo = Recipe[inv'.target] /\ inv'.old = Up /\ Up' = Up
  BY BeginIs DEF Up
<1> SUFFICES ASSUME Working' PROVE PlanParts'
  BY OverKeeps
<1>2. PlanSeq(Todo', inv'.target) /\ Has(Todo', {"gen"})
  BY <1>1, RecipesPlanned DEF Working, Todo
<1>3. Has(Todo', {"validate"})
  BY <1>2 DEF PlanSeq, Has, Rendering
<1>4. Has(Todo, {"gen"})' /\ Has(Todo, {"validate"})'
  BY <1>2, <1>3 DEF Has
<1>5. PlanSeq(Todo, inv.target)'
  BY <1>2 DEF PlanSeq, Has, Precedes
<1>. QED
  BY <1>1, <1>4, <1>5 DEF PlanParts, PlanInv, PendingInv, LookupInv, AcceptedInv, NodesInv

\* Nothing is done to the files, and the nodes go or come from accepted files.
LEMMA StaysKeeps ==
    ASSUME InvTyped, PlanParts, UNCHANGED <<files, outdated, broken, swix, template>>,
           \A f \in AllFields \ {"old"} : inv'[f] = inv[f],
           newest' = newest \/ newest' = newest + 1,
           \A n \in (Up \ inv.old)' :
              \/ n \in Up \ inv.old /\ nodes'[n] = nodes[n]
              \/ Working => AsAsked(n)'
    PROVE  PlanParts'
<1>1. /\ inv'.todo = inv.todo /\ inv'.target = inv.target /\ inv'.set = inv.set
      /\ inv'.override = inv.override /\ inv'.bind = inv.bind /\ inv'.seen = inv.seen
      /\ inv'.passing = inv.passing /\ inv'.result = inv.result
  BY DEF AllFields
<1>2. Working' = Working
  BY <1>1 DEF Working, Running
<1>3. \A a : (Fresh(a)' <=> Fresh(a)) /\ (ArtifactAsAsked(a)' <=> ArtifactAsAsked(a))
  BY <1>1, AllStays
<1>4. PlanInv'
  BY <1>1, <1>2 DEF PlanParts, PlanInv, Todo
<1>5. PendingInv'
  BY <1>1, <1>2, <1>3 DEF PlanParts, PendingInv, Todo
<1>6. (Found' = Found \/ Dropped') /\ (Dropped => Dropped')
  <2>1. newest \in Nat /\ inv.seen \in Nat /\ inv.seen <= newest
    BY LabBounds DEF InvTyped
  <2>2. inv.override = "unset" \/ Found' = Found
    BY <1>1, LabBounds DEF InvTyped, Found, Resolve
  <2>3. CASE newest' = newest
    BY <1>1, <2>3 DEF Found, Resolve, Dropped
  <2>4. CASE newest' = newest + 1
    BY <1>1, <2>1, <2>2, <2>4 DEF Dropped
  <2>. QED
    BY <2>3, <2>4
<1>7. LookupInv'
  BY <1>1, <1>2, <1>6 DEF PlanParts, LookupInv, Todo, Inject
<1>8. AcceptedInv'
  BY <1>1, <1>2, <1>3 DEF PlanParts, AcceptedInv, Accepted, Todo
<1>9. NodesInv'
  BY <1>1, <1>2 DEF PlanParts, NodesInv, AsAsked, Fits
<1>. QED
  BY <1>4, <1>5, <1>7, <1>8, <1>9 DEF PlanParts

\* A step that renders nothing is done.
LEMMA TailKeeps ==
    ASSUME Shapes, InvTyped, PlanParts, Running, UNCHANGED <<files, outdated, broken, swix, template, newest, nodes>>,
           Done, Working => Head(Todo) \notin Rendering,
           Working /\ Head(Todo) = "validate" => Accepted
    PROVE  PlanParts'
<1>1. CASE Len(Todo) = 1
  BY <1>1, EndKeeps DEF Done, Todo
<1>2. CASE Len(Todo) # 1
  <2>1. inv' = [inv EXCEPT !.todo = Tail(Todo)]
    BY <1>2 DEF Done, Todo
  <2>2. Tail(Todo) # <<>>
    BY <1>2, <2>1, TailMoves DEF Shrinks, Todo
  <2>3. /\ inv'.todo = Tail(Todo)
        /\ \A f \in AllFields \ {"todo"} : inv'[f] = inv[f]
    BY <2>1 DEF InvTyped, AllFields
  <2>4. /\ inv'.target = inv.target /\ inv'.set = inv.set /\ inv'.old = inv.old
        /\ inv'.override = inv.override /\ inv'.bind = inv.bind /\ inv'.seen = inv.seen
        /\ inv'.passing = inv.passing /\ inv'.result = inv.result
    BY <2>3 DEF AllFields
  <2> SUFFICES ASSUME Working PROVE PlanParts'
    BY <2>4, OverKeeps DEF Working, Running
  <2>5. /\ Todo \in Seq(StepNames) /\ Todo # <<>> /\ PlanSeq(Todo, inv.target)
        /\ ~Has(Todo, {"gen"}) /\ ~Has(Todo, {"bind"}) /\ ~Has(Todo, {"topo"})
        /\ \A a \in Artifacts : Fresh(a)
    BY NextStepTells DEF Rendering
  <2>6. PlanSeq(Tail(Todo), inv.target)
    BY <2>2, <2>5, PlanTail
  <2>7. \A a : (Fresh(a)' <=> Fresh(a)) /\ (ArtifactAsAsked(a)' <=> ArtifactAsAsked(a))
    BY <2>4, AllStays
  <2>8. PlanInv'
    BY <2>3, <2>4, <2>6 DEF PlanInv, Todo
  <2>9. PendingInv'
    BY <2>5, <2>7 DEF PendingInv
  <2>10. LookupInv'
    BY <2>4, <2>5 DEF PlanParts, LookupInv, Found, Resolve, Dropped, Inject
  <2>11. AcceptedInv'
    <3>1. Has(Todo, {"validate"}) /\ Head(Todo) # "validate" => Has(Tail(Todo), {"validate"})
      BY <2>5, HasTail
    <3>2. Has(Tail(Todo), {"validate"}) => Has(Todo, {"validate"})'
      BY <2>3 DEF Has, Todo
    <3>3. Accepted => Accepted'
      BY <2>7 DEF Accepted
    <3>. QED
      BY <3>1, <3>2, <3>3 DEF PlanParts, AcceptedInv
  <2>12. NodesInv'
    BY <2>4 DEF PlanParts, NodesInv, Up, AsAsked, Fits
  <2>. QED
    BY <2>8, <2>9, <2>10, <2>11, <2>12 DEF PlanParts
<1>. QED
  BY <1>1, <1>2

\* What stays when the list of steps is all that changes of the invocation, or
\* the result of the lookups with it.
LEMMA SameTarget ==
    ASSUME InvTyped, NEW F \in SUBSET {"todo", "passing", "seen", "bind"},
           \A f \in AllFields \ F : inv'[f] = inv[f]
    PROVE  /\ inv'.target = inv.target /\ inv'.set = inv.set /\ inv'.old = inv.old
           /\ inv'.override = inv.override /\ inv'.result = inv.result
           /\ Working' = Working
           /\ "bind" \notin F => inv'.bind = inv.bind
           /\ "seen" \notin F => inv'.seen = inv.seen
           /\ "passing" \notin F => inv'.passing = inv.passing
  BY DEF AllFields, Working, Running

\* gen-topo begins: everything is ahead.
LEMMA GenKeeps ==
    ASSUME Shapes, InvTyped, PlanParts, GenTopoStep
    PROVE  PlanParts'
<1>1. /\ inv' = [inv EXCEPT !.todo = RenderSteps \o Tail(Todo), !.passing = TRUE, !.seen = newest]
      /\ Running /\ Head(Todo) = "gen" /\ UNCHANGED nodes
  BY DEF GenTopoStep, Do, Todo
<1>2. /\ inv'.todo = RenderSteps \o Tail(Todo) /\ inv'.passing
      /\ \A f \in AllFields \ {"todo", "passing", "seen"} : inv'[f] = inv[f]
  BY <1>1 DEF InvTyped, AllFields
<1>3. inv'.target = inv.target /\ inv'.set = inv.set /\ inv'.old = inv.old /\ Working' = Working
  BY <1>2, SameTarget
<1> SUFFICES ASSUME Working PROVE PlanParts'
  BY <1>3, OverKeeps
<1> DEFINE u == RenderSteps \o Tail(Todo)
<1>4. Todo \in Seq(StepNames) /\ Todo # <<>> /\ PlanSeq(Todo, inv.target)
  BY NextStepTells
<1>5. /\ PlanSeq(u, inv.target) /\ Has(u, {"bind"}) /\ Has(u, {"validate"})
      /\ \A a \in Artifacts : Has(u, {a})
  BY <1>1, <1>4, PlanGen
<1>6. Todo' = u
  BY <1>2 DEF Todo
<1>7. "topo" \in Artifacts
  BY DEF Artifacts, Uses
<1> HIDE DEF u
<1>8. PlanInv' /\ PendingInv' /\ LookupInv' /\ AcceptedInv'
  BY <1>2, <1>3, <1>5, <1>6, <1>7 DEF PlanInv, PendingInv, LookupInv, AcceptedInv
<1>9. NodesInv'
  BY <1>1, <1>3 DEF PlanParts, NodesInv, Up, AsAsked, Fits
<1>. QED
  BY <1>8, <1>9 DEF PlanParts

\* A file is rendered from what is asked for now.
LEMMA WrittenKeeps ==
    ASSUME Shapes, InvTyped, PlanParts, NEW a \in Artifacts, Do(a), Done,
           \A b \in Artifacts \ {a} : files'[b] = files[b], outdated' = outdated \ {a},
           inv'.set = inv.set => Fresh(a)',
           UNCHANGED <<template, newest, nodes, broken>>,
           a # "topo" => swix' = swix,
           a = "topo" => swix' = Inject(inv.bind, Resolve(Seen(inv.passing)))
    PROVE  PlanParts'
<1>1. Running /\ Head(Todo) = a
  BY DEF Do, Todo
<1>3. CASE Len(Todo) = 1
  <2>1. End("ok")
    BY <1>3 DEF Done, Todo
  <2>. QED
    BY <2>1, EndKeeps
<1>4. CASE Len(Todo) # 1
  <2>1. inv' = [inv EXCEPT !.todo = Tail(Todo)]
    BY <1>4 DEF Done, Todo
  <2>2. Tail(Todo) # <<>>
    BY <1>1, <1>4, <2>1, TailMoves DEF Shrinks, Todo
  <2>3. inv'.todo = Tail(Todo) /\ \A f \in AllFields \ {"todo"} : inv'[f] = inv[f]
    BY <2>1 DEF InvTyped, AllFields
  <2>4. /\ inv'.target = inv.target /\ inv'.set = inv.set /\ inv'.old = inv.old
        /\ inv'.override = inv.override /\ inv'.bind = inv.bind /\ inv'.seen = inv.seen
        /\ inv'.passing = inv.passing /\ Working' = Working
    BY <2>3, SameTarget
  <2> SUFFICES ASSUME Working PROVE PlanParts'
    BY <2>4, OverKeeps
  <2>5. a \in Rendering /\ a # "gen" /\ a # "validate" /\ a # "bind"
    BY DEF Rendering, Artifacts, Uses
  <2>6. /\ Todo \in Seq(StepNames) /\ Todo # <<>> /\ PlanSeq(Todo, inv.target)
        /\ ~Has(Todo, {"gen"})
    BY <1>1, <2>5, NextStepTells
  <2>7. PlanSeq(Tail(Todo), inv.target)
    BY <2>2, <2>6, PlanTail
  <2>8. \A X : Has(Todo, X) /\ a \notin X => Has(Tail(Todo), X)
    BY <1>1, <2>6, HasTail
  <2>9. Has(Tail(Todo), {"validate"})
    <3>1. 1 \in DOMAIN Todo /\ Todo[1] = a
      BY <1>1, <2>6, TailIs
    <3>2. Has(Todo, {"validate"})
      BY <2>5, <2>6, <3>1 DEF PlanSeq, Has
    <3>. QED
      BY <2>5, <2>8, <3>2
  <2>10. Todo' = Tail(Todo)
    BY <2>3 DEF Todo
  <2>11. PlanInv'
    BY <2>4, <2>7, <2>10 DEF PlanInv
  <2>12. PendingInv'
    <3>2. Fresh(a)'
      BY <2>4
    <3>3. ASSUME NEW b \in Artifacts \ {a}
          PROVE  Fresh(b)' <=> Fresh(b)
      <4>1. files'[b] = files[b] /\ (b \in outdated' <=> b \in outdated)
        BY <3>3
      <4>. QED
        BY <2>4, <4>1, FreshStays
    <3>4. \A b \in Artifacts \ {a} : Has(Tail(Todo), {b}) \/ Fresh(b)
      BY <2>6, <2>8 DEF PlanParts, PendingInv
    <3>. QED
      BY <2>10, <3>2, <3>3, <3>4 DEF PendingInv
  <2>13. LookupInv'
    <3>1. /\ inv.passing
          /\ Has(Todo, {"bind"}) \/ inv.bind = Found \/ Dropped
          /\ Has(Todo, {"topo"}) \/ swix = Inject(Found, Found) \/ Dropped
      BY <2>6 DEF PlanParts, LookupInv
    <3>2. Found' = Found /\ Dropped' = Dropped
      BY <2>4 DEF Found, Resolve, Dropped
    <3>3. Has(Todo, {"bind"}) => Has(Tail(Todo), {"bind"})
      BY <2>5, <2>8
    <3>4. CASE a # "topo"
      <4>1. Has(Todo, {"topo"}) => Has(Tail(Todo), {"topo"})
        BY <2>8, <3>4
      <4>. QED
        BY <2>4, <2>10, <3>1, <3>2, <3>3, <3>4, <4>1 DEF LookupInv, Inject
    <3>5. CASE a = "topo"
      <4>1. ~Has(Todo, {"bind"})
        BY <1>1, <2>6, <3>5, HeadTells
      <4>2. swix' = Inject(inv.bind, Found)
        BY <3>1, <3>5 DEF Seen, Found
      <4>. QED
        BY <2>4, <2>10, <3>1, <3>2, <4>1, <4>2 DEF LookupInv, Inject
    <3>. QED
      BY <3>4, <3>5
  <2>14. AcceptedInv'
    BY <2>9, <2>10 DEF AcceptedInv
  <2>15. NodesInv'
    BY <2>4 DEF PlanParts, NodesInv, Up, AsAsked, Fits
  <2>. QED
    BY <2>11, <2>12, <2>13, <2>14, <2>15 DEF PlanParts
<1>. QED
  BY <1>3, <1>4

LEMMA RenderKeeps ==
    ASSUME Shapes, InvTyped, PlanParts, NEW a \in Artifacts \ {"pki"}, Do(a), Render(a),
           UNCHANGED <<template, newest, nodes, broken>>,
           a # "topo" => swix' = swix,
           a = "topo" /\ Renderable(a) => swix' = Inject(inv.bind, Resolve(Seen(inv.passing)))
    PROVE  PlanParts'
<1>1. CASE ~Renderable(a)
  <2>1. End("failed")
    BY <1>1 DEF Render
  <2>. QED
    BY <2>1, EndKeeps
<1>2. CASE Renderable(a)
  <2>1. /\ files' = [files EXCEPT ![a] = [from |-> inv.set, sound |-> template.of # a]]
        /\ outdated' = outdated \ {a} /\ Done /\ DOMAIN files = Artifacts
    BY <1>2 DEF Render, Shapes
  <2>2. inv'.set = inv.set => Fresh(a)'
    BY <1>2, <2>1 DEF Fresh, Renderable
  <2>3. \A b \in Artifacts \ {a} : files'[b] = files[b]
    BY <2>1
  <2>. QED
    BY <1>2, <2>1, <2>2, <2>3, WrittenKeeps
<1>. QED
  BY <1>1, <1>2

\* The certificates that are copied are what their marker says, when it can be
\* trusted.
LEMMA CopyKeeps ==
    ASSUME Shapes, InvTyped, PkiInv, PlanParts, CopyLeaf
    PROVE  PlanParts'
<1> DEFINE R == [from |-> work.crt, sound |-> work.key = "own" /\ work.chain]
<1>1. CASE End("failed")
  BY <1>1, EndKeeps
<1>2. CASE Done /\ outdated' = outdated \ {"pki"}
  <2>1. /\ Do("pki") /\ work.at = "copy" /\ files' = [files EXCEPT !["pki"] = R]
        /\ UNCHANGED <<template, newest, nodes, swix>> /\ "pki" \in Artifacts
    BY DEF CopyLeaf, Pki, Artifacts, Uses
  <2>2. broken' = broken
    BY <2>1 DEF CopyLeaf, Leave
  <2>3. files'["pki"] = R /\ \A b \in Artifacts \ {"pki"} : files'[b] = files[b]
    BY <2>1 DEF Shapes
  <2>4. R # Nil
    <3>1. R \in [from : Settings \cup {Nil}, sound : BOOLEAN]
      BY DEF Shapes, Works
    <3>. QED
      BY <3>1, LabAssumption DEF LabAssumption
  <2>5. ASSUME ~Mistrusted
        PROVE  Fits("pki", work.crt, inv.set) /\ work.key = "own" /\ work.chain
    <3>1. inv.set \in Settings
      BY <2>1, WorkHasSettings DEF Removing
    <3>2. Unfinished = broken
      BY <2>1 DEF Unfinished
    <3>3. Nil \notin broken /\ \A u \in broken : Fits("pki", u, inv.set)
      BY <2>5 DEF Mistrusted
    <3>4. Vouches(inv.set)
      BY <3>1, <3>2, <3>3 DEF PkiInv
    <3>5. LeafCurrent
      BY <2>1 DEF PkiInv
    <3>. QED
      BY <3>4, <3>5 DEF Vouches, LeafCurrent
  <2>6. inv'.set = inv.set => Fresh("pki")'
    <3>1. SUFFICES ASSUME inv'.set = inv.set PROVE Fresh("pki")'
      OBVIOUS
    <3>2. Mistrusted' <=> Mistrusted
      BY <2>2, <3>1 DEF Mistrusted, Fits
    <3>3. ~Mistrusted => Current("pki")' /\ files'["pki"].sound
      <4>1. R.from = work.crt /\ R.sound = (work.key = "own" /\ work.chain)
        OBVIOUS
      <4>2. files'["pki"] # Nil /\ files'["pki"].from = work.crt
        BY <2>3, <2>4, <4>1
      <4>3. Fits("pki", work.crt, inv.set) => Current("pki")'
        BY <3>1, <4>2 DEF Current, Fits
      <4>. QED
        BY <2>3, <2>5, <4>1, <4>3
    <3>4. ArtifactAsAsked("pki")'
      BY <2>3, <2>4, <3>2, <3>3 DEF ArtifactAsAsked
    <3>. QED
      BY <1>2, <3>4 DEF Fresh
  <2>. QED
    BY <1>2, <2>1, <2>2, <2>3, <2>6, WrittenKeeps
<1>. QED
  BY <1>1, <1>2 DEF CopyLeaf

\* The first lookup of the QuaDRA file.
LEMMA BindKeeps ==
    ASSUME Shapes, RenderInv, InvTyped, PlanParts, ResolveBind
    PROVE  PlanParts'
<1>1. /\ inv' = [inv EXCEPT !.todo = Tail(Todo), !.bind = Resolve(Seen(inv.passing))]
      /\ Running /\ Head(Todo) = "bind"
      /\ UNCHANGED <<nodes, files, outdated, broken, swix, template, newest>>
  BY DEF ResolveBind, Do, Todo, hostVars, pkiVars
<1>2. /\ inv'.todo = Tail(Todo) /\ inv'.bind = Resolve(Seen(inv.passing))
      /\ \A f \in AllFields \ {"todo", "bind"} : inv'[f] = inv[f]
  BY <1>1 DEF InvTyped, AllFields
<1>3. /\ inv'.target = inv.target /\ inv'.set = inv.set /\ inv'.old = inv.old
      /\ inv'.override = inv.override /\ inv'.seen = inv.seen
      /\ inv'.passing = inv.passing /\ Working' = Working
  BY <1>2, SameTarget
<1> SUFFICES ASSUME Working PROVE PlanParts'
  BY <1>3, OverKeeps
<1>4. /\ Todo \in Seq(StepNames) /\ Todo # <<>> /\ PlanSeq(Todo, inv.target)
      /\ ~Has(Todo, {"gen"})
  BY <1>1, NextStepTells
<1>5. \A X : Has(Todo, X) /\ "bind" \notin X => Has(Tail(Todo), X)
  BY <1>1, <1>4, HasTail
<1>6. Has(Tail(Todo), {"validate"})
  <2>1. 1 \in DOMAIN Todo /\ Todo[1] = "bind"
    BY <1>1, <1>4, TailIs
  <2>2. Has(Todo, {"validate"})
    BY <1>4, <2>1 DEF PlanSeq, Has, Rendering
  <2>. QED
    BY <1>5, <2>2
<1>7. Todo' = Tail(Todo) /\ Tail(Todo) # <<>>
  BY <1>2, <1>6 DEF Todo, Has
<1>8. PlanInv'
  <2>1. PlanSeq(Tail(Todo), inv.target)
    BY <1>4, <1>7, PlanTail
  <2>. QED
    BY <1>3, <1>7, <2>1 DEF PlanInv
<1>9. PendingInv'
  <2>1. \A a : Fresh(a)' <=> Fresh(a)
    BY <1>1, <1>3, AllStays
  <2>2. \A a \in Artifacts : a # "bind"
    BY DEF Artifacts, Uses
  <2>3. \A a \in Artifacts : Has(Tail(Todo), {a}) \/ Fresh(a)
    BY <1>4, <1>5, <2>2 DEF PlanParts, PendingInv
  <2>. QED
    BY <1>7, <2>1, <2>3 DEF PendingInv
<1>10. LookupInv'
  <2>1. inv.passing /\ (Has(Todo, {"topo"}) \/ swix = Inject(Found, Found) \/ Dropped)
    BY <1>4 DEF PlanParts, LookupInv
  <2>2. Found' = Found /\ Dropped' = Dropped /\ inv'.bind = Found
    BY <1>1, <1>2, <1>3, <2>1 DEF Found, Resolve, Dropped, Seen
  <2>. QED
    BY <1>1, <1>3, <1>5, <1>7, <2>1, <2>2 DEF LookupInv, Inject
<1>11. AcceptedInv'
  BY <1>6, <1>7 DEF AcceptedInv
<1>12. NodesInv'
  BY <1>1, <1>3 DEF PlanParts, NodesInv, Up, AsAsked, Fits
<1>. QED
  BY <1>8, <1>9, <1>10, <1>11, <1>12 DEF PlanParts

\* The file rule finds nothing to render: gen-topo has just done so.
LEMMA RuleKeeps ==
    ASSUME Shapes, InvTyped, PlanParts, FileRule
    PROVE  PlanParts'
<1>1. PICK step \in {"rule", "configRule"} :
        /\ Do(step)
        /\ IF template.how = "missing" THEN End("failed")
           ELSE IF \E a \in IF step = "rule" THEN {"topo"} ELSE RuleTargets \ {"topo"} : Stale(a)
           THEN Expand(RenderSteps, FALSE)
           ELSE Done
  BY DEF FileRule
<1>2. /\ Running /\ Head(Todo) = step /\ UNCHANGED <<files, outdated, broken, swix, template, newest, nodes>>
  BY <1>1 DEF FileRule, Do, Todo, hostVars, pkiVars
<1>3. Head(Todo) \notin Rendering /\ Head(Todo) # "validate"
  BY <1>2 DEF Rendering, Artifacts, Uses
<1>4. CASE Working
  <2>1. \A a \in Artifacts : Fresh(a)
    BY <1>3, <1>4, NextStepTells
  <2>2. \A a \in Artifacts : ~Stale(a)
    BY <2>1, FreshIs DEF Stale
  <2>3. End("failed") \/ Done
    BY <1>1, <2>2 DEF RuleTargets, Artifacts, Uses
  <2>. QED
    BY <1>2, <1>3, <2>3, EndKeeps, TailKeeps
<1>5. CASE ~Working
  <2>1. inv'.target = inv.target
    BY <1>1 DEF Done, End, Expand, Shapes, Fields
  <2>. QED
    BY <1>2, <1>5, <2>1, OverKeeps DEF Working
<1>. QED
  BY <1>4, <1>5

\* What the validation lets through is sound, also the annotations, which it
\* does not look at, and the QuaDRA files when there are none to compare.
LEMMA ValidIsAccepted ==
    ASSUME Shapes, InvTyped, FilesTyped, PlanParts, Working, Head(Todo) = "validate", ValidateTopology
    PROVE  Accepted
<1>1. /\ ~Has(Todo, {"gen"}) /\ ~Has(Todo, {"topo"})
      /\ \A a \in Artifacts : Fresh(a)
  BY NextStepTells DEF Rendering, Artifacts, Uses
<1>2. \A a \in Artifacts : ArtifactAsAsked(a)
  <2>1. files["ceos"].sound /\ files["radius"].sound /\ files["topo"].sound
    BY DEF ValidateTopology, ValidateCeosConfigs, ValidateRadiusConfigs
  <2>2. \A a \in Artifacts \ {"pki"} : files[a].sound = (template.of # a) /\ Renderable(a)
    BY <1>1, FreshTells, Zenon DEF Fresh
  <2>3. template.of \in {"none", "ceos", "radius", "topo"} \/ (template.of = "annot" /\ template.how = "missing")
    BY LabAssumption DEF LabAssumption, FilesTyped, Sound
  <2>4. Artifacts = {"ceos", "radius", "pki", "kmepki", "kmeconf", "topo", "annot"}
    BY DEF Artifacts, Uses
  <2>5. template.of # "annot"
    BY <2>2, <2>3, <2>4 DEF Renderable
  <2>6. \A a \in {"kmepki", "kmeconf", "annot"} : template.of # a
    BY <2>3, <2>5
  <2>7. ASSUME NEW a \in Artifacts, a # "pki"
        PROVE  files[a].sound
    <3>1. CASE a \in {"ceos", "radius", "topo"}
      BY <2>1, <3>1
    <3>2. CASE a \in {"kmepki", "kmeconf", "annot"}
      BY <2>2, <2>6, <3>2
    <3>. QED
      BY <2>4, <2>7, <3>1, <3>2
  <2>8. ASSUME NEW a \in Artifacts
        PROVE  ArtifactAsAsked(a)
    <3>1. CASE a = "pki"
      BY <1>1, <3>1 DEF Fresh
    <3>2. CASE a # "pki"
      BY <1>1, <2>7, <3>2, FreshIs DEF ArtifactAsAsked
    <3>. QED
      BY <3>1, <3>2
  <2>. QED
    BY <2>8
<1>3. swix.bind = swix.exec
  <2> DEFINE v == Resolve(Seen(FALSE))
  <2>1. v # NoSwix => swix = [bind |-> v, exec |-> v]
    BY DEF ValidateTopology, ValidateQuadra
  <2>2. swix = Inject(Found, Found) \/ Dropped
    BY <1>1 DEF PlanParts, LookupInv
  <2>3. Dropped => v # NoSwix
    BY LabBounds DEF Dropped, InvTyped, Seen, Resolve, NoSwix
  <2>4. swix = Inject(Found, Found) => swix.bind = swix.exec
    BY DEF Inject
  <2> HIDE DEF v
  <2>. QED
    BY <2>1, <2>2, <2>3, <2>4
<1>. QED
  BY <1>1, <1>2, <1>3 DEF Accepted

\* containerlab creates the nodes from what was accepted.
LEMMA CreateKeeps ==
    ASSUME Shapes, InvTyped, PlanParts, Running, Head(Todo) \in Starting,
           NEW ns \in SUBSET Nodes, Create(ns),
           UNCHANGED <<files, outdated, broken, swix, template, newest>>
    PROVE  PlanParts'
<1>1. inv' = inv
  BY DEF Create
<1>2. PICK n \in ns \ Up : nodes' = [nodes EXCEPT ![n] =
              [topo |-> files.topo.from, own |-> files[OwnFile(n)].from,
               bind |-> IF n \in Kmes THEN NoSwix ELSE swix.bind,
               exec |-> IF n \in Kmes THEN NoSwix ELSE swix.exec]]
  BY DEF Create
<1>3. DOMAIN nodes = Nodes
  BY DEF Shapes
<1>4. ASSUME Working
      PROVE  AsAsked(n)'
  <2>1. Accepted
    BY <1>4, NextStepTells
  <2>2. files["topo"].from = inv.set /\ files[OwnFile(n)].from = inv.set
    BY <2>1, FreshTells DEF Accepted, OwnFile, Artifacts, Uses
  <2>3. nodes'[n] = [topo |-> inv.set, own |-> inv.set,
                     bind |-> IF n \in Kmes THEN NoSwix ELSE swix.bind,
                     exec |-> IF n \in Kmes THEN NoSwix ELSE swix.exec]
    BY <1>2, <1>3, <2>2
  <2>. QED
    BY <1>1, <2>1, <2>3 DEF AsAsked, Fits, Accepted
<1>5. \A m \in Nodes \ {n} : nodes'[m] = nodes[m]
  BY <1>2, <1>3
<1>6. \A m \in (Up \ inv.old)' :
         \/ m \in Up \ inv.old /\ nodes'[m] = nodes[m]
         \/ Working => AsAsked(m)'
  BY <1>1, <1>4, <1>5 DEF Up
<1>. QED
  BY <1>1, <1>6, StaysKeeps

LEMMA StageKeeps ==
    ASSUME Shapes, InvTyped, PlanParts, Do("kmeStage"),
           inv' = [inv EXCEPT !.todo = <<"kmeUp">> \o Tail(@)],
           UNCHANGED <<files, outdated, broken, swix, template, newest, nodes>>
    PROVE  PlanParts'
<1> DEFINE u == <<"kmeUp">> \o Tail(Todo)
<1>1. /\ inv'.todo = u /\ \A f \in AllFields \ {"todo"} : inv'[f] = inv[f]
      /\ Running /\ Head(Todo) = "kmeStage"
  BY DEF InvTyped, AllFields, Do, Todo
<1>2. /\ inv'.target = inv.target /\ inv'.set = inv.set /\ inv'.old = inv.old
      /\ inv'.override = inv.override /\ inv'.bind = inv.bind /\ inv'.seen = inv.seen
      /\ inv'.passing = inv.passing /\ Working' = Working
  BY <1>1, SameTarget
<1> SUFFICES ASSUME Working PROVE PlanParts'
  BY <1>2, OverKeeps
<1>3. /\ Todo \in Seq(StepNames) /\ Todo # <<>> /\ PlanSeq(Todo, inv.target)
      /\ ~Has(Todo, {"gen"}) /\ ~Has(Todo, {"bind"}) /\ ~Has(Todo, {"topo"})
      /\ \A a \in Artifacts : Fresh(a)
      /\ Accepted
  BY <1>1, NextStepTells DEF Rendering, Artifacts, Uses, Starting
<1>4. PlanSeq(u, inv.target)
  BY <1>1, <1>3, PlanStage
<1>5. Todo' = u
  BY <1>1 DEF Todo
<1> HIDE DEF u
<1>6. \A a : (Fresh(a)' <=> Fresh(a)) /\ (ArtifactAsAsked(a)' <=> ArtifactAsAsked(a))
  BY <1>2, AllStays
<1>7. PlanInv'
  BY <1>2, <1>4, <1>5 DEF PlanInv
<1>8. PendingInv' /\ AcceptedInv'
  BY <1>3, <1>6 DEF PendingInv, AcceptedInv, Accepted
<1>9. LookupInv'
  BY <1>2, <1>3 DEF PlanParts, LookupInv, Found, Resolve, Dropped, Inject
<1>10. NodesInv'
  BY <1>2 DEF PlanParts, NodesInv, Up, AsAsked, Fits
<1>. QED
  BY <1>7, <1>8, <1>9, <1>10 DEF PlanParts

LEMMA PlanStep ==
    ASSUME IInv, Typed, PkiInv, PlanParts, [Next]_vars
    PROVE  PlanParts'
<1>1. Shapes /\ RenderInv /\ InvTyped /\ FilesTyped
  BY DEF IInv, Typed
<1> DEFINE Host == <<files, outdated, broken, swix, template, newest>>
<1>2. CASE Begin
  BY <1>1, <1>2, BeginKeeps
<1>3. CASE GenTopoStep
  BY <1>1, <1>3, GenKeeps
<1>4. CASE FileRule
  BY <1>1, <1>4, RuleKeeps
<1>5. CASE RenderFile
  <2>1. PICK a \in Artifacts \ {"topo", "pki"} :
          Do(a) /\ Render(a) /\ UNCHANGED <<template, newest, nodes, swix, broken>>
    BY <1>5 DEF RenderFile, pkiVars
  <2>. QED
    BY <1>1, <2>1, RenderKeeps
<1>6. CASE RenderTopology
  <2>1. /\ Do("topo") /\ Render("topo") /\ UNCHANGED <<template, newest, nodes, broken>>
        /\ Renderable("topo") => swix' = Inject(inv.bind, Resolve(Seen(inv.passing)))
        /\ "topo" \in Artifacts
    BY <1>6 DEF RenderTopology, Artifacts, Uses, pkiVars
  <2>. QED
    BY <1>1, <2>1, RenderKeeps
<1>7. CASE ResolveBind
  BY <1>1, <1>7, BindKeeps
<1>8. CASE ValidateTopo
  <2>1. /\ Running /\ Head(Todo) = "validate" /\ UNCHANGED Host /\ UNCHANGED nodes
        /\ IF ValidateTopology THEN Done ELSE End("invalid")
    BY <1>8 DEF ValidateTopo, Do, Todo, hostVars, pkiVars
  <2>2. Head(Todo) \notin Rendering
    BY <2>1 DEF Rendering, Artifacts, Uses
  <2>. QED
    BY <1>1, <2>1, <2>2, ValidIsAccepted, EndKeeps, TailKeeps
<1>9. CASE WaitKmePool \/ RunInstallExecs
  <2>1. Running /\ Head(Todo) \in {"pool", "full"} /\ UNCHANGED Host /\ UNCHANGED nodes /\ Done
    BY <1>9 DEF WaitKmePool, RunInstallExecs, Do, Todo, hostVars, pkiVars
  <2>. QED
    BY <1>1, <2>1, TailKeeps DEF Rendering, Artifacts, Uses
<1>10. CASE DeployKmes
  <2>1. UNCHANGED Host
    BY <1>10 DEF DeployKmes, hostVars, pkiVars
  <2>2. CASE Do("kmeUp") /\ Create(Kmes)
    <3>1. Running /\ Head(Todo) \in Starting /\ Kmes \in SUBSET Nodes
      BY <2>2 DEF Do, Todo, Starting, Nodes
    <3>. QED
      BY <1>1, <2>1, <2>2, <3>1, CreateKeeps
  <2>3. CASE Do("kmeUp") /\ Done /\ UNCHANGED nodes
    <3>1. Running /\ Head(Todo) = "kmeUp"
      BY <2>3 DEF Do, Todo
    <3>. QED
      BY <1>1, <2>1, <2>3, <3>1, TailKeeps DEF Rendering, Artifacts, Uses
  <2>4. CASE /\ Do("kmeStage") /\ UNCHANGED nodes
             /\ inv' = [inv EXCEPT !.todo = <<"kmeUp">> \o Tail(@)]
    BY <1>1, <2>1, <2>4, StageKeeps
  <2>5. CASE End("rejected") \/ End("failed")
    BY <1>1, <2>5, EndKeeps
  <2>. QED
    BY <1>10, <2>2, <2>3, <2>4, <2>5 DEF DeployKmes
<1>11. CASE DeployAll
  <2>1. UNCHANGED Host
    BY <1>11 DEF DeployAll, hostVars, pkiVars
  <2>2. CASE Do("full") /\ Create(Nodes)
    <3>1. Running /\ Head(Todo) \in Starting
      BY <2>2 DEF Do, Todo, Starting
    <3>. QED
      BY <1>1, <2>1, <2>2, <3>1, CreateKeeps
  <2>. QED
    BY <1>1, <1>11, <2>2, EndKeeps DEF DeployAll
<1>12. CASE DestroyLab
  <2>1. UNCHANGED Host /\ Running /\ Head(Todo) = "destroy"
    BY <1>12 DEF DestroyLab, hostVars, pkiVars, Do, Todo
  <2>2. ASSUME NEW n \in Up, nodes' = [nodes EXCEPT ![n] = Nil], inv' = [inv EXCEPT !.old = @ \ {n}]
        PROVE  PlanParts'
    <3>1. /\ inv'.old = inv.old \ {n}
          /\ \A f \in AllFields \ {"old"} : inv'[f] = inv[f]
      BY <1>1, <2>2 DEF InvTyped, AllFields
    <3>2. \A m \in Up' : m \in Up /\ m # n /\ nodes'[m] = nodes[m]
      BY <1>1, <2>2 DEF Up, Shapes
    <3>. QED
      BY <1>1, <2>1, <3>1, <3>2, StaysKeeps
  <2>3. CASE Done /\ UNCHANGED nodes
    BY <1>1, <2>1, <2>3, TailKeeps DEF Rendering, Artifacts, Uses
  <2>. QED
    BY <1>12, <2>2, <2>3 DEF DestroyLab
<1>13. CASE RemoveFiles
  <2>1. inv.target = "clean"
    <3>1. Running /\ Head(Todo) \in {"rmGen", "rmTopo"}
      BY <1>13 DEF RemoveFiles, Do, Todo
    <3>2. 1 \in DOMAIN Todo /\ Todo[1] = Head(Todo)
      BY <1>1, <3>1, TailIs DEF Shapes
    <3>. QED
      BY <3>1, <3>2 DEF IInv, CleanInv, CleanSeq
  <2>2. inv'.target = inv.target
    BY <1>1, <1>13 DEF RemoveFiles, Done, End, Shapes, Fields
  <2>. QED
    BY <2>1, <2>2, OverKeeps DEF Working, GenTargets
<1>14. CASE UNCHANGED <<inv, nodes, files, outdated, broken, swix, template>> /\ (newest' = newest \/ newest' = newest + 1)
  <2>1. \A m \in (Up \ inv.old)' : m \in Up \ inv.old /\ nodes'[m] = nodes[m]
    BY <1>14 DEF Up
  <2>. QED
    BY <1>1, <1>14, <2>1, StaysKeeps
<1>15. CASE InstallQuadra
  <2>1. inv' = inv \/ End("ok") \/ End("failed")
    BY <1>15 DEF InstallQuadra
  <2>2. UNCHANGED <<nodes, files, outdated, broken, swix, template, newest>>
    BY <1>15 DEF InstallQuadra, hostVars, pkiVars
  <2>. QED
    BY <1>1, <1>14, <2>1, <2>2, EndKeeps
<1>16. CASE Die
  BY <1>1, <1>16, EndKeeps DEF Die
<1>17. CASE DropSwix
  BY <1>14, <1>17 DEF DropSwix, hostVars, pkiVars
<1>18. CASE EditTemplate
  <2>1. ~Working'
    BY <1>18 DEF EditTemplate, Working, Running
  <2>. QED
    BY <2>1, OverKeeps
<1>19. CASE RestartSwitch \/ UNCHANGED vars
  BY <1>14, <1>19 DEF RestartSwitch, hostVars, pkiVars, vars
<1>20. CASE EnsureCa \/ NewLeafKey \/ MarkLeaf
  BY <1>14, <1>20 DEF EnsureCa, NewLeafKey, MarkLeaf
<1>21. CASE SignLeaf
  <2>1. CASE UNCHANGED <<broken, inv>>
    BY <1>14, <1>21, <2>1 DEF SignLeaf
  <2>. QED
    BY <1>1, <1>21, <2>1, EndKeeps DEF SignLeaf
<1>22. CASE CopyLeaf
  BY <1>1, <1>22, CopyKeeps
<1>. QED
  BY <1>2, <1>3, <1>4, <1>5, <1>6, <1>7, <1>8, <1>9, <1>10, <1>11, <1>12, <1>13, <1>15, <1>16, <1>17, <1>18,
     <1>19, <1>20, <1>21, <1>22 DEF Next, GenerateRadsecPki

TargetInv == Running => inv.target \in Targets

LEMMA TargetStep ==
    ASSUME Shapes, RenderInv, TargetInv, [Next]_vars
    PROVE  TargetInv'
<1>1. CASE Begin
  BY <1>1, BeginIs DEF TargetInv
<1>2. CASE ~Begin
  <2>1. TodoMoves
    BY <1>2, StepMoves
  <2>. QED
    BY <2>1 DEF TodoMoves, Kept, Stays, TargetInv, Running
<1>. QED
  BY <1>1, <1>2

LEMMA PlanHolds == Spec => [](IInv /\ Typed /\ PkiInv /\ PlanParts /\ TargetInv)
<1>1. Init => Typed /\ StagedInv /\ PkiInv /\ PlanParts /\ TargetInv
  <2> SUFFICES ASSUME Init PROVE Typed /\ StagedInv /\ PkiInv /\ PlanParts /\ TargetInv
    OBVIOUS
  <2>1. FilesTyped /\ NodesTyped
    BY LabBounds DEF Init, FilesTyped, NodesTyped, Up, Versions, NoSwix
  <2>2. SwitchesTyped
    BY LabBounds DEF Init, SwitchesTyped, Versions, NoSwix, NoJob
  <2>3. InvTyped
    BY LabBounds DEF Init, InvTyped, AllFields, Unset, Todo, Versions, NoSwix
  <2>4. StagedInv /\ PkiInv /\ ~Working
    BY DEF Init, StagedInv, Todo, Working, Running, NoWork, PkiInv, Vouches
  <2>5. PlanParts
    BY <2>4 DEF PlanParts, PlanInv, PendingInv, LookupInv, AcceptedInv, NodesInv
  <2>. QED
    BY <2>1, <2>2, <2>3, <2>4, <2>5 DEF Typed, TargetInv, Init, Running
<1>2. IInv /\ Typed /\ StagedInv /\ PkiInv /\ PlanParts /\ TargetInv /\ [Next]_vars => (Typed /\ StagedInv /\ PkiInv /\ PlanParts /\ TargetInv)'
  BY StagedStep, FilesTypedStep, NodesTypedStep, SwitchesTypedStep, InvTypedStep, PkiStep, PlanStep, TargetStep
  DEF IInv, Typed
<1>. QED
  BY <1>1, <1>2, LabInvariant, PTL DEF Spec

\* A running lab is given up for a redeployment only when the files of the
\* next one are rendered and accepted.
THEOREM DestroyedForAccepted == Spec => LabKeptUntilAccepted
<1>1. ASSUME IInv, Typed, PlanParts, [Next]_vars, inv.target = "redeploy",
             NEW n \in Nodes, nodes[n] # Nil, nodes'[n] = Nil,
             NEW a \in Artifacts
      PROVE  ArtifactAsAsked(a)
  <2>1. ~Begin
    BY <1>1, BeginIs DEF IInv
  <2>2. NodeMoves
    BY <1>1, <2>1, StepMoves DEF IInv
  <2>3. Running /\ Head(Todo) = "destroy"
    BY <1>1, <2>2 DEF NodeMoves, Grows, Loses, Up
  <2>4. Accepted
    BY <1>1, <2>3, NextStepTells DEF IInv, Working, GenTargets
  <2>. QED
    BY <1>1, <2>4 DEF Accepted
<1>2. IInv /\ Typed /\ PlanParts /\ [Next]_vars =>
        [inv.target = "redeploy" /\ (\E n \in Nodes : nodes[n] # Nil /\ nodes'[n] = Nil)
           => \A a \in Artifacts : ArtifactAsAsked(a)]_vars
  BY <1>1
<1>. QED
  BY <1>2, PlanHolds, PTL DEF Spec, LabKeptUntilAccepted

-------------------------------------------------------------------------------
(* Success.                                                                *)

\* Only the install commands of the full deploy end a deployment well.
LEMMA OnlyFullEndsWell ==
    ASSUME IInv, Typed, PlanParts, [Next]_vars, Running,
           inv.target \in {"deploy", "redeploy"}, inv'.result = "ok"
    PROVE  RunInstallExecs /\ Len(Todo) = 1
<1>1. Shapes /\ InvTyped /\ Working
  BY DEF IInv, Typed, Working, GenTargets
<1>2. ~End("failed") /\ ~End("invalid") /\ ~End("rejected") /\ ~End("died")
  BY <1>1 DEF End, Shapes, Fields
<1>3. inv' # inv
  BY DEF Running
<1>4. Done => Len(Todo) = 1
  <2>1. SUFFICES ASSUME Done, Len(Todo) # 1 PROVE FALSE
    OBVIOUS
  <2>2. inv' = [inv EXCEPT !.todo = Tail(@)]
    BY <2>1 DEF Done, Todo
  <2>. QED
    BY <1>1, <2>2 DEF Running, Shapes, Fields
<1>5. Len(Todo) = 1 => Head(Todo) = "full"
  <2>1. Todo \in Seq(StepNames) /\ Todo # <<>> /\ PlanSeq(Todo, inv.target)
    BY <1>1, NextStepTells
  <2>. QED
    BY <2>1, HeadTells
<1>6. ASSUME NEW step, Do(step), Done
      PROVE  step = "full" /\ Len(Todo) = 1
  BY <1>4, <1>5, <1>6 DEF Do, Todo
<1>7. inv'.result # inv.result
  BY DEF Running
<1>8. ~Begin /\ ~EditTemplate
  BY DEF Begin, EditTemplate
<1>9. ~GenTopoStep /\ ~ResolveBind
  BY <1>1, <1>7 DEF GenTopoStep, ResolveBind, Shapes, Fields
<1>10. ~FileRule
  <2>1. ~Expand(RenderSteps, FALSE)
    BY <1>1, <1>7 DEF Expand, Shapes, Fields
  <2>. QED
    BY <1>2, <1>6, <2>1 DEF FileRule
<1>11. ~RenderFile /\ ~RenderTopology
  BY <1>2, <1>6 DEF RenderFile, RenderTopology, Render, Artifacts, Uses
<1>12. ~ValidateTopo /\ ~WaitKmePool /\ ~RemoveFiles /\ ~Die
  BY <1>2, <1>3, <1>6 DEF ValidateTopo, WaitKmePool, RemoveFiles, Die
<1>13. ~DeployKmes
  BY <1>1, <1>2, <1>3, <1>6, <1>7 DEF DeployKmes, Create, Shapes, Fields
<1>14. ~DeployAll
  BY <1>2, <1>3 DEF DeployAll, Create
<1>15. ~DestroyLab
  BY <1>1, <1>6, <1>7 DEF DestroyLab, Shapes, Fields
<1>16. ~InstallQuadra
  <2>1. Head(Todo) # "install"
    BY <1>1, NextStepTells, HeadTells
  <2>. QED
    BY <2>1 DEF InstallQuadra, Do, Todo
<1>17. ~DropSwix /\ ~RestartSwitch /\ ~UNCHANGED vars
  BY <1>3 DEF DropSwix, RestartSwitch, vars
<1>19. ~GenerateRadsecPki
  BY <1>2, <1>3, <1>6 DEF GenerateRadsecPki, EnsureCa, NewLeafKey, SignLeaf, MarkLeaf, CopyLeaf, Pki
<1>18. RunInstallExecs
  BY <1>8, <1>9, <1>10, <1>11, <1>12, <1>13, <1>14, <1>15, <1>16, <1>17, <1>19 DEF Next
<1>. QED
  BY <1>6, <1>18 DEF RunInstallExecs

LEMMA DeployedStep ==
    ASSUME IInv, Typed, PlanParts, DeployedAsAsked, [Next]_vars
    PROVE  DeployedAsAsked'
<1>1. Shapes /\ InvTyped /\ inv'.target \in Targets \cup {"none"}
  <2>1. Shapes'
    BY ShapesStep DEF IInv
  <2>. QED
    BY <2>1 DEF IInv, Typed, Shapes
<1> SUFFICES ASSUME inv'.result = "ok", inv'.target \in {"deploy", "redeploy"}
             PROVE  DeployedAsAsked'
  BY DEF DeployedAsAsked
<1>2. ~Begin
  BY <1>1, BeginIs
<1>3. TodoMoves
  BY <1>1, <1>2, StepMoves DEF IInv
<1>4. inv'.target = inv.target /\ inv'.set = inv.set
  BY <1>3 DEF TodoMoves, Kept
<1>5. CASE Running
  <2>1. RunInstallExecs /\ Len(Todo) = 1
    BY <1>4, <1>5, OnlyFullEndsWell
  <2>2. Head(Todo) = "full" /\ Up = Nodes /\ UNCHANGED <<nodes, files, broken>> /\ End("ok")
    BY <2>1 DEF RunInstallExecs, Do, Done, Todo, hostVars, pkiVars
  <2>3. inv'.old = inv.old
    BY <1>1, <2>2 DEF End, Shapes, Fields
  <2>4. Working /\ Accepted
    BY <1>1, <1>4, <1>5, <2>2, NextStepTells DEF Working, GenTargets, Starting
  <2>5. ASSUME NEW a \in Artifacts
        PROVE  ArtifactAsAsked(a)'
    <3>1. ArtifactAsAsked(a)
      BY <2>4 DEF Accepted
    <3>. QED
      BY <1>4, <2>2, <3>1, AskedStays
  <2>6. \A n \in Nodes \ inv.old : nodes[n] # Nil /\ AsAsked(n)
    BY <1>4, <2>2, <2>4 DEF PlanParts, NodesInv, Up
  <2>7. inv.target = "redeploy" => inv.old = {}
    <3>1. Todo \in Seq(StepNames) /\ Todo # <<>>
      BY <1>1, <1>5 DEF Shapes
    <3>2. \A i \in DOMAIN Todo : Todo[i] = "full"
      BY <2>1, <2>2, <3>1, TailIs
    <3>3. ~Lasts(Todo, "destroy")
      BY <3>2 DEF Lasts
    <3>. QED
      BY <1>5, <3>3 DEF IInv, RedeployInv, Emptied
  <2>. QED
    BY <1>4, <2>2, <2>3, <2>5, <2>6, <2>7 DEF DeployedAsAsked, AsAsked, Fits
<1>6. CASE ~Running
  <2>1. Stays
    BY <1>3, <1>6 DEF TodoMoves
  <2>2. UNCHANGED <<nodes, files, broken, inv>>
    BY <1>2, <1>6 DEF Next, vars, pkiVars, GenerateRadsecPki, EnsureCa, NewLeafKey, SignLeaf, MarkLeaf, CopyLeaf, Pki, GenTopoStep, FileRule, RenderFile, ResolveBind, RenderTopology, ValidateTopo,
       DeployKmes, WaitKmePool, DeployAll, RunInstallExecs, DestroyLab, RemoveFiles, InstallQuadra, Die,
       DropSwix, EditTemplate, RestartSwitch, Do, hostVars
  <2>3. \A a : ArtifactAsAsked(a)' <=> ArtifactAsAsked(a)
    <3>1. ASSUME NEW a
          PROVE  ArtifactAsAsked(a)' <=> ArtifactAsAsked(a)
      BY <2>2, AskedStays
    <3>. QED
      BY <3>1
  <2>. QED
    BY <2>2, <2>3 DEF DeployedAsAsked, Fits
<1>. QED
  BY <1>5, <1>6

\* A deployment that succeeds is what was asked for.
THEOREM DeploymentsAreAsAsked == Spec => []DeployedAsAsked
<1>1. Init => DeployedAsAsked
  BY DEF Init, DeployedAsAsked
<1>2. IInv /\ Typed /\ PlanParts /\ DeployedAsAsked /\ [Next]_vars => DeployedAsAsked'
  BY DeployedStep
<1>. QED
  BY <1>1, <1>2, PlanHolds, PTL DEF Spec

\* Nothing but the validation ends an invocation as invalid.
LEMMA OnlyValidationRefuses ==
    ASSUME Shapes, Next, Running, inv'.result = "invalid"
    PROVE  ValidateTopo /\ ~ValidateTopology
<1>1. ~End("ok") /\ ~End("failed") /\ ~End("rejected") /\ ~End("died")
  BY DEF End, Shapes, Fields
<1>2. inv'.result # inv.result
  BY DEF Running
<1>3. ~Done
  BY <1>1, <1>2 DEF Done, Shapes, Fields
<1>4. ~Begin /\ ~EditTemplate /\ ~GenTopoStep /\ ~ResolveBind
  BY <1>2 DEF Begin, EditTemplate, GenTopoStep, ResolveBind, Shapes, Fields
<1>5. ~FileRule
  <2>1. ~Expand(RenderSteps, FALSE)
    BY <1>2 DEF Expand, Shapes, Fields
  <2>. QED
    BY <1>1, <1>3, <2>1 DEF FileRule
<1>6. ~RenderFile /\ ~RenderTopology
  BY <1>1, <1>3 DEF RenderFile, RenderTopology, Render
<1>7. ~WaitKmePool /\ ~RemoveFiles /\ ~Die /\ ~RunInstallExecs
  BY <1>1, <1>2, <1>3 DEF WaitKmePool, RemoveFiles, Die, RunInstallExecs
<1>8. ~DeployKmes /\ ~DeployAll
  BY <1>1, <1>2, <1>3 DEF DeployKmes, DeployAll, Create, Shapes, Fields
<1>9. ~DestroyLab
  BY <1>2, <1>3 DEF DestroyLab, Shapes, Fields
<1>10. ~InstallQuadra
  BY <1>1, <1>2 DEF InstallQuadra
<1>11. ~DropSwix /\ ~RestartSwitch
  BY <1>2 DEF DropSwix, RestartSwitch
<1>13. ~GenerateRadsecPki
  BY <1>1, <1>2, <1>3 DEF GenerateRadsecPki, EnsureCa, NewLeafKey, SignLeaf, MarkLeaf, CopyLeaf
<1>12. ValidateTopo
  BY <1>4, <1>5, <1>6, <1>7, <1>8, <1>9, <1>10, <1>11, <1>13 DEF Next
<1>. QED
  BY <1>3, <1>12 DEF ValidateTopo

\* A refusal of what was just rendered has a reason: when every process sees
\* the QuaDRA file that is set (with .env some do not).
THEOREM RefusalsHaveAReason ==
    ASSUME Vias \subseteq {"shell"}
    PROVE  Spec => GenTopoAccepted
<1>1. ASSUME IInv, Typed, PlanParts, TargetInv, Next, Running, inv'.result = "invalid",
             "gen" \in ToSet(Recipe[inv.target]), newest = inv.seen, template = Sound
      PROVE  FALSE
  <2>1. Shapes /\ InvTyped
    BY <1>1 DEF IInv, Typed
  <2>3. Working
    BY <1>1, RecipesPlanned DEF Working, TargetInv
  <2>4. ValidateTopo /\ ~ValidateTopology
    BY <1>1, <2>1, OnlyValidationRefuses
  <2>5. Head(Todo) = "validate"
    BY <2>4 DEF ValidateTopo, Do, Todo
  <2>6. /\ ~Has(Todo, {"gen"}) /\ ~Has(Todo, {"topo"})
        /\ \A a \in Artifacts : Fresh(a)
    BY <1>1, <2>1, <2>3, <2>5, NextStepTells DEF Rendering, Artifacts, Uses
  <2>7. \A a \in Artifacts : files[a] # Nil /\ (a # "pki" => Current(a) /\ files[a].sound)
    <3>1. \A a \in Artifacts : a # "pki" => files[a].sound
      BY <1>1, <2>6, FreshTells DEF Sound, Artifacts, Uses
    <3>. QED
      BY <2>1, <2>6, <3>1, FreshIs
  <2>8. ValidateQuadra
    <3>1. swix = Inject(Found, Found)
      BY <1>1, <2>1, <2>3, <2>6, LabBounds DEF PlanParts, LookupInv, Dropped, InvTyped
    <3>2. Seen(FALSE) = inv.override
      BY <1>1, <2>1 DEF InvTyped, Seen
    <3>. QED
      BY <3>1, <3>2 DEF ValidateQuadra, Found, Inject
  <2>9. ValidateTopology
    BY <2>7, <2>8 DEF ValidateTopology, ValidateCeosConfigs, ValidateRadiusConfigs, ValidateSyslogConfigs,
       ValidateHostPaths, Current, Artifacts, Uses
  <2>. QED
    BY <2>4, <2>9
<1>2. IInv /\ Typed /\ PlanParts /\ TargetInv /\ [Next]_vars =>
        [Running /\ inv'.result = "invalid" /\ "gen" \in ToSet(Recipe[inv.target])
           => newest # inv.seen \/ template # Sound]_vars
  BY <1>1
<1>. QED
  BY <1>2, PlanHolds, PTL DEF Spec, GenTopoAccepted

==============================================================================
