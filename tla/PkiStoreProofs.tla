---------------------------- MODULE PkiStoreProofs ---------------------------
(***************************************************************************)
(* Proofs about PkiStore for any stores, leaves, plans and address plans,  *)
(* and for runs that die anywhere any number of times.                     *)
(***************************************************************************)
EXTENDS PkiStore, TLAPS

Phases == {"idle", "done", "ca", "wipe", "caKey", "caCrt", "next", "sign", "mark", "half"}

\* The phases after the CA was found or made.
Issued == {"next", "sign", "mark", "half", "done"}

NoLeaves == \A l \in Leaves : crt[l] = None

\* Types of what the theorems speak about.
FileTypes ==
    /\ store \in Stores /\ phase \in Phases
    /\ site \in Sites \cup {None} /\ (phase # "idle" => site \in Sites)
    /\ at \in Nat \ {0} /\ fresh \in Nat
    /\ ca \in CaCrts \cup {None} /\ caKey \in Nat \cup {None}
    /\ key \in [Leaves -> Nat \cup {None}]
    /\ crt \in [Leaves -> LeafCrts \cup {None}]

\* Why a new CA never finds leaves of an old one: it is made in an empty
\* store only.  An interrupted wipe leaves a CA behind that is still weak, so
\* that the next run wipes again, and in the other stores nothing is ever
\* wiped: without a CA they have no leaves.
CaInv ==
    /\ ca # None =>
          /\ \A l \in Leaves : crt[l] # None => crt[l].ca = ca.key
          /\ ca.key = caKey \/ (StrictCa /\ ~ca.strict)
    /\ ca = None /\ ~StrictCa => NoLeaves
    /\ phase \in {"caKey", "caCrt"} => ca = None /\ NoLeaves
    /\ phase = "caCrt" => caKey \in Nat
    /\ phase \in Issued => ca # None /\ (StrictCa => ca.strict)
    /\ phase = "wipe" => StrictCa /\ (ca # None => ~ca.strict)
    /\ phase \in {"sign", "mark"} => Leaf \in Leaves
    /\ phase = "sign" => key[Leaf] \in Nat

IInv == FileTypes /\ CaInv

\* A step that issues or publishes names a leaf of the store.
LEMMA LeafOfStep ==
    ASSUME FileTypes, More, Step.do \in {"issue", "publish"}
    PROVE  Leaf \in Leaves
<1>1. Plan[store] \in Seq(Steps(store)) /\ at \in 1..Len(Plan[store])
  BY PkiAssumption DEF FileTypes, More
<1>2. Step \in Steps(store)
  BY <1>1 DEF Step
<1>3. PICK d \in {"issue", "publish"}, l \in DOMAIN Kind[store] : Step = [do |-> d, leaf |-> l]
  BY <1>2 DEF Steps
<1>4. QED
  BY <1>3 DEF Leaf, Leaves

\* An empty store and the one an earlier version left both satisfy IInv.
LEMMA InitIInv == Init => IInv
<1> SUFFICES ASSUME Init
             PROVE  IInv
  OBVIOUS
<1>1. FileTypes
  <2>1. CASE key = [l \in Leaves |-> None] /\ crt = [l \in Leaves |-> None] /\ ca = None /\ caKey = None
    BY <2>1 DEF Init, FileTypes, Phases
  <2>2. CASE ca = [key |-> 0, strict |-> FALSE] /\ caKey = 0
             /\ key = [l \in Leaves |-> 1] /\ crt = Legacy
    <3>1. (CHOOSE s \in Sites : TRUE) \in Sites
      BY PkiAssumption
    <3>2. crt \in [Leaves -> LeafCrts \cup {None}]
      BY <2>2, <3>1 DEF Legacy, LeafCrts
    <3>3. QED
      BY <2>2, <3>2 DEF Init, FileTypes, Phases, CaCrts
  <2>3. QED
    BY <2>1, <2>2 DEF Init
<1>2. CaInv
  BY PkiAssumption DEF Init, CaInv, NoLeaves, Legacy, Issued, CaCrts
<1>3. QED
  BY <1>1, <1>2 DEF IInv

\* Every step keeps the types.
LEMMA FileTypesStep ==
    ASSUME IInv, [Next]_vars
    PROVE  FileTypes'
<1> USE DEF FileTypes, Phases, Leaves, history, work
<1>1. ASSUME NEW s \in Sites, StartRun(s)
      PROVE  FileTypes'
  BY <1>1 DEF StartRun, IInv
<1>2. CASE CheckCa
  BY <1>2 DEF CheckCa, IInv
<1>3. ASSUME NEW l \in Leaves, WipeLeaf(l)
      PROVE  FileTypes'
  BY <1>3 DEF WipeLeaf, IInv
<1>4. CASE WipeCa
  BY <1>4 DEF WipeCa, IInv
<1>5. CASE Wiped
  BY <1>5 DEF Wiped, IInv
<1>6. CASE NewCaKey
  BY <1>6 DEF NewCaKey, IInv
<1>7. CASE NewCaCrt
  <2>1. caKey \in Nat /\ StrictCa \in BOOLEAN
    BY <1>7 DEF NewCaCrt, IInv, CaInv, StrictCa
  <2>2. QED
    BY <1>7, <2>1 DEF NewCaCrt, IInv, CaCrts
<1>8. CASE Keep
  BY <1>8 DEF Keep, Issuing, Advance, IInv
<1>9. CASE NewKey
  <2>1. site \in Sites
    BY <1>9 DEF NewKey, Issuing, IInv
  <2>2. key' \in [Leaves -> Nat \cup {None}]
    BY <1>9 DEF NewKey, IInv
  <2>3. QED
    BY <1>9, <2>1, <2>2 DEF NewKey, IInv
<1>10. CASE Sign
  <2>1. caKey \in Nat
    BY <1>10, PkiAssumption DEF Sign, IInv, CaInv, Issued, CaCrts
  <2>2. site \in Sites /\ key[Leaf] \in Nat
    BY <1>10 DEF Sign, IInv, CaInv
  <2>3. crt' \in [Leaves -> LeafCrts \cup {None}]
    BY <1>10, <2>1, <2>2 DEF Sign, IInv, LeafCrts
  <2>4. QED
    BY <1>10, <2>3 DEF Sign, Advance, IInv
<1>11. CASE Mark
  BY <1>11 DEF Mark, Advance, IInv
<1>12. CASE PublishCrt
  BY <1>12 DEF PublishCrt, IInv
<1>13. CASE PublishKey
  BY <1>13 DEF PublishKey, Advance, IInv
<1>14. CASE PublishCa
  BY <1>14 DEF PublishCa, Advance, IInv
<1>15. CASE Return
  BY <1>15 DEF Return, IInv
<1>16. CASE Crash
  BY <1>16 DEF Crash, IInv
<1>17. CASE UNCHANGED vars
  BY <1>17 DEF vars, IInv
<1>18. QED
  BY <1>1, <1>2, <1>3, <1>4, <1>5, <1>6, <1>7, <1>8, <1>9, <1>10, <1>11, <1>12,
     <1>13, <1>14, <1>15, <1>16, <1>17 DEF Next

\* Every step keeps what is known of the CA and of the leaves beside it.
LEMMA CaInvStep ==
    ASSUME IInv, [Next]_vars
    PROVE  CaInv'
<1> USE DEF CaInv, NoLeaves, Issued, history, work
<1>1. ASSUME NEW s \in Sites, StartRun(s)
      PROVE  CaInv'
  BY <1>1 DEF StartRun, IInv, Leaves, StrictCa
<1>2. CASE CheckCa
  BY <1>2 DEF CheckCa, CaUsable, IInv, Leaves, StrictCa
<1>3. ASSUME NEW l \in Leaves, WipeLeaf(l)
      PROVE  CaInv'
  BY <1>3 DEF WipeLeaf, IInv, FileTypes, Leaves, StrictCa
<1>4. CASE WipeCa
  BY <1>4 DEF WipeCa, IInv, Leaves, StrictCa
<1>5. CASE Wiped
  BY <1>5 DEF Wiped, IInv, Leaves, StrictCa
<1>6. CASE NewCaKey
  BY <1>6 DEF NewCaKey, IInv, FileTypes, Leaves, StrictCa
<1>7. CASE NewCaCrt
  <2>1. StrictCa \in BOOLEAN
    BY DEF StrictCa
  <2>2. ca' \in CaCrts /\ ca'.key = caKey /\ ca'.strict = StrictCa
    BY <1>7, <2>1 DEF NewCaCrt, IInv, CaCrts
  <2>3. ca' # None
    BY <2>2, PkiAssumption
  <2>4. QED
    BY <1>7, <2>2, <2>3 DEF NewCaCrt, IInv, Leaves, StrictCa
<1>8. CASE Keep
  BY <1>8 DEF Keep, Advance, Issuing, IInv, Leaves, StrictCa
<1>9. CASE NewKey
  <2>1. Leaf \in Leaves
    BY <1>9, LeafOfStep DEF NewKey, Issuing, IInv
  <2>2. key'[Leaf] \in Nat /\ Leaf' = Leaf /\ Leaves' = Leaves
    BY <1>9, <2>1 DEF NewKey, IInv, FileTypes, Leaf, Step, Leaves
  <2>3. QED
    BY <1>9, <2>1, <2>2 DEF NewKey, Issuing, IInv, Leaves, StrictCa
<1>10. CASE Sign
  <2>1. ca # None /\ ca.key = caKey /\ Leaf \in Leaves
    BY <1>10 DEF Sign, IInv
  <2>2. \A l \in Leaves : crt'[l] = IF l = Leaf
                                    THEN [key |-> key[Leaf], site |-> site, ca |-> caKey]
                                    ELSE crt[l]
    BY <1>10 DEF Sign, IInv, FileTypes
  <2>3. \A l \in Leaves : crt'[l] # None => crt'[l].ca = ca.key
    BY <2>1, <2>2 DEF IInv
  <2>4. UNCHANGED <<store, ca, caKey, key, Leaves, StrictCa>>
    BY <1>10 DEF Sign, Leaves, StrictCa
  <2>5. \/ phase' = "next"
        \/ phase' = "mark" /\ Leaf' = Leaf
    BY <1>10 DEF Sign, Advance, Leaf, Step
  <2>6. QED
    BY <1>10, <2>1, <2>3, <2>4, <2>5 DEF Sign, IInv
<1>11. CASE Mark
  BY <1>11 DEF Mark, Advance, IInv, Leaves, StrictCa
<1>12. CASE PublishCrt
  BY <1>12 DEF PublishCrt, IInv, Leaves, StrictCa
<1>13. CASE PublishKey
  BY <1>13 DEF PublishKey, Advance, IInv, Leaves, StrictCa
<1>14. CASE PublishCa
  BY <1>14 DEF PublishCa, Advance, IInv, Leaves, StrictCa
<1>15. CASE Return
  BY <1>15 DEF Return, IInv, Leaves, StrictCa
<1>16. CASE Crash
  BY <1>16 DEF Crash, IInv, Leaves, StrictCa
<1>17. CASE UNCHANGED vars
  BY <1>17 DEF vars, IInv, Leaves, StrictCa, Leaf, Step
<1>18. QED
  BY <1>1, <1>2, <1>3, <1>4, <1>5, <1>6, <1>7, <1>8, <1>9, <1>10, <1>11, <1>12,
     <1>13, <1>14, <1>15, <1>16, <1>17 DEF Next

\* The inductive invariant.
THEOREM StoreInvariant == Spec => []IInv
<1>1. IInv /\ [Next]_vars => IInv'
  BY FileTypesStep, CaInvStep DEF IInv
<1>2. QED
  BY <1>1, InitIInv, PTL DEF Spec

\* Every certificate in the work directory chains to the CA beside it,
\* whichever runs died and wherever.
THEOREM LeavesAlwaysChain == Spec => []LeavesChainToCa
<1>1. IInv => LeavesChainToCa
  BY DEF IInv, CaInv, LeavesChainToCa
<1>2. QED
  BY <1>1, StoreInvariant, PTL

\* A run signs with the key of the CA certificate it publishes, also after a
\* run that died between the two files.
THEOREM CaKeyMatches == Spec => []CaSignsWithItsKey
<1>1. IInv => CaSignsWithItsKey
  BY DEF IInv, CaInv, Issued, CaSignsWithItsKey
<1>2. QED
  BY <1>1, StoreInvariant, PTL

\* The CA certificate is published in a run that has come past that step.
CaPublished == \E i \in 1 .. at - 1 : Plan[store][i].do = "publishCa"

\* What is published then is the strict CA that the run found or made, and
\* no run starts past the first step or ends before the last.
PublishInv ==
    /\ phase \in {"ca", "wipe", "caKey", "caCrt"} => at = 1
    /\ phase = "done" => ~More
    /\ phase \in {"sign", "mark", "half"} => Step.do # "publishCa"
    /\ pub = [crt |-> pub.crt, key |-> pub.key, ca |-> pub.ca]
    /\ phase \in Issued /\ StrictCa /\ CaPublished => pub.ca # None /\ pub.ca.strict

\* Only PublishCa writes the published CA, and it leaves a step behind that
\* was none of the leaves'.
LEMMA PublishInvStep ==
    ASSUME IInv, PublishInv, [Next]_vars
    PROVE  PublishInv'
<1> USE DEF PublishInv, CaPublished, Issued, IInv, FileTypes, More, StrictCa, history, work
<1>1. ASSUME NEW s \in Sites, StartRun(s)
      PROVE  PublishInv'
  BY <1>1 DEF StartRun
<1>2. CASE CheckCa
  BY <1>2 DEF CheckCa
<1>3. ASSUME NEW l \in Leaves, WipeLeaf(l)
      PROVE  PublishInv'
  BY <1>3 DEF WipeLeaf
<1>4. CASE WipeCa \/ Wiped \/ NewCaKey \/ NewCaCrt
  BY <1>4 DEF WipeCa, Wiped, NewCaKey, NewCaCrt
<1>5. CASE Return \/ Crash
  BY <1>5 DEF Return, Crash
<1>6. CASE Keep \/ NewKey \/ Sign \/ Mark \/ PublishCrt \/ PublishKey
  <2>1. \/ at' = at /\ phase' \in {"sign", "mark", "half"}
        \/ at' = at + 1 /\ phase' = "next"
    BY <1>6 DEF Keep, NewKey, Sign, Mark, PublishCrt, PublishKey, Advance
  <2>2. phase \in Issued /\ Step.do # "publishCa" /\ UNCHANGED <<store, site, ca>>
    BY <1>6 DEF Keep, NewKey, Sign, Mark, PublishCrt, PublishKey, Issuing
  <2>3. pub'.ca = pub.ca /\ pub' = [crt |-> pub'.crt, key |-> pub'.key, ca |-> pub'.ca]
    BY <1>6 DEF Keep, NewKey, Sign, Mark, PublishCrt, PublishKey
  <2>4. CaPublished' => CaPublished
    BY <2>1, <2>2 DEF Step
  <2>5. at' = at => Step' = Step
    BY <2>2 DEF Step
  <2>6. QED
    BY <2>1, <2>2, <2>3, <2>4, <2>5
<1>7. CASE PublishCa
  <2>1. phase' = "next" /\ store' = store /\ phase = "next"
    BY <1>7 DEF PublishCa, Advance
  <2>2. pub' = [crt |-> pub.crt, key |-> pub.key, ca |-> ca]
    BY <1>7 DEF PublishCa
  <2>3. ca # None /\ (StrictCa => ca.strict)
    BY <2>1 DEF CaInv
  <2>4. QED
    BY <2>1, <2>2, <2>3
<1>8. CASE UNCHANGED vars
  BY <1>8 DEF vars, Step
<1>9. QED
  BY <1>1, <1>2, <1>3, <1>4, <1>5, <1>6, <1>7, <1>8 DEF Next

\* A run that insists on keyCertSign publishes no weak CA, whatever an
\* earlier version of the repository or a run that died left behind.
THEOREM StrictCaPublished == Spec => []PublishedCaStrict
<1>1. Init => PublishInv
  <2> SUFFICES ASSUME Init
               PROVE  PublishInv
    OBVIOUS
  <2>1. phase = "idle" /\ pub = [crt |-> crt, key |-> key, ca |-> ca]
    BY DEF Init
  <2>2. QED
    BY <2>1 DEF PublishInv, Issued
<1>2. IInv /\ PublishInv /\ [Next]_vars => PublishInv'
  BY PublishInvStep
<1>3. IInv /\ PublishInv => PublishedCaStrict
  <2> SUFFICES ASSUME IInv, PublishInv, phase = "done", StrictCa
               PROVE  pub.ca.strict
    BY DEF PublishedCaStrict
  <2>1. PICK i \in DOMAIN Plan[store] : Plan[store][i].do = "publishCa"
    BY PublishAssumption DEF IInv, FileTypes
  <2>2. Plan[store] \in Seq(Steps(store)) /\ at \in Nat /\ at > Len(Plan[store])
    BY PkiAssumption DEF IInv, FileTypes, PublishInv, More
  <2>3. i \in 1 .. at - 1
    BY <2>1, <2>2
  <2>4. QED
    BY <2>1, <2>3 DEF PublishInv, CaPublished, Issued
<1>4. QED
  BY <1>1, <1>2, <1>3, StoreInvariant, PTL DEF Spec

-------------------------------------------------------------------------------
(* What a run that returns has published.                                  *)

Pair(l) == crt[l] # None /\ crt[l].key = key[l]

\* Markers, and the types of what is published.
MarkerTypes ==
    /\ marker \in [Leaves -> Sites \cup {None}]
    /\ DOMAIN pub.crt = Leaves /\ DOMAIN pub.key = Leaves

\* What the marker of a leaf says is true of its files, unless a run for
\* another address plan than the marker's died, or reissues the leaf now.
MarkerTrue(l) ==
    /\ crt[l] # None
    /\ \/ Pair(l) /\ crt[l].site = marker[l]
       \/ ~ (died \subseteq {marker[l]})
       \/ phase \in {"sign", "mark"} /\ Leaf = l /\ marker[l] # site

\* Beside a CA that a run will use.  Without one there are no markers, or
\* they are wiped before a new one is made.
PairInv ==
    /\ CaUsable => \A l \in Leaves :
          /\ KindOf(l) = "once" /\ crt[l] # None => Pair(l)
          /\ KindOf(l) = "marked" /\ marker[l] # None => MarkerTrue(l)
    /\ phase \in {"caKey", "caCrt"} \/ (ca = None /\ ~StrictCa) =>
          \A l \in Leaves : marker[l] = None

\* A leaf the run has looked at is current, except while it is reissued.
Seen(l) == \E i \in 1 .. at - 1 : i \in DOMAIN Plan[store] /\ Looks(store, i, l)
RunInv ==
    /\ phase \in {"sign", "mark"} => More /\ Step.do = "issue"
    /\ phase = "mark" => Pair(Leaf) /\ crt[Leaf].site = site /\ KindOf(Leaf) = "marked"
    /\ phase \in Issued => \A l \in Leaves :
          Seen(l) /\ ~ (phase \in {"sign", "mark"} /\ Leaf = l) =>
             /\ crt[l] # None
             /\ KindOf(l) = "marked" => marker[l] = site
             /\ KindOf(l) = "always" => Pair(l) /\ crt[l].site = site

\* A leaf the run has published is the one in the work directory, which it
\* does not touch any more.
CopyInv ==
    /\ phase = "half" =>
          Step.do = "publish" /\ Leaf \in Leaves /\ pub.crt[Leaf] = crt[Leaf]
    /\ phase \in Issued => \A l \in Leaves :
          (\E j \in 1 .. at - 1 : j \in DOMAIN Plan[store] /\ Copies(store, j, l))
             => pub.crt[l] = crt[l] /\ pub.key[l] = key[l]
    /\ phase \in Issued /\ CaPublished => pub.ca = ca

StoreInv == IInv /\ PublishInv /\ MarkerTypes /\ PairInv /\ RunInv /\ CopyInv

\* The steps of a run that leave CA, leaves and markers alone.
Quiet ==
    \/ \E s \in Sites : StartRun(s)
    \/ CheckCa \/ Keep \/ PublishCrt \/ PublishKey \/ PublishCa \/ Return
    \/ UNCHANGED vars

LEMMA MarkerTypesStep ==
    ASSUME StoreInv, [Next]_vars
    PROVE  MarkerTypes'
<1> USE DEF MarkerTypes, StoreInv, IInv, FileTypes, Leaves, history, work
<1>1. ASSUME Quiet
      PROVE  MarkerTypes'
  <2>1. UNCHANGED <<store, marker>>
    BY <1>1 DEF Quiet, StartRun, CheckCa, Keep, PublishCrt, PublishKey, PublishCa, Return, vars
  <2>2. pub = [crt |-> pub.crt, key |-> pub.key, ca |-> pub.ca]
    BY DEF PublishInv
  <2>3. CASE PublishCrt
    BY <2>1, <2>2, <2>3 DEF PublishCrt
  <2>4. CASE PublishKey
    BY <2>1, <2>2, <2>4 DEF PublishKey
  <2>5. CASE PublishCa
    BY <2>1, <2>2, <2>5 DEF PublishCa
  <2>6. CASE ~ (PublishCrt \/ PublishKey \/ PublishCa)
    BY <1>1, <2>1, <2>6 DEF Quiet, StartRun, CheckCa, Keep, Return, vars
  <2>7. QED
    BY <2>3, <2>4, <2>5, <2>6
<1>2. CASE Crash \/ Wiped \/ WipeCa \/ NewCaKey \/ NewCaCrt \/ NewKey \/ Sign
  BY <1>2 DEF Crash, Wiped, WipeCa, NewCaKey, NewCaCrt, NewKey, Sign
<1>3. ASSUME NEW l \in Leaves, WipeLeaf(l)
      PROVE  MarkerTypes'
  BY <1>3 DEF WipeLeaf
<1>4. CASE Mark
  BY <1>4 DEF Mark
<1>5. QED
  BY <1>1, <1>2, <1>3, <1>4 DEF Next, Quiet

\* What openssl x509 writes is a certificate for the leaf's key.
LEMMA SignedIs ==
    ASSUME StoreInv, Sign
    PROVE  /\ crt'[Leaf] = [key |-> key[Leaf], site |-> site, ca |-> caKey]
           /\ crt'[Leaf] # None
<1>1. Leaf \in Leaves /\ key[Leaf] \in Nat /\ site \in Sites /\ caKey \in Nat
  BY PkiAssumption DEF StoreInv, IInv, FileTypes, CaInv, Issued, CaCrts, Sign
<1>2. crt'[Leaf] = [key |-> key[Leaf], site |-> site, ca |-> caKey]
  BY <1>1 DEF StoreInv, IInv, FileTypes, Sign
<1>3. crt'[Leaf] \in LeafCrts
  BY <1>1, <1>2 DEF LeafCrts
<1>4. QED
  BY <1>2, <1>3, PkiAssumption

LEMMA PairInvStep ==
    ASSUME StoreInv, [Next]_vars
    PROVE  PairInv'
<1> USE DEF PairInv, MarkerTrue, Pair, KindOf, CaUsable, StrictCa, Leaves, StoreInv, IInv,
            history, work
<1>1. ASSUME Quiet
      PROVE  PairInv'
  <2>1. UNCHANGED <<store, ca, key, crt, marker, died>>
    BY <1>1 DEF Quiet, StartRun, CheckCa, Keep, PublishCrt, PublishKey, PublishCa, Return, vars
  <2>2. phase' \in {"caKey", "caCrt"} =>
            \/ phase \in {"caKey", "caCrt"}
            \/ ca = None /\ ~StrictCa
    BY <1>1 DEF Quiet, StartRun, CheckCa, Keep, PublishCrt, PublishKey, PublishCa, Return,
                Advance, vars
  <2>3. \/ phase \notin {"sign", "mark"}
        \/ phase' = phase /\ at' = at /\ site' = site
    BY <1>1 DEF Quiet, StartRun, CheckCa, Keep, PublishCrt, PublishKey, PublishCa, Return,
                Issuing, vars
  <2>4. QED
    BY <2>1, <2>2, <2>3 DEF Leaf, Step
<1>2. CASE Crash
  <2>1. UNCHANGED <<store, ca, key, crt, marker>> /\ died' = died \cup {site} /\ phase' = "idle"
    BY <1>2 DEF Crash
  <2>2. QED
    BY <2>1
<1>3. CASE WipeCa \/ Wiped \/ NewCaKey
  BY <1>3 DEF WipeCa, Wiped, NewCaKey, CaInv
<1>4. ASSUME NEW l \in Leaves, WipeLeaf(l)
      PROVE  PairInv'
  BY <1>4 DEF WipeLeaf, CaInv
<1>5. CASE NewCaCrt
  BY <1>5 DEF NewCaCrt, CaInv, NoLeaves
<1>6. CASE NewKey
  BY <1>6, LeafOfStep DEF NewKey, Issuing, Current, FileTypes, CaInv, Issued, Leaf, Step
<1>7. CASE Sign
  <2>1. Leaf \in Leaves /\ ca # None /\ UNCHANGED <<store, ca, key, marker, died, site>>
    BY <1>7 DEF Sign, CaInv, Issued
  <2>2. \A l \in Leaves : l # Leaf => crt'[l] = crt[l]
    BY <1>7 DEF Sign, FileTypes
  <2>3. crt'[Leaf] # None /\ crt'[Leaf].key = key[Leaf] /\ crt'[Leaf].site = site
    BY <1>7, SignedIs
  <2>4. phase' = "next" \/ (phase' = "mark" /\ Leaf' = Leaf)
    BY <1>7 DEF Sign, Advance, Leaf, Step
  <2>5. phase' = "next" => KindOf(Leaf) # "marked"
    BY <1>7 DEF Sign
  <2>6. QED
    BY <1>7, <2>1, <2>2, <2>3, <2>4, <2>5 DEF Sign
<1>8. CASE Mark
  BY <1>8 DEF Mark, Advance, FileTypes, MarkerTypes, CaInv, Issued, RunInv
<1>9. QED
  BY <1>1, <1>2, <1>3, <1>4, <1>5, <1>6, <1>7, <1>8 DEF Next, Quiet

\* What a run has looked at after one step more.
LEMMA SeenStep ==
    ASSUME StoreInv, NEW l, store' = store
    PROVE  /\ at' = at => (Seen(l)' <=> Seen(l))
           /\ at' = at + 1 => (Seen(l)' => Seen(l) \/ (Step.do = "issue" /\ Leaf = l))
           /\ at' = 1 => ~Seen(l)'
<1>1. at \in Nat \ {0}
  BY DEF StoreInv, IInv, FileTypes
<1>2. QED
  BY <1>1 DEF Seen, Looks, Leaf, Step

LEMMA RunInvStep ==
    ASSUME StoreInv, [Next]_vars
    PROVE  RunInv'
<1> USE DEF RunInv, Issued, KindOf, Leaves, Pair, More, history, work
<1>0. /\ IInv /\ FileTypes /\ CaInv /\ PublishInv
      /\ phase \in {"ca", "wipe", "caKey", "caCrt"} => at = 1
  BY DEF StoreInv, IInv, PublishInv
<1>1. CASE (\E s \in Sites : StartRun(s)) \/ Crash \/ Wiped \/ WipeCa \/ NewCaKey
           \/ \E l \in Leaves : WipeLeaf(l)
  BY <1>1, <1>0 DEF StartRun, Crash, Wiped, WipeCa, NewCaKey, WipeLeaf
<1>2. CASE CheckCa \/ NewCaCrt
  BY <1>2, <1>0, SeenStep DEF CheckCa, NewCaCrt
<1>3. CASE PublishCrt \/ PublishKey \/ PublishCa \/ Return
  <2>1. UNCHANGED <<store, site, key, crt, marker>> /\ phase \in Issued \ {"sign", "mark"}
    BY <1>3 DEF PublishCrt, PublishKey, PublishCa, Return
  <2>2. phase' \notin {"sign", "mark"}
    BY <1>3 DEF PublishCrt, PublishKey, PublishCa, Return, Advance
  <2>3. Step.do # "issue" \/ at' = at
    BY <1>3 DEF PublishCrt, PublishKey, PublishCa, Return, CopyInv, StoreInv
  <2>4. at' \in {at, at + 1}
    BY <1>3 DEF PublishCrt, PublishKey, PublishCa, Return, Advance
  <2>5. \A l : Seen(l)' => Seen(l)
    BY <2>1, <2>3, <2>4, SeenStep
  <2>6. QED
    BY <2>1, <2>2, <2>5 DEF StoreInv
<1>4. CASE Keep
  <2>1. /\ Current(Leaf) /\ phase = "next" /\ phase' = "next" /\ at' = at + 1
        /\ UNCHANGED <<store, site, key, crt, marker>>
    BY <1>4 DEF Keep, Issuing, Advance
  <2>2. \A l : Seen(l)' => Seen(l) \/ Leaf = l
    BY <2>1, SeenStep
  <2>3. /\ crt[Leaf] # None /\ KindOf(Leaf) # "always"
        /\ KindOf(Leaf) = "marked" => marker[Leaf] = site
    <3>1. KindOf(Leaf) \in {"marked", "once", "always"}
      <4>1. Leaf \in Leaves
        BY <1>0, <1>4, LeafOfStep DEF Keep, Issuing
      <4>2. QED
        BY <1>0, <4>1, PkiAssumption DEF FileTypes
    <3>2. QED
      BY <2>1, <3>1 DEF Current
  <2>4. QED
    BY <2>1, <2>2, <2>3 DEF StoreInv
<1>5. CASE NewKey
  <2>1. /\ Leaf \in Leaves /\ Step.do = "issue" /\ phase' = "sign" /\ phase = "next"
        /\ UNCHANGED <<store, at, site, crt, marker>> /\ ~Current(Leaf)
    BY <1>0, <1>5, LeafOfStep DEF NewKey, Issuing
  <2>2. Leaf' = Leaf /\ Step' = Step
    BY <2>1 DEF Leaf, Step
  <2>3. \A l \in Leaves : l # Leaf => key'[l] = key[l]
    BY <1>0, <1>5 DEF NewKey, FileTypes
  <2>4. \A l : Seen(l)' <=> Seen(l)
    BY <2>1, SeenStep
  <2>5. ASSUME NEW l \in Leaves, Seen(l), l # Leaf
        PROVE  /\ crt'[l] # None
               /\ KindOf(l) = "marked" => marker'[l] = site
               /\ KindOf(l) = "always" => crt'[l].key = key'[l] /\ crt'[l].site = site
    BY <2>1, <2>3, <2>5 DEF StoreInv
  <2>6. UNCHANGED site /\ More
    BY <1>5 DEF NewKey, Issuing
  <2>7. QED
    BY <2>1, <2>2, <2>4, <2>5, <2>6
<1>6. CASE Sign
  <2>1. /\ Leaf \in Leaves /\ Step.do = "issue" /\ phase = "sign"
        /\ UNCHANGED <<store, site, key, marker>>
    BY <1>0, <1>6 DEF Sign, StoreInv, CaInv
  <2>2. \A l \in Leaves : l # Leaf => crt'[l] = crt[l]
    BY <1>0, <1>6 DEF Sign, FileTypes
  <2>3. crt'[Leaf] # None /\ crt'[Leaf].key = key[Leaf] /\ crt'[Leaf].site = site
    BY <1>6, SignedIs
  <2>4. CASE KindOf(Leaf) = "marked"
    <3>1. phase' = "mark" /\ at' = at /\ Leaf' = Leaf /\ Step' = Step
      BY <1>6, <2>1, <2>4 DEF Sign, Leaf, Step
    <3>2. \A l : Seen(l)' <=> Seen(l)
      BY <2>1, <3>1, SeenStep
    <3>3. ASSUME NEW l \in Leaves, Seen(l), l # Leaf
          PROVE  /\ crt'[l] # None
                 /\ KindOf(l) = "marked" => marker'[l] = site
                 /\ KindOf(l) = "always" => crt'[l].key = key'[l] /\ crt'[l].site = site
      BY <2>1, <2>2, <3>3 DEF StoreInv
    <3>4. QED
      BY <2>1, <2>3, <2>4, <3>1, <3>2, <3>3 DEF StoreInv
  <2>5. CASE KindOf(Leaf) # "marked"
    <3>1. phase' = "next" /\ at' = at + 1
      BY <1>6, <2>5 DEF Sign, Advance
    <3>2. \A l : Seen(l)' => Seen(l) \/ Leaf = l
      BY <2>1, <3>1, SeenStep
    <3>3. QED
      BY <2>1, <2>2, <2>3, <2>5, <3>1, <3>2 DEF StoreInv
  <2>6. QED
    BY <2>4, <2>5
<1>7. CASE Mark
  <2>1. /\ Leaf \in Leaves /\ phase = "mark" /\ phase' = "next" /\ at' = at + 1
        /\ UNCHANGED <<store, site, key, crt>>
    BY <1>0, <1>7 DEF Mark, Advance, CaInv
  <2>2. \A l \in Leaves : marker'[l] = IF l = Leaf THEN site ELSE marker[l]
    BY <1>7 DEF Mark, StoreInv, MarkerTypes
  <2>3. \A l : Seen(l)' => Seen(l) \/ Leaf = l
    BY <2>1, SeenStep
  <2>4. QED
    BY <2>1, <2>2, <2>3 DEF StoreInv
<1>8. CASE UNCHANGED vars
  <2>1. \A l : Seen(l)' <=> Seen(l)
    BY <1>8, SeenStep DEF vars
  <2>2. QED
    BY <1>8, <2>1 DEF StoreInv, vars, Leaf, Step
<1>9. QED
  BY <1>1, <1>2, <1>3, <1>4, <1>5, <1>6, <1>7, <1>8 DEF Next

LEMMA CopyInvStep ==
    ASSUME StoreInv, [Next]_vars
    PROVE  CopyInv'
<1> DEFINE Copied(l, n) ==
              \E j \in 1 .. n - 1 : j \in DOMAIN Plan[store] /\ Copies(store, j, l)
<1> USE DEF CopyInv, Issued, CaPublished, history, work
<1>0. /\ IInv /\ FileTypes /\ CaInv /\ PublishInv /\ at \in Nat \ {0}
      /\ phase \in {"ca", "wipe", "caKey", "caCrt"} => at = 1
      /\ pub = [crt |-> pub.crt, key |-> pub.key, ca |-> pub.ca]
      /\ DOMAIN pub.crt = Leaves /\ DOMAIN pub.key = Leaves
  BY DEF StoreInv, IInv, PublishInv, FileTypes, MarkerTypes
<1>1. CASE (\E s \in Sites : StartRun(s)) \/ Crash \/ Wiped \/ WipeCa \/ NewCaKey
           \/ \E l \in Leaves : WipeLeaf(l)
  BY <1>1, <1>0 DEF StartRun, Crash, Wiped, WipeCa, NewCaKey, WipeLeaf
<1>2. CASE CheckCa \/ NewCaCrt
  BY <1>2, <1>0 DEF CheckCa, NewCaCrt
<1>3. CASE Keep \/ Mark \/ Return
  <2>1. UNCHANGED <<store, ca, key, crt, pub>> /\ phase \in Issued /\ phase' # "half"
    BY <1>3 DEF Keep, Mark, Return, Issuing, Advance
  <2>2. Step.do = "issue" \/ at' = at
    BY <1>3 DEF Keep, Mark, Return, Issuing, StoreInv, RunInv
  <2>3. at' \in {at, at + 1}
    BY <1>3 DEF Keep, Mark, Return, Advance
  <2>4. \A l : Copied(l, at') => Copied(l, at)
    BY <1>0, <2>2, <2>3 DEF Copies, Step
  <2>5. CaPublished' => CaPublished
    BY <1>0, <2>1, <2>2, <2>3 DEF Step
  <2>6. QED
    BY <2>1, <2>4, <2>5 DEF StoreInv, Leaves
<1>4. CASE NewKey \/ Sign
  <2>1. /\ Leaf \in Leaves /\ Step.do = "issue" /\ phase' # "half" /\ phase \in Issued
        /\ UNCHANGED <<store, ca, pub>> /\ at' \in {at, at + 1} /\ More
    BY <1>0, <1>4, LeafOfStep DEF NewKey, Sign, Issuing, Advance, StoreInv, RunInv, CaInv, More
  <2>2. \A l \in Leaves : l # Leaf => key'[l] = key[l] /\ crt'[l] = crt[l]
    BY <1>0, <1>4 DEF NewKey, Sign, FileTypes
  <2>3. \A l : Copied(l, at') => Copied(l, at) /\ l # Leaf
    BY <1>0, <2>1 DEF Copies, Looks, Step, Leaf, More
  <2>4. CaPublished' => CaPublished
    BY <1>0, <2>1 DEF Step
  <2>5. QED
    BY <2>1, <2>2, <2>3, <2>4 DEF StoreInv, Leaves
<1>5. CASE PublishCrt
  <2>1. Leaf \in Leaves
    BY <1>0, <1>5, LeafOfStep DEF PublishCrt
  <2>2. pub' = [crt |-> [pub.crt EXCEPT ![Leaf] = crt[Leaf]], key |-> pub.key, ca |-> pub.ca]
    BY <1>0, <1>5 DEF PublishCrt
  <2>3. \A l \in Leaves : pub'.crt[l] = IF l = Leaf THEN crt[l] ELSE pub.crt[l]
    BY <1>0, <2>1, <2>2
  <2>4. UNCHANGED <<store, at, crt, key, ca>> /\ phase = "next" /\ phase' = "half"
        /\ Step.do = "publish" /\ Leaf' = Leaf /\ Step' = Step
    BY <1>5 DEF PublishCrt, Leaf, Step
  <2>5. QED
    BY <1>0, <2>1, <2>2, <2>3, <2>4 DEF StoreInv, Leaves
<1>6. CASE PublishKey
  <2>1. pub' = [crt |-> pub.crt, key |-> [pub.key EXCEPT ![Leaf] = key[Leaf]], ca |-> pub.ca]
    BY <1>0, <1>6 DEF PublishKey
  <2>2. /\ UNCHANGED <<store, crt, key, ca>> /\ phase = "half" /\ phase' = "next"
        /\ at' = at + 1 /\ Step.do = "publish" /\ Leaf \in Leaves /\ pub.crt[Leaf] = crt[Leaf]
    BY <1>6 DEF PublishKey, Advance, StoreInv
  <2>3. \A l \in Leaves : pub'.key[l] = IF l = Leaf THEN key[l] ELSE pub.key[l]
    BY <1>0, <2>1
  <2>4. \A l : Copied(l, at') => Copied(l, at) \/ l = Leaf
    BY <1>0, <2>2 DEF Copies, Step, Leaf
  <2>5. CaPublished' => CaPublished
    BY <1>0, <2>2 DEF Step
  <2>6. QED
    BY <1>0, <2>1, <2>2, <2>3, <2>4, <2>5 DEF StoreInv, Leaves
<1>7. CASE PublishCa
  <2>1. pub' = [crt |-> pub.crt, key |-> pub.key, ca |-> ca]
    BY <1>0, <1>7 DEF PublishCa
  <2>2. /\ UNCHANGED <<store, crt, key, ca>> /\ phase = "next" /\ phase' = "next"
        /\ at' = at + 1 /\ Step.do = "publishCa"
    BY <1>7 DEF PublishCa, Advance
  <2>3. \A l : Copied(l, at') => Copied(l, at)
    BY <1>0, <2>2 DEF Copies, Step
  <2>4. QED
    BY <2>1, <2>2, <2>3 DEF StoreInv, Leaves
<1>8. CASE UNCHANGED vars
  BY <1>8 DEF vars, StoreInv, Leaf, Step, Leaves
<1>9. QED
  BY <1>1, <1>2, <1>3, <1>4, <1>5, <1>6, <1>7, <1>8 DEF Next

\* What any run that returns has published is usable: the certificate fits the
\* key, chains to the published CA and has the present addresses, whichever
\* runs died and wherever; only a leaf with a marker may be the victim of a
\* run for another address plan that died.
THEOREM PublishedIsUsable == Spec => []CoherentUnlessReplanned
<1>1. Init => StoreInv
  <2> SUFFICES ASSUME Init
               PROVE  StoreInv
    OBVIOUS
  <2>1. IInv
    BY InitIInv
  <2>2. /\ phase = "idle" /\ marker = [l \in Leaves |-> None]
        /\ pub = [crt |-> crt, key |-> key, ca |-> ca]
    BY DEF Init
  <2>3. PublishInv /\ RunInv /\ CopyInv
    BY <2>2 DEF PublishInv, RunInv, CopyInv, Issued
  <2>4. MarkerTypes
    BY <2>1, <2>2 DEF MarkerTypes, IInv, FileTypes
  <2>5. CaUsable => ca = None
    BY PkiAssumption DEF Init, CaUsable
  <2>6. PairInv
    BY <2>2, <2>5 DEF PairInv, CaUsable
  <2>7. QED
    BY <2>1, <2>3, <2>4, <2>6 DEF StoreInv
<1>2. StoreInv /\ [Next]_vars => StoreInv'
  <2>1. IInv /\ [Next]_vars => IInv'
    BY FileTypesStep, CaInvStep DEF IInv
  <2>2. QED
    BY <2>1, PublishInvStep, MarkerTypesStep, PairInvStep, RunInvStep, CopyInvStep DEF StoreInv
<1>3. StoreInv => CoherentUnlessReplanned
  <2> SUFFICES ASSUME StoreInv, phase = "done", NEW l \in Leaves,
                      KindOf(l) = "marked" => died \subseteq {site}
               PROVE  Usable(l)
    BY DEF CoherentUnlessReplanned
  <2>1. /\ store \in Stores /\ l \in DOMAIN Kind[store] /\ at \in Nat
        /\ Plan[store] \in Seq(Steps(store)) /\ at > Len(Plan[store])
    BY PkiAssumption DEF StoreInv, IInv, FileTypes, PublishInv, More, Leaves
  <2>2. PICK i, j \in DOMAIN Plan[store] : Looks(store, i, l) /\ Copies(store, j, l)
    BY <2>1, OrderAssumption
  <2>3. PICK k \in DOMAIN Plan[store] : Plan[store][k].do = "publishCa"
    BY <2>1, PublishAssumption
  <2>4. i \in 1 .. at - 1 /\ j \in 1 .. at - 1 /\ k \in 1 .. at - 1
    BY <2>1
  <2>5. pub.crt[l] = crt[l] /\ pub.key[l] = key[l]
    BY <2>2, <2>4 DEF StoreInv, CopyInv, Issued
  <2>6. pub.ca = ca /\ CaUsable
    BY <2>3, <2>4 DEF StoreInv, IInv, CaInv, CopyInv, Issued, CaPublished, CaUsable
  <2>7. /\ crt[l] # None
        /\ KindOf(l) = "marked" => marker[l] = site
        /\ KindOf(l) = "always" => Pair(l) /\ crt[l].site = site
    BY <2>2, <2>4 DEF StoreInv, RunInv, Seen, Issued
  <2>8. site \in Sites /\ KindOf(l) \in {"marked", "once", "always"}
    BY <2>1, PkiAssumption DEF StoreInv, IInv, FileTypes, KindOf
  <2>9. Pair(l) /\ (KindOf(l) # "once" => crt[l].site = site)
    BY <2>6, <2>7, <2>8, PkiAssumption DEF StoreInv, PairInv, MarkerTrue
  <2>10. crt[l].ca = ca.key
    BY <2>6, <2>7 DEF StoreInv, IInv, CaInv, CaUsable
  <2>11. QED
    BY <2>5, <2>6, <2>7, <2>9, <2>10 DEF Usable, Pair
<1>4. QED
  BY <1>1, <1>2, <1>3, PTL DEF Spec
==============================================================================
