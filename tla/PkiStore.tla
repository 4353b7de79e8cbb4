------------------------------- MODULE PkiStore ------------------------------
(***************************************************************************)
(* The certificate stores of the lab: generate_radsec_pki() of             *)
(* lab/gen_pki.py (lab/.gen/pki) and generate_kme_pki() of                 *)
(* lab/gen_kme_pki.py (lab/.gen/kme-pki).  Each run of make gen-topo       *)
(* reuses what earlier runs left in the work directory, issues what is     *)
(* missing or out of date one openssl call and one file write at a time,   *)
(* and copies the result to the published directory.  A run may die        *)
(* between any two of those steps: openssl fails, or make is interrupted.  *)
(*                                                                         *)
(* Key pairs are natural numbers, each used once; a certificate names the  *)
(* key pair it certifies, the site whose addresses are its SANs and the CA *)
(* key that signed it.                                                     *)
(***************************************************************************)
EXTENDS Naturals, Sequences

CONSTANTS Stores,     \* the stores; a behaviour is that of one of them
          Kind,       \* Kind[st][l]: when leaf l of store st is reissued
          Plan,       \* Plan[st]: the steps of a run, after the CA
          StrictCas,  \* stores whose CA must have keyCertSign
          Sites,      \* management address plans a run may be asked for
          None,       \* no file
          MaxRuns,    \* bound: runs of the generator
          MaxCrashes  \* bound: runs that die

\* Certificates, by the key pair they are for and the key that signed them.
CaCrts == [key : Nat, strict : BOOLEAN]
LeafCrts == [key : Nat, site : Sites, ca : Nat]

\* "marked": reissued when the SAN marker differs; "once": kept as long as
\* its certificate exists; "always": reissued by every run.
Steps(st) ==
    {[do |-> "publishCa"]}
        \cup {[do |-> d, leaf |-> l] : d \in {"issue", "publish"}, l \in DOMAIN Kind[st]}

ASSUME PkiAssumption ==
    /\ StrictCas \subseteq Stores
    /\ \A st \in Stores :
          /\ Kind[st] \in [DOMAIN Kind[st] -> {"marked", "once", "always"}]
          /\ Plan[st] \in Seq(Steps(st))
    /\ Sites # {}
    /\ None \notin Nat /\ None \notin Sites
    /\ None \notin CaCrts /\ None \notin LeafCrts
    /\ MaxRuns \in Nat /\ MaxCrashes \in Nat

\* Every run publishes the CA certificate.
ASSUME PublishAssumption ==
    \A st \in Stores : \E i \in DOMAIN Plan[st] : Plan[st][i].do = "publishCa"

\* It looks at every leaf before it publishes it, and not again after that.
Looks(st, i, l) == Plan[st][i].do = "issue" /\ Plan[st][i].leaf = l
Copies(st, j, l) ==
    /\ Plan[st][j].do = "publish" /\ Plan[st][j].leaf = l
    /\ \A i \in DOMAIN Plan[st] : Looks(st, i, l) => i < j
ASSUME OrderAssumption ==
    \A st \in Stores : \A l \in DOMAIN Kind[st] :
        \E i, j \in DOMAIN Plan[st] : Looks(st, i, l) /\ Copies(st, j, l)

VARIABLES store,     \* the store that is generated
          phase,     \* where the running generator is, "idle", or "done"
          at,        \* the step of Plan being executed
          site,      \* the address plan of the current (last) run
          fresh,     \* the next key pair
          ca,        \* work: the CA certificate and its key
          caKey,     \* work: the CA key file
          key,       \* work: key files
          crt,       \* work: certificates
          marker,    \* work: SAN markers
          pub,       \* published: certificates, keys and CA certificate
          runs,      \* runs so far
          crashes,   \* runs that died
          died       \* address plans of the runs that died

work == <<ca, caKey, key, crt, marker>>
history == <<store, runs, crashes, died>>
vars == <<phase, at, site, fresh, work, pub, history>>

Leaves == DOMAIN Kind[store]
KindOf(l) == Kind[store][l]
StrictCa == store \in StrictCas

Step == Plan[store][at]
Leaf == Step.leaf
More == at <= Len(Plan[store])
Issuing == phase = "next" /\ More /\ Step.do = "issue"

\* What an earlier version of the repository may have left in a store whose
\* CA must be strict: a CA without keyCertSign that signed every leaf.
Legacy == [l \in Leaves |-> [key |-> 1, site |-> CHOOSE s \in Sites : TRUE, ca |-> 0]]

Init ==
    /\ store \in Stores
    /\ phase = "idle" /\ at = 1 /\ site = None
    /\ fresh = 2
    /\ \/ /\ ca = None /\ caKey = None
          /\ key = [l \in Leaves |-> None] /\ crt = [l \in Leaves |-> None]
       \/ /\ StrictCa
          /\ ca = [key |-> 0, strict |-> FALSE] /\ caKey = 0
          /\ key = [l \in Leaves |-> 1] /\ crt = Legacy
    /\ marker = [l \in Leaves |-> None]
    /\ pub = [crt |-> crt, key |-> key, ca |-> ca]
    /\ runs = 0 /\ crashes = 0 /\ died = {}

------------------------------------------------------------------------------
(* Plausible bugs, substituted for the definitions below by the mutants.   *)

\* Any SAN marker will do.
CurrentByMarker(l) ==
    CASE KindOf(l) = "marked" -> marker[l] # None
      [] KindOf(l) = "once"   -> crt[l] # None
      [] KindOf(l) = "always" -> FALSE

\* Only the CA's own files go, the leaves it signed stay.
WipeCaOnly ==
    /\ phase = "wipe"
    /\ ca' = None /\ caKey' = None
    /\ phase' = "caKey"
    /\ UNCHANGED <<at, site, fresh, key, crt, marker, pub, history>>

\* Any CA will do.
AnyCa == ca # None

\* A CA key is taken for a CA.
CaByKey == caKey # None

------------------------------------------------------------------------------
(* The CA.                                                                 *)

\* gen_pki.py asks whether ca.crt exists, gen_kme_pki.py whether its
\* keyUsage has Certificate Sign.
CaUsable == ca # None /\ (StrictCa => ca.strict)

StartRun(s) ==
    /\ phase \in {"idle", "done"} /\ runs < MaxRuns
    /\ site' = s
    /\ at' = 1
    /\ phase' = "ca"
    /\ runs' = runs + 1
    /\ UNCHANGED <<fresh, work, pub, store, crashes, died>>

CheckCa ==
    /\ phase = "ca"
    /\ phase' = IF CaUsable THEN "next" ELSE IF StrictCa THEN "wipe" ELSE "caKey"
    /\ UNCHANGED <<at, site, fresh, work, pub, history>>

\* shutil.rmtree(work), which removes the files in no particular order.
WipeLeaf(l) ==
    /\ phase = "wipe" /\ ~(key[l] = None /\ crt[l] = None /\ marker[l] = None)
    /\ \/ key' = [key EXCEPT ![l] = None] /\ UNCHANGED <<crt, marker>>
       \/ crt' = [crt EXCEPT ![l] = None] /\ UNCHANGED <<key, marker>>
       \/ marker' = [marker EXCEPT ![l] = None] /\ UNCHANGED <<key, crt>>
    /\ UNCHANGED <<phase, at, site, fresh, ca, caKey, pub, history>>

WipeCa ==
    /\ phase = "wipe"
    /\ \/ ca' = None /\ UNCHANGED caKey
       \/ caKey' = None /\ UNCHANGED ca
    /\ UNCHANGED <<phase, at, site, fresh, key, crt, marker, pub, history>>

Wiped ==
    /\ phase = "wipe"
    /\ ca = None /\ caKey = None
    /\ \A l \in Leaves : key[l] = None /\ crt[l] = None /\ marker[l] = None
    /\ phase' = "caKey"
    /\ UNCHANGED <<at, site, fresh, work, pub, history>>

\* openssl req -x509 -newkey writes the key, then the certificate.
NewCaKey ==
    /\ phase = "caKey"
    /\ caKey' = fresh
    /\ fresh' = fresh + 1
    /\ phase' = "caCrt"
    /\ UNCHANGED <<at, site, ca, key, crt, marker, pub, history>>

NewCaCrt ==
    /\ phase = "caCrt"
    /\ ca' = [key |-> caKey, strict |-> StrictCa]
    /\ phase' = "next"
    /\ UNCHANGED <<at, site, fresh, caKey, key, crt, marker, pub, history>>

------------------------------------------------------------------------------
(* The leaves.                                                             *)

\* The test that lets a run keep what it finds.
Current(l) ==
    CASE KindOf(l) = "marked" -> crt[l] # None /\ marker[l] = site
      [] KindOf(l) = "once"   -> crt[l] # None
      [] KindOf(l) = "always" -> FALSE

Advance == at' = at + 1 /\ phase' = "next"

Keep ==
    /\ Issuing /\ Current(Leaf)
    /\ Advance
    /\ UNCHANGED <<site, fresh, work, pub, history>>

\* openssl req -newkey overwrites the key file (and the request).
NewKey ==
    /\ Issuing /\ ~Current(Leaf)
    /\ key' = [key EXCEPT ![Leaf] = fresh]
    /\ fresh' = fresh + 1
    /\ phase' = "sign"
    /\ UNCHANGED <<at, site, ca, caKey, crt, marker, pub, history>>

\* openssl x509 -req signs it with the CA key.
Sign ==
    /\ phase = "sign"
    /\ crt' = [crt EXCEPT ![Leaf] = [key |-> key[Leaf], site |-> site, ca |-> caKey]]
    /\ IF KindOf(Leaf) = "marked" THEN phase' = "mark" /\ UNCHANGED at ELSE Advance
    /\ UNCHANGED <<site, fresh, ca, caKey, key, marker, pub, history>>

Mark ==
    /\ phase = "mark"
    /\ marker' = [marker EXCEPT ![Leaf] = site]
    /\ Advance
    /\ UNCHANGED <<site, fresh, ca, caKey, key, crt, pub, history>>

\* Certificate and key are copied to the published directory.
PublishCrt ==
    /\ phase = "next" /\ More /\ Step.do = "publish"
    /\ pub' = [pub EXCEPT !.crt[Leaf] = crt[Leaf]]
    /\ phase' = "half"
    /\ UNCHANGED <<at, site, fresh, work, history>>

PublishKey ==
    /\ phase = "half"
    /\ pub' = [pub EXCEPT !.key[Leaf] = key[Leaf]]
    /\ Advance
    /\ UNCHANGED <<site, fresh, work, history>>

PublishCa ==
    /\ phase = "next" /\ More /\ Step.do = "publishCa"
    /\ pub' = [pub EXCEPT !.ca = ca]
    /\ Advance
    /\ UNCHANGED <<site, fresh, work, history>>

Return ==
    /\ phase = "next" /\ ~More
    /\ phase' = "done"
    /\ UNCHANGED <<at, site, fresh, work, pub, history>>

\* CalledProcessError, or the process is killed.
Crash ==
    /\ phase \notin {"idle", "done"} /\ crashes < MaxCrashes
    /\ phase' = "idle"
    /\ crashes' = crashes + 1
    /\ died' = died \cup {site}
    /\ UNCHANGED <<at, site, fresh, work, pub, store, runs>>

------------------------------------------------------------------------------
Next ==
    \/ \E s \in Sites : StartRun(s)
    \/ CheckCa \/ WipeCa \/ Wiped \/ NewCaKey \/ NewCaCrt
    \/ \E l \in Leaves : WipeLeaf(l)
    \/ Keep \/ NewKey \/ Sign \/ Mark
    \/ PublishCrt \/ PublishKey \/ PublishCa \/ Return
    \/ Crash

Spec == Init /\ [][Next]_vars
------------------------------------------------------------------------------
\* The published leaf is a certificate for the key beside it, signed by the
\* published CA and, unless it carries no address, with the run's SANs.
Usable(l) ==
    /\ pub.crt[l] # None
    /\ pub.crt[l].key = pub.key[l]
    /\ pub.crt[l].ca = pub.ca.key
    /\ KindOf(l) # "once" => pub.crt[l].site = site

\* "Create or refresh a per-switch TLS server cert when SANs change": every
\* run that returns leaves a usable store behind, whatever runs died before.
Coherent == phase = "done" => \A l \in Leaves : Usable(l)

\* The same, for the leaves with a SAN marker as long as no run for another
\* address plan died: address plans may change from run to run and any
\* number of runs for the present plan may have died half way.
CoherentUnlessReplanned ==
    phase = "done" =>
        \A l \in Leaves :
            (KindOf(l) = "marked" => died \subseteq {site}) => Usable(l)

\* A weak CA never gets through a run that insists on keyCertSign.
PublishedCaStrict == phase = "done" /\ StrictCa => pub.ca.strict

\* No leaf in the work directory outlives the CA that signed it: once a CA
\* certificate is in place every certificate beside it chains to it, even
\* if the run that replaced the CA died half way.
LeavesChainToCa ==
    phase # "wipe" /\ ca # None =>
        \A l \in Leaves : crt[l] # None => crt[l].ca = ca.key

\* The CA key file belongs to the CA certificate whenever it signs.
CaSignsWithItsKey == phase \in {"next", "sign"} => ca # None /\ ca.key = caKey
==============================================================================
