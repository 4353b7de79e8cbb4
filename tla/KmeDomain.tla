------------------------------ MODULE KmeDomain ------------------------------
(***************************************************************************)
(* What a KME promises to whoever asks it about the KMEs of its domain:    *)
(* a lookup never sees the domain change under it, and the domain goes     *)
(* from unknown to the whole result of a scan and back to unknown, never   *)
(* through a half-collected or a patched-up one.                           *)
(***************************************************************************)
CONSTANTS Kmes,      \* the key management entities
          Clients,   \* whoever can hold a lookup open at a KME
          Statuses,  \* what a scan can learn
          NoReader   \* "no lookup in progress"

VARIABLES domain,    \* domain[k]: what k knows of its peers
          reader     \* reader[k]: the client whose lookup is in progress at k

vars == <<domain, reader>>

Init ==
    /\ domain = [k \in Kmes |-> {}]
    /\ reader = [k \in Kmes |-> NoReader]

\* A scan starts: what was known is dropped as a whole.
Forget(k) ==
    /\ reader[k] = NoReader
    /\ domain' = [domain EXCEPT ![k] = {}]
    /\ UNCHANGED reader

\* A scan ends: everything it learned is published in one step.
Learn(k, S) ==
    /\ reader[k] = NoReader
    /\ domain[k] = {}
    /\ domain' = [domain EXCEPT ![k] = S]
    /\ UNCHANGED reader

StartLookup(k, c) ==
    /\ reader[k] = NoReader
    /\ reader' = [reader EXCEPT ![k] = c]
    /\ UNCHANGED domain

EndLookup(k) ==
    /\ reader' = [reader EXCEPT ![k] = NoReader]
    /\ UNCHANGED domain

\* The KME's process dies: it forgets everything and its lookups with it.
Fail(k) ==
    /\ domain' = [domain EXCEPT ![k] = {}]
    /\ reader' = [reader EXCEPT ![k] = NoReader]

Next ==
    \E k \in Kmes :
        \/ Forget(k)
        \/ \E S \in SUBSET Statuses : Learn(k, S)
        \/ \E c \in Clients : StartLookup(k, c)
        \/ EndLookup(k)
        \/ Fail(k)

Spec == Init /\ [][Next]_vars
==============================================================================
