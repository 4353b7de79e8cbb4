----------------------------- MODULE MCPkiStore ------------------------------
(* The two stores of the lab, with one leaf of each kind they have.        *)
EXTENDS PkiStore, TLC

Issue(l) == [do |-> "issue", leaf |-> l]
Publish(l) == [do |-> "publish", leaf |-> l]

\* lab/.gen/pki: the radius server, a switch's client certificate and its
\* eAPI server certificate (gNMI and syslog follow the eAPI pattern).
\* lab/.gen/kme-pki: a KME and its SAE client.
LabKind ==
    [radsec |-> [radius |-> "marked", client |-> "once", eapi |-> "marked"],
     kme |-> [kme |-> "always", sae |-> "once"]]

LabPlan ==
    [radsec |->
        << Issue("radius"), Issue("client"), [do |-> "publishCa"],
           Publish("radius"), Publish("client"), Issue("eapi"), Publish("eapi") >>,
     kme |->
        << Issue("kme"), Issue("sae"), [do |-> "publishCa"],
           Publish("kme"), Publish("sae") >>]
==============================================================================
