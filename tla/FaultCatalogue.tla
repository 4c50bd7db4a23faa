--------------------------- MODULE FaultCatalogue ---------------------------
(***************************************************************************)
(* agents/chaos/faults/_meta.py: the faults the loop knows, by category,   *)
(* and which of them a Chaos Mesh resource enacts.  Descriptions and the   *)
(* requires_approval flag are left out: no component of the loop reads     *)
(* them (only "chaos faults" prints them).                                 *)
(***************************************************************************)
EXTENDS Naturals, TLC

\* Enacted by an attack device on the bench.
HardwareFaults ==
    [rf     |-> {"wifi.deauth", "wifi.jam", "ble.advertising_flood", "lora.jam"},
     power  |-> {"power.brownout", "power.ramp", "power.cut"},
     sensor |-> {"sensor.dropout", "sensor.stuck"},
     time   |-> {"time.ntp.cut", "time.clock.drift"}]

\* Chaos Mesh.
ResilienceFaults ==
    [pod     |-> {"pod.kill", "pod.failure"},
     network |-> {"network.loss", "network.delay", "network.partition"},
     io      |-> {"io.latency"},
     stress  |-> {"stress.cpu", "stress.memory"},
     dns     |-> {"dns.error"},
     http    |-> {"http.abort"},
     time    |-> {"time.skew"}]

SecurityFaults ==
    [cert    |-> {"cert.revoke", "cert.expire"},
     tls     |-> {"tls.downgrade"},
     auth    |-> {"auth.outage", "auth.latency"},
     secret  |-> {"secret.rotate"},
     image   |-> {"image.swap_vuln", "image.swap_unsigned"},
     iam     |-> {"iam.degrade"},
     netpol  |-> {"netpol.regress"},
     egress  |-> {"egress.exfil_sim"},
     runtime |-> {"runtime.tamper"}]

Groups == {HardwareFaults, ResilienceFaults, SecurityFaults}
FaultCategory == UNION {DOMAIN g : g \in Groups} \union {"kernel"}

\* by_category
FaultsOf(cat) == UNION {g[cat] : g \in {h \in Groups : cat \in DOMAIN h}}
Catalogue == UNION {FaultsOf(cat) : cat \in FaultCategory}
CategoryOf(fault) == CHOOSE cat \in FaultCategory : fault \in FaultsOf(cat)
=============================================================================
