---------------------------- MODULE MCListeners -----------------------------
(***************************************************************************)
(* Model checking of the components that read what a client library's      *)
(* goroutines pass on: Event Hubs, Kubernetes events and the mDNS lookup.  *)
(* They share nothing, and a behaviour is one of one of them, so that the  *)
(* instance is the sum of the three and not their product.                 *)
(***************************************************************************)
EXTENDS EventHubs, KubernetesEvents, MDNS

VARIABLE listener   \* the component of this behaviour

vars == <<listener, eventHubsVars, kubernetesVars, mdnsVars>>

TypeOK ==
  /\ listener \in {"eventhubs", "kubernetes", "mdns"}
  /\ EventHubsTypeOK /\ KubernetesTypeOK /\ MDNSTypeOK

\* The partitions of a hub that is not used are empty.
Init ==
  /\ listener \in {"eventhubs", "kubernetes", "mdns"}
  /\ EventHubsInit /\ KubernetesInit /\ MDNSInit
  /\ listener # "eventhubs" => \A p \in Partitions : stored[p] = 0

Alone(name, others) == listener = name /\ UNCHANGED <<listener, others>>

EventHubsAlone == Alone("eventhubs", <<kubernetesVars, mdnsVars>>)

KubernetesAlone == Alone("kubernetes", <<eventHubsVars, mdnsVars>>)

MDNSAlone == Alone("mdns", <<eventHubsVars, kubernetesVars>>)

Next ==
  \/ EventHubsNext /\ EventHubsAlone
  \/ KubernetesNext /\ KubernetesAlone
  \/ MDNSNext /\ MDNSAlone

\* Goroutines that can go on do; links need not break, and nobody need write.
\* The browser's select takes the end of its context in the end, though
\* messages may be ready, too.
FairSpec ==
  /\ Init /\ [][Next]_vars
  /\ \A p \in Partitions : WF_vars(HubRunning /\ ReceiverStep(p) /\ EventHubsAlone)
  /\ WF_vars(WatchStep /\ KubernetesAlone) /\ WF_vars(ReadStep /\ KubernetesAlone)
  /\ WF_vars(LookupStep /\ MDNSAlone) /\ WF_vars(ReaderStep /\ MDNSAlone)
  /\ WF_vars(PassOn /\ MDNSAlone) /\ SF_vars(BrowserEnds /\ MDNSAlone)
=============================================================================
