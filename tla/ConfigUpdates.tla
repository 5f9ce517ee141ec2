---------------------------- MODULE ConfigUpdates ----------------------------
(***************************************************************************)
(* The poll of the configuration (config/config.go) together with the      *)
(* table it feeds (Metrics): Updater.Start fetches what the server has to  *)
(* say and hands it to ListenConfigUpdates over an unbuffered channel, so  *)
(* a configuration may be old when discoverFromConfig gets it, and the     *)
(* poll waits for a goroutine that is still busy with the previous one.    *)
(*                                                                         *)
(* Exporters are left out: no guard of the discovery goroutines reads coll *)
(* or reg, so startExporters cannot change what is stored in the table.    *)
(* updateAWS, which runs before discoverFromConfig, is a delay that ends   *)
(* (StopReturns of AWSDiscoverer).  The server is external.                *)
(***************************************************************************)
EXTENDS Metrics

VARIABLES
  served,   \* what /v1/config answers
  fetched,  \* the configuration the updater is sending, Nil while it is not
  received  \* history: the configuration ListenConfigUpdates got last

updaterVars == <<served, fetched, received>>
allVars     == <<vars, updaterVars>>

UpdaterInit ==
  /\ Init
  /\ served \in Configs /\ fetched = Nil /\ received = <<>>

\* The configuration is changed on the server.
Change(c) ==
  /\ c # served
  /\ served' = c
  /\ UNCHANGED <<vars, fetched, received>>

\* fetchConfig, when the ticker fires.
Fetch ==
  /\ fetched = Nil
  /\ fetched' = served
  /\ UNCHANGED <<vars, served, received>>

\* Mutant: the error of the decoder is lost and the empty value is sent.
FetchFails_SendsEmpty ==
  /\ fetched = Nil
  /\ fetched' = <<>>
  /\ UNCHANGED <<vars, served, received>>

\* No answer within the timeout, another status than 200, or a body that cannot
\* be decoded: nothing is sent, and the goroutine waits for its ticker.
FetchFails ==
  /\ fetched = Nil
  /\ UNCHANGED allVars

\* Mutant: a configuration that was sent before is not sent again.
Deliver_Changed ==
  /\ fetched # Nil
  /\ IF fetched = received THEN UNCHANGED <<vars, received>>
     ELSE ConfigRecv(fetched) /\ received' = fetched
  /\ fetched' = Nil
  /\ UNCHANGED served

\* The send meets the receive of ListenConfigUpdates.
Deliver ==
  /\ fetched # Nil
  /\ ConfigRecv(fetched)
  /\ received' = fetched /\ fetched' = Nil
  /\ UNCHANGED served

Server   == \E c \in Configs : Change(c)
Listener == ConfigStep /\ UNCHANGED updaterVars
Pods     == (PodStep \/ PodEvent) /\ UNCHANGED updaterVars

UpdaterNext == Server \/ Fetch \/ FetchFails \/ Deliver \/ Listener \/ Pods

\* Fetches may fail any number of times, but not for ever; discovery goroutines
\* that are not waiting for input run.
UpdaterFairness ==
  /\ WF_allVars(Fetch)
  /\ WF_allVars(Deliver)
  /\ WF_allVars(Listener)
  /\ WF_allVars(PodStep /\ UNCHANGED updaterVars)

UpdaterSpec == UpdaterInit /\ [][UpdaterNext]_allVars /\ UpdaterFairness

-----------------------------------------------------------------------------
(***************************************************************************)
(* Properties                                                              *)
(***************************************************************************)

\* What configuration c wants at address a: its last entry there.
NamedIn(c, a) ==
  LET at == {i \in DOMAIN c : c[i].addr = a}
  IN  IF at = {} THEN Nil ELSE c[CHOOSE i \in at : \A j \in at : j <= i].spec

\* A configuration that names an address twice replaces the target there twice
\* each time it is received.
Ambiguous(c) == \E i, j \in DOMAIN c : i # j /\ c[i].addr = c[j].addr

\* Whenever ListenConfigUpdates waits for its channel, the table holds, at the
\* addresses that pods do not name, exactly what the configuration it received
\* last names: nothing of an earlier one, and of entries with one address the
\* last one, whatever pods did meanwhile at the other addresses.
ExactlyReceived ==
  cfgPc = "recv" =>
    \A a \in ConfigAddrs \ PodAddrs : SpecAt(a) = NamedIn(received, a)

\* Once the server sticks to one configuration, the table comes to hold exactly
\* that one at the addresses pods do not name, and keeps it while fetches fail.
ServedIsInstalled ==
  \/ []<><<Server>>_allVars
  \/ <>[](cfgPc = "recv" \/ ~Ambiguous(served) =>
            \A a \in ConfigAddrs \ PodAddrs : SpecAt(a) = NamedIn(served, a))

\* discoverFromConfig: whatever races with pod events did to the table, once
\* pod events stop an address that the configuration names gets a target and
\* keeps it.  The periodic poll repairs it even if the pod goroutine or a stale
\* deletion had emptied the address; nothing of the kind repairs a target that
\* came from a pod.
ConfigHeals ==
  \/ []<><<Server>>_allVars
  \/ []<><<PodEvent>>_vars
  \/ <>[](cfgPc = "recv" \/ ~Ambiguous(served) =>
            \A i \in DOMAIN served : targets[served[i].addr] # Nil)

=============================================================================
