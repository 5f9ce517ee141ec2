----------------------------- MODULE Credentials -----------------------------
(***************************************************************************)
(* Where an exporter has its credentials from: a round of startExporters   *)
(* (metrics/metrics.go) with the secrets it reads (k8s/secret.go), while   *)
(* secrets are created, changed and deleted, access to them is given and   *)
(* taken away, and requests fail.                                          *)
(*                                                                         *)
(* Metrics has the table, and knows of a secret only whether it was read.  *)
(* Here is what it holds.  A secret is a version and the keys with a value *)
(* that is not empty; what is read from it is known by secret, key and     *)
(* version.  Credentials of the annotations themselves are Nil: what       *)
(* remains when a secret gives nothing.  A target that is here stays here. *)
(***************************************************************************)
EXTENDS Naturals, FiniteSets

CONSTANTS
  TargetNames,
  Secrets,     \* pairs of a namespace and a name
  Keys,
  Contents,    \* the sets of keys a secret may have a value for
  Layouts,     \* target -> its secret and the keys of the user name and the password
  MaxChanges,  \* bound: changes of secrets and of access
  Nil

CredentialsSecret == [namespace : {s[1] : s \in Secrets},
                      name : {s[2] : s \in Secrets} \cup {Nil},
                      user : Keys \cup {Nil}, pass : Keys \cup {Nil}]

ASSUME CredentialsAssumption ==
  /\ Layouts \subseteq [TargetNames -> CredentialsSecret]
  /\ \A l \in Layouts : \A t \in TargetNames :
       l[t].name # Nil => <<l[t].namespace, l[t].name>> \in Secrets
  /\ Contents \subseteq SUBSET Keys
  /\ Nil \notin Keys \cup [secret : Secrets, key : Keys, version : Nat]
  /\ MaxChanges \in Nat

VARIABLES
  layout,     \* never changed
  content,    \* secret -> [exists, keys, version]
  forbidden,  \* the secrets the agent may not read
  changes,
  known,      \* the targets in the table
  started,    \* target -> Nil, or the credentials StartExporter was called with
  expPc,         \* startExporters: "tick", "round"
  batch,      \* targets
  asked,      \* id2Keys
  got,        \* secrets: secret -> Nil, or what was read of it
  denied,     \* isSecretsForbidden
  before      \* history: the versions of the secrets when the round began

cluster == <<content, forbidden, changes>>
round   == <<expPc, batch, asked, got, denied, before>>
vars    == <<layout, cluster, known, started, round>>

Content(ks, v) == [exists |-> TRUE, keys |-> ks, version |-> v]
Absent(v) == [exists |-> FALSE, keys |-> {}, version |-> v]

Init ==
  /\ layout \in Layouts
  /\ content \in [Secrets -> {Absent(0), Content(Keys, 0)}]
  /\ forbidden = {}
  /\ changes = 0
  /\ known = {}
  /\ started = [t \in TargetNames |-> Nil]
  /\ expPc = "tick" /\ batch = {} /\ denied = FALSE
  /\ asked = <<>> /\ got = <<>> /\ before = [s \in Secrets |-> 0]

-----------------------------------------------------------------------------
(***************************************************************************)
(* The cluster                                                             *)
(***************************************************************************)

\* A secret is created, changed or deleted.
SecretChanges ==
  /\ changes < MaxChanges
  /\ changes' = changes + 1
  /\ \E s \in Secrets :
       LET v == content[s].version + 1
       IN  \E c \in {Content(ks, v) : ks \in Contents} \cup {Absent(v)} :
             content' = [content EXCEPT ![s] = c]
  /\ UNCHANGED <<layout, forbidden, known, started, round>>

AccessChanges ==
  /\ changes < MaxChanges
  /\ changes' = changes + 1
  /\ \E s \in Secrets :
       forbidden' = IF s \in forbidden THEN forbidden \ {s} ELSE forbidden \cup {s}
  /\ UNCHANGED <<layout, content, known, started, round>>

TargetComes ==
  /\ \E t \in TargetNames \ known : known' = known \cup {t}
  /\ UNCHANGED <<layout, cluster, started, round>>

-----------------------------------------------------------------------------
(***************************************************************************)
(* A round of startExporters                                               *)
(***************************************************************************)

SecretId(t) == <<layout[t].namespace, layout[t].name>>

NamesSecret(t) == layout[t].name # Nil

KeysOf(t) == {layout[t].user, layout[t].pass} \ {Nil}

\* Those whose keys get into id2Keys.
Asking(ts) == {t \in ts : NamesSecret(t) /\ KeysOf(t) # {}}

\* The keys of a secret are those of the target the loop over the batch, which
\* is in the order of a map, comes to last.
Tick ==
  /\ expPc = "tick"
  /\ batch' = {t \in known : started[t] = Nil}
  /\ batch' # {}
  /\ LET ids == {SecretId(t) : t \in Asking(batch')}
     IN  \E last \in [ids -> Asking(batch')] :
           /\ \A s \in ids : SecretId(last[s]) = s
           /\ asked' = [s \in ids |-> KeysOf(last[s])]
  /\ expPc' = "round"
  /\ before' = [s \in Secrets |-> content[s].version]
  /\ UNCHANGED <<layout, cluster, known, started, got, denied>>

\* The secrets whose turn may be next: the first forbidden one ends the loop.
Unread == IF denied THEN {} ELSE DOMAIN asked \ DOMAIN got

Note(s, value) ==
  /\ got' = [r \in DOMAIN got \cup {s} |-> IF r = s THEN value ELSE got[r]]
  /\ UNCHANGED <<layout, cluster, known, started, expPc, batch, asked, denied, before>>

\* GetSecret; "all" is what the secret had besides (history).
Read(s) ==
  /\ expPc = "round" /\ s \in Unread
  /\ s \notin forbidden /\ content[s].exists
  /\ Note(s, [keys |-> asked[s] \cap content[s].keys,
              version |-> content[s].version, all |-> content[s].keys])

\* Mutant: a secret that is not found ends the round for all of them.
NotRead_Ends(s) ==
  /\ expPc = "round" /\ s \in Unread
  /\ s \notin forbidden
  /\ denied' = TRUE
  /\ UNCHANGED <<layout, cluster, known, started, expPc, batch, asked, got, before>>

\* The secret is not found, or the request fails.
NotRead(s) ==
  /\ expPc = "round" /\ s \in Unread
  /\ s \notin forbidden
  /\ Note(s, Nil)

Forbidden(s) ==
  /\ expPc = "round" /\ s \in Unread
  /\ s \in forbidden
  /\ denied' = TRUE
  /\ UNCHANGED <<layout, cluster, known, started, expPc, batch, asked, got, before>>

\* kv # nil
Found(t) == SecretId(t) \in DOMAIN got /\ got[SecretId(t)] # Nil

\* kv[key], unless it is empty; kv[""] is, and so is all of nil.
Value(t, key) ==
  IF NamesSecret(t) /\ Found(t) /\ key \in got[SecretId(t)].keys
  THEN [secret |-> SecretId(t), key |-> key, version |-> got[SecretId(t)].version]
  ELSE Nil

\* Mutant: a secret that was not read is no reason to wait.
Ready_Anyway(t) == NamesSecret(t) => ~denied

Ready(t) == NamesSecret(t) => ~denied /\ Found(t)

StartEach(ts) ==
  /\ expPc = "round" /\ Unread = {}
  /\ ts \subseteq {t \in batch : Ready(t)}
  /\ started' = [t \in TargetNames |->
       IF t \in ts THEN [user |-> Value(t, layout[t].user), pass |-> Value(t, layout[t].pass)]
                   ELSE started[t]]
  /\ expPc' = "tick"
  /\ batch' = {} /\ asked' = <<>> /\ denied' = FALSE
  /\ before' = [s \in Secrets |-> 0]
  /\ UNCHANGED <<layout, cluster, known>>

\* Mutant: what was read is kept for the next round.
StartBatch_KeepsSecrets(ts) == StartEach(ts) /\ UNCHANGED got

\* The loop looks at nothing others change; any constructor may fail.
StartBatch(ts) == StartEach(ts) /\ got' = <<>>

-----------------------------------------------------------------------------

Next ==
  \/ SecretChanges \/ AccessChanges \/ TargetComes
  \/ Tick
  \/ \E s \in Secrets : Read(s) \/ NotRead(s) \/ Forbidden(s)
  \/ \E ts \in SUBSET TargetNames : StartBatch(ts)

Spec == Init /\ [][Next]_vars

\* The goroutine runs; a secret that can be read is read, and an exporter that
\* can be started is, if it is tried again and again.
Fairness ==
  /\ WF_vars(Tick)
  /\ WF_vars(\E s \in Secrets : NotRead(s) \/ Forbidden(s))
  /\ WF_vars(\E ts \in SUBSET TargetNames : StartBatch(ts))
  /\ \A s \in Secrets : SF_vars(Read(s))
  /\ \A t \in TargetNames : SF_vars(\E ts \in SUBSET TargetNames : t \in ts /\ StartBatch(ts))

FairSpec == Spec /\ Fairness

-----------------------------------------------------------------------------
(***************************************************************************)
(* Properties                                                              *)
(***************************************************************************)

Values == [secret : Secrets, key : Keys, version : Nat] \cup {Nil}

\* Types.
TypeOK ==
  /\ content \in [Secrets -> [exists : BOOLEAN, keys : SUBSET Keys, version : Nat]]
  /\ forbidden \subseteq Secrets
  /\ known \subseteq TargetNames /\ batch \subseteq known
  /\ started \in [TargetNames -> [user : Values, pass : Values] \cup {Nil}]
  /\ expPc \in {"tick", "round"} /\ denied \in BOOLEAN
  /\ DOMAIN got \subseteq DOMAIN asked /\ DOMAIN asked \subseteq Secrets
  /\ \A s \in DOMAIN asked : asked[s] \subseteq Keys /\ asked[s] # {}

Starts(t) == started[t] = Nil /\ started'[t] # Nil

GivenItsOwn(t) ==
  LET c     == started'[t]
      given == {c.user, c.pass} \ {Nil}
  IN  /\ c.user # Nil => c.user.key = layout[t].user
      /\ c.pass # Nil => c.pass.key = layout[t].pass
      /\ \A v \in given : v.secret = SecretId(t) /\ v.version >= before[v.secret]
      /\ \A v, w \in given : v.version = w.version

\* Targets of secrets with equal names or different keys share the maps id2Keys
\* and secrets while secrets are rotated, and a target that failed to start is
\* tried again: whatever it is given is its own, of one state of its secret, and
\* not older than the round.
StartsWithItsOwn == [][\A t \in TargetNames : Starts(t) => GivenItsOwn(t)]_vars

\* A target whose secret holds what it names is started without it only if
\* another target of the batch names this secret with other keys; id2Keys keeps
\* the keys of one of them.
EmptyNeedsRival ==
  [][\A t \in TargetNames : Starts(t) /\ NamesSecret(t) =>
       LET s == <<layout[t].namespace, layout[t].name>>
           Missed(key, value) == key # Nil /\ value = Nil
                                 /\ (Found(t) => key \in got[s].all)
       IN  \/ Missed(layout[t].user, started'[t].user)
           \/ Missed(layout[t].pass, started'[t].pass)
           => \E u \in batch : /\ <<layout[u].namespace, layout[u].name>> = s
                               /\ KeysOf(u) \notin {KeysOf(t), {}}]_vars

\* Whether nothing keeps a target from its secret: one forbidden secret of
\* another target would (the loop over the secrets ends there).
Unhindered(t) ==
  /\ t \in known /\ NamesSecret(t) /\ KeysOf(t) # {}
  /\ content[SecretId(t)].exists
  /\ \A u \in Asking(known) : started[u] = Nil => SecretId(u) \notin forbidden

\* A target whose secret appears late, or could not be read for a while, is
\* started in the end; that the secret of another is missing does not matter.
StartsInTheEnd ==
  \A t \in TargetNames : <>[]Unhindered(t) => <>(started[t] # Nil)
=============================================================================
