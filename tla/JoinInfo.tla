------------------------------ MODULE JoinInfo ------------------------------
(***************************************************************************)
(* pkg/nodemanager/token.go: GetWorkJoinInfo, which reads where and whom   *)
(* to join from the cluster, and GetToken, which makes a bootstrap token   *)
(* and stores it as a Secret.                                              *)
(*                                                                         *)
(* Each caller is a manager process at the last phase of a launch; every   *)
(* attempt of a launch makes a token of its own.  The look-up of a token,  *)
(* its creation and its update are three requests to the API server: other *)
(* callers and the administrator act between them, each of them may fail,  *)
(* and one that went through may be answered with an error.                *)
(***************************************************************************)
EXTENDS Integers

CONSTANTS
  Callers,       \* the processes
  Ids,           \* token ids: six random characters, which name the Secret
  Names,         \* names of clusters and contexts, "" among them
  KubeConfigs,   \* what the ConfigMap cluster-info may hold
  TTL,           \* 24 hours, in ticks
  MaxTokens      \* bound: tokens made by the callers

VARIABLES
  secrets,   \* the token Secrets in kube-system, by token id
  made,      \* how many tokens were generated
  pc,        \* the request a caller is about to make
  id, key,   \* the token it has generated: its id and its random part
  left,      \* the time left until the expiry written into its Secret
  info,      \* what GetWorkJoinInfo has returned to Join
  stored,    \* history: the tokens that were ever stored
  known,     \* history: `stored' when the caller has looked its id up
  blind      \* history: its look-up was answered with an error

vars == <<secrets, made, pc, id, key, left, info, stored, known, blind>>

AdminKey == 0            \* the token the administrator makes
Keys     == 0 .. MaxTokens
NoExpiry == -1
NoId     == "none"

InGetToken == { "get", "create", "update" }

Absent == [key |-> -1, left |-> 0]
Secret == [key: Keys, left: { NoExpiry } \cup 0 .. TTL]

\* A cluster of a kubeconfig: its certificates, as data or as a file.
Cluster    == [data: { "none", "bad", "certs" }, file: { "none", "bad", "certs" }]
NoCluster  == [data |-> "nil", file |-> "nil"]
NoContext  == "nil"
KubeConfig == [ clusters: [Names -> Cluster \cup { NoCluster }],
                contexts: [Names -> Names \cup { NoContext }], current: Names ]

ASSUME ConfigAssumption ==
  "" \in Names /\ NoContext \notin Names /\ KubeConfigs \subseteq KubeConfig

ASSUME TokenAssumption == NoId \notin Ids /\ TTL \in Nat \ {0} /\ MaxTokens \in Nat

TypeOK ==
  /\ secrets \in [Ids -> Secret \cup { Absent }]
  /\ made \in Keys
  /\ pc \in [Callers -> { "idle", "get", "create", "update", "join" }]
  /\ id \in [Callers -> Ids \cup { NoId }] /\ key \in [Callers -> Keys]
  /\ left \in [Callers -> { NoExpiry } \cup 0 .. TTL]
  /\ info \in [Callers -> { "empty", "whole" }]
  /\ stored \in SUBSET Keys /\ known \in [Callers -> SUBSET Keys]
  /\ blind \in [Callers -> BOOLEAN]
  /\ \A c \in Callers : pc[c] \in InGetToken => id[c] \in Ids

Init ==
  /\ secrets = [i \in Ids |-> Absent]
  /\ made = 0
  /\ pc = [c \in Callers |-> "idle"]
  /\ id = [c \in Callers |-> NoId] /\ key = [c \in Callers |-> AdminKey]
  /\ left = [c \in Callers |-> 0]
  /\ info = [c \in Callers |-> "empty"]
  /\ stored = {} /\ known = [c \in Callers |-> {}]
  /\ blind = [c \in Callers |-> FALSE]

-----------------------------------------------------------------------------
(***************************************************************************)
(* The kubeconfig.                                                         *)
(***************************************************************************)

\* The unnamed cluster, else the one of the current context, else none.
GetClusterFromKubeConfig(config) ==
  LET context == config.contexts[config.current]
  IN  CASE config.clusters[""] # NoCluster -> config.clusters[""]
        [] config.clusters[""] = NoCluster /\ context # NoContext -> config.clusters[context]
        [] OTHER -> NoCluster

\* The certificates are parsed, from the data or else from the file, and the
\* hash of the first is the pin.  A parser that finds none returns an error.
HasPin(cluster) ==
  IF cluster.data # "none" THEN cluster.data = "certs" ELSE cluster.file = "certs"

\* The kubeconfigs from which GetWorkJoinInfo learns where and whom to join.
Usable ==
  { config \in KubeConfigs : LET cluster == GetClusterFromKubeConfig(config)
                             IN  cluster # NoCluster /\ HasPin(cluster) }

-----------------------------------------------------------------------------
(***************************************************************************)
(* GetWorkJoinInfo, one action per request.                                *)
(***************************************************************************)
Local == <<made, id, key, left, known, blind>>

\* The variables of the caller's call of GetToken are gone.
Forget(c) ==
  /\ left' = [left EXCEPT ![c] = 0]
  /\ known' = [known EXCEPT ![c] = {}]
  /\ blind' = [blind EXCEPT ![c] = FALSE]

NoToken(c) == id' = [id EXCEPT ![c] = NoId] /\ key' = [key EXCEPT ![c] = AdminKey]

\* GetWorkJoinInfo returns an error and nothing else; the error is only
\* logged, and Join goes on.
ReturnError(c) ==
  /\ info' = [info EXCEPT ![c] = "empty"]
  /\ pc' = [pc EXCEPT ![c] = "join"]
  /\ NoToken(c) /\ Forget(c) /\ UNCHANGED made

\* GetWorkJoinInfo returns the host, the token and the hash.
ReturnInfo(c) ==
  /\ info' = [info EXCEPT ![c] = "whole"]
  /\ pc' = [pc EXCEPT ![c] = "join"]
  /\ Forget(c) /\ UNCHANGED <<made, id, key>>

\* The client or the ConfigMap is not to be had or its kubeconfig is of no
\* use, or there is a cluster to join and a token is generated.
GetWorkJoinInfo(c) ==
  /\ pc[c] = "idle"
  /\ UNCHANGED <<secrets, stored>>
  /\ \/ ReturnError(c)
     \/ /\ Usable # {}
        /\ made < MaxTokens
        /\ made' = made + 1
        /\ \E i \in Ids : id' = [id EXCEPT ![c] = i]
        /\ key' = [key EXCEPT ![c] = made + 1]
        /\ pc' = [pc EXCEPT ![c] = "get"]
        /\ UNCHANGED <<info, left, known, blind>>

\* Mutant: the token is stored without an expiry.
NoExpirySecret(c) == left' = [left EXCEPT ![c] = NoExpiry]

\* Mutant: the TTL is added to an expiry that is set already.
ExpiryAndTTL(c) == left' = [left EXCEPT ![c] = TTL + TTL]

\* The Secret is made, with the expiry a TTL from now.
BootstrapTokenToSecret(c) == left' = [left EXCEPT ![c] = TTL]

\* Mutant: a token that is there already does not end the call.
GetTokenAnyway(c) ==
  /\ pc[c] = "get"
  /\ UNCHANGED <<secrets, stored, made, id, key, info>>
  /\ pc' = [pc EXCEPT ![c] = "create"]
  /\ known' = [known EXCEPT ![c] = stored]
  /\ blind' = [blind EXCEPT ![c] = FALSE]
  /\ BootstrapTokenToSecret(c)

\* The look-up: a Secret of that name is an error.  One that is not found and
\* an answer that is an error of any other kind are taken alike.
GetToken(c) ==
  /\ pc[c] = "get"
  /\ UNCHANGED <<secrets, stored>>
  /\ \/ secrets[id[c]] # Absent /\ ReturnError(c)
     \/ \E failed \in BOOLEAN :
          /\ secrets[id[c]] = Absent \/ failed
          /\ pc' = [pc EXCEPT ![c] = "create"]
          /\ known' = [known EXCEPT ![c] = stored]
          /\ blind' = [blind EXCEPT ![c] = failed]
          /\ BootstrapTokenToSecret(c)
          /\ UNCHANGED <<made, id, key, info>>

\* The API server stores the Secret of the caller's token.  The answer may
\* be lost, which the caller takes for a failure.
Store(c) ==
  /\ secrets' = [secrets EXCEPT ![id[c]] = [key |-> key[c], left |-> left[c]]]
  /\ stored' = stored \cup { key[c] }
  /\ ReturnInfo(c) \/ ReturnError(c)

\* Mutant: any error of the creation means that the Secret is there.
CreateSecretOrIgnore(c) ==
  /\ pc[c] = "create"
  /\ \/ secrets[id[c]] = Absent /\ Store(c)
     \/ UNCHANGED <<secrets, stored>> /\ ReturnInfo(c)

\* CreateOrUpdateSecret, the creation: it goes through, finds the name taken,
\* or fails.
CreateSecret(c) ==
  /\ pc[c] = "create"
  /\ \/ secrets[id[c]] = Absent /\ Store(c)
     \/ /\ secrets[id[c]] # Absent
        /\ pc' = [pc EXCEPT ![c] = "update"]
        /\ UNCHANGED <<secrets, stored, Local, info>>
     \/ UNCHANGED <<secrets, stored>> /\ ReturnError(c)

\* CreateOrUpdateSecret, the update, without a precondition on what is stored;
\* it fails when the Secret has gone again.
UpdateSecret(c) ==
  /\ pc[c] = "update"
  /\ \/ secrets[id[c]] # Absent /\ Store(c)
     \/ UNCHANGED <<secrets, stored>> /\ ReturnError(c)

End(c) ==
  /\ pc' = [pc EXCEPT ![c] = "idle"]
  /\ info' = [info EXCEPT ![c] = "empty"]
  /\ NoToken(c) /\ Forget(c) /\ UNCHANGED <<secrets, stored, made>>

\* Join runs the script with what it was given, and the launch ends.
Join(c) == pc[c] = "join" /\ End(c)

\* The process dies; its next launch starts over.
Crash(c) == pc[c] # "idle" /\ End(c)

-----------------------------------------------------------------------------
(***************************************************************************)
(* The rest of the cluster: `kubeadm token create' and `delete', the       *)
(* controller that removes expired tokens, and time.                       *)
(***************************************************************************)
AdminCreate(i) ==
  /\ AdminKey \notin stored /\ secrets[i] = Absent
  /\ secrets' = [secrets EXCEPT ![i] = [key |-> AdminKey, left |-> NoExpiry]]
  /\ stored' = stored \cup { AdminKey }
  /\ UNCHANGED <<Local, pc, info>>

AdminDelete(i) ==
  /\ secrets[i] # Absent
  /\ secrets' = [secrets EXCEPT ![i] = Absent]
  /\ UNCHANGED <<stored, Local, pc, info>>

TokenCleaner(i) == secrets[i].left = 0 /\ AdminDelete(i)

Later(l) == IF l > 0 THEN l - 1 ELSE l

Tick ==
  /\ \/ \E i \in Ids : secrets[i].left > 0
     \/ \E c \in Callers : pc[c] \in { "create", "update" } /\ left[c] > 0
  /\ secrets' = [i \in Ids |-> [secrets[i] EXCEPT !.left = Later(@)]]
  /\ left' = [c \in Callers |-> IF pc[c] \in { "create", "update" } THEN Later(left[c]) ELSE left[c]]
  /\ UNCHANGED <<stored, made, id, key, known, blind, pc, info>>

Call(c) == GetToken(c) \/ CreateSecret(c) \/ UpdateSecret(c) \/ Join(c)

Next ==
  \/ \E c \in Callers : GetWorkJoinInfo(c) \/ Call(c) \/ Crash(c)
  \/ \E i \in Ids : AdminCreate(i) \/ AdminDelete(i) \/ TokenCleaner(i)
  \/ Tick

Fairness == WF_vars(Tick) /\ \A i \in Ids : WF_vars(TokenCleaner(i))

Spec == Init /\ [][Next]_vars

FairSpec == Spec /\ Fairness

-----------------------------------------------------------------------------
(***************************************************************************)
(* Properties.                                                             *)
(***************************************************************************)

\* Join is given a token only when that token was stored for it: any failure
\* on the way, a lost answer included, leaves it with nothing at all.
TokenIsStored ==
  \A c \in Callers : pc[c] = "join" /\ info[c] = "whole" => key[c] \in stored

\* A token that is being made is nobody else's and was never stored.
FreshKeys ==
  /\ stored \subseteq 0 .. made
  /\ \A c \in Callers :
       /\ known[c] \subseteq stored
       /\ pc[c] \in InGetToken => key[c] \in (1 .. made) \ stored
       /\ \A d \in Callers \ { c } :
            pc[c] \in InGetToken /\ pc[d] \in InGetToken => key[c] # key[d]

\* A caller whose look-up was answered finds under its id only a token that
\* was stored since then.
NameWasFree ==
  \A c \in Callers :
    pc[c] \in { "create", "update" } /\ ~ blind[c] /\ secrets[id[c]] # Absent
      => secrets[id[c]].key \in stored \ known[c]

\* The inductive invariant behind OverwriteNeedsRace and TokenIsStored.
TokenInv == FreshKeys /\ NameWasFree /\ TokenIsStored

\* The unconditional update replaces a token of somebody else only when that
\* token was stored after the caller's look-up, or the look-up had failed: a
\* token that a caller could have seen, and that another machine may be
\* joining with or the administrator may rely on, keeps its Secret.
OverwriteNeedsRace ==
  [][ \A i \in Ids :
        secrets[i] # Absent /\ secrets'[i] # Absent /\ secrets'[i].key # secrets[i].key =>
          \E c \in Callers : /\ id[c] = i /\ secrets'[i].key = key[c]
                             /\ blind[c] \/ secrets[i].key \notin known[c] ]_vars

\* A token that was made for a launch does not stay: it expires and is
\* removed, also when the call that stored it failed or its process died and
\* nobody knows the token.
LeftoversExpire ==
  \A k \in Keys \ { AdminKey } :
    (\E i \in Ids : secrets[i].key = k) ~> (\A i \in Ids : secrets[i].key # k)

=============================================================================
