---------------------------- MODULE ClusterJoin ----------------------------
(***************************************************************************)
(* kubefnord join (pkg/kubefnord/join.go): each Joiner is one run of the   *)
(* command at a time, a sequence of API calls in the host and in the       *)
(* member.  Nothing is undone when a call fails, a reply is lost or the    *)
(* command is killed.  A dry run makes none of the calls and is left out.  *)
(***************************************************************************)
EXTENDS ClusterObjects

CONSTANT Joiners   \* administrators who run the command

ASSUME JoinersAssumption == "none" \notin Joiners

VARIABLE join      \* [j] the command that j runs

JoinSteps == {"none", "preflight", "registry", "namespace", "account", "role",
              "binding", "token", "secret", "cluster", "done", "failed"}

\* adds: --add-to-registry; secret: 0 for the name given by --secret-name, or
\* a number of this attempt alone for a generated name.
Command == [step : JoinSteps, at : Clusters, adds : BOOLEAN, secret : Nat]

\* account: who created the service account.
Member   == [namespace : BOOLEAN, account : Joiners \cup {"none"},
             role : BOOLEAN, binding : BOOLEAN]
NoMember == [namespace |-> FALSE, account |-> "none", role |-> FALSE,
             binding |-> FALSE]

JoinTypeOK == /\ join \in [Joiners -> Command]
              /\ member \in [Clusters -> Member]

JoinInit ==
  /\ join = [j \in Joiners |->
               [step |-> "none", at |-> CHOOSE c \in Clusters : TRUE,
                adds |-> FALSE, secret |-> 0]]
  /\ member = [c \in Clusters |-> NoMember]

Running(j)  == join[j].step \notin {"none", "done", "failed"}
Move(j, s)  == join' = [join EXCEPT ![j].step = s]

StartJoin(j, c) ==
  /\ ~Running(j)
  /\ Spend("join")
  /\ \E adds \in BOOLEAN, named \in BOOLEAN :
       join' = [join EXCEPT ![j] =
                  [step |-> "preflight", at |-> c, adds |-> adds,
                   secret |-> IF named THEN 0 ELSE left["join"]]]
  /\ UNCHANGED <<cluster, credentialVars, health, watchVars, historyVars>>

\* A call fails, or the command is killed, before it has any effect.
FailJoin(j) ==
  /\ Running(j)
  /\ Spend("mishap")
  /\ Move(j, "failed")
  /\ UNCHANGED <<cluster, credentialVars, health, watchVars, historyVars>>

\* The command goes on to step next, unless the reply of the call is lost.
Proceed(j, next) == \/ Move(j, next) /\ UNCHANGED left
                    \/ Move(j, "failed") /\ Spend("mishap")
Refused(j)       == Move(j, "failed") /\ UNCHANGED left

\* No service account may be left from an earlier join.
Preflight(j) ==
  LET c == join[j].at IN
  /\ join[j].step = "preflight"
  /\ IF member[c].namespace /\ member[c].account # "none"
       THEN Refused(j) ELSE Move(j, "registry") /\ UNCHANGED left
  /\ UNCHANGED <<cluster, credentialVars, health, watchVars, historyVars>>

\* addToClusterRegistry or verifyExistsInClusterRegistry.
CheckRegistry(j) ==
  LET c == join[j].at IN
  /\ join[j].step = "registry"
  /\ \/ /\ join[j].adds /\ c \notin registry
        /\ registry' = registry \cup {c} /\ Proceed(j, "namespace")
     \/ /\ ~join[j].adds /\ c \in registry
        /\ Move(j, "namespace") /\ UNCHANGED <<registry, left>>
     \/ /\ join[j].adds = (c \in registry)
        /\ Refused(j) /\ UNCHANGED registry
  /\ UNCHANGED <<cluster, secrets, member, health, watchVars, historyVars>>

\* An existing namespace is good enough.
CreateNamespace(j) ==
  /\ join[j].step = "namespace"
  /\ member' = [member EXCEPT ![join[j].at].namespace = TRUE]
  /\ Proceed(j, "account")
  /\ UNCHANGED <<cluster, registry, secrets, health, watchVars, historyVars>>

\* Creation of the service account fails if there is one: of several joins of
\* a cluster one goes on.
\* Mutant: an existing account is good enough.
AccountFreeForAll(j) == TRUE
AccountFree(j) == member[join[j].at].account = "none"

CreateServiceAccount(j) ==
  /\ join[j].step = "account"
  /\ IF AccountFree(j)
       THEN /\ member' = [member EXCEPT ![join[j].at].account = j]
            /\ Proceed(j, "role")
       ELSE Refused(j) /\ UNCHANGED member
  /\ UNCHANGED <<cluster, registry, secrets, health, watchVars, historyVars>>

CreateClusterRole(j) ==
  /\ join[j].step = "role"
  /\ IF ~member[join[j].at].role
       THEN /\ member' = [member EXCEPT ![join[j].at].role = TRUE]
            /\ Proceed(j, "binding")
       ELSE Refused(j) /\ UNCHANGED member
  /\ UNCHANGED <<cluster, registry, secrets, health, watchVars, historyVars>>

CreateClusterRoleBinding(j) ==
  /\ join[j].step = "binding"
  /\ IF ~member[join[j].at].binding
       THEN /\ member' = [member EXCEPT ![join[j].at].binding = TRUE]
            /\ Proceed(j, "token")
       ELSE Refused(j) /\ UNCHANGED member
  /\ UNCHANGED <<cluster, registry, secrets, health, watchVars, historyVars>>

\* The member's token controller gives the account a secret; the wait for it
\* may time out, which is FailJoin.
FindToken(j) ==
  /\ join[j].step = "token"
  /\ Move(j, "secret")
  /\ UNCHANGED <<cluster, credentialVars, health, watchVars, historyVars,
                 left>>

PopulateSecret(j) ==
  LET c == join[j].at IN
  /\ join[j].step = "secret"
  /\ IF join[j].secret \notin secrets[c]
       THEN /\ secrets' = [secrets EXCEPT ![c] = @ \cup {join[j].secret}]
            /\ Proceed(j, "cluster")
       ELSE Refused(j) /\ UNCHANGED secrets
  /\ UNCHANGED <<cluster, registry, member, health, watchVars, historyVars>>

\* Mutant: it starts with a condition of its own that nobody knows.
JoinedUnknown(o, secret) ==
  [live |-> TRUE, uid |-> o.uid + 1, secret |-> secret, rev |-> 0,
   condition |-> "unknown", since |-> 0]
Joined(o, secret) == [live |-> TRUE, uid |-> o.uid + 1, secret |-> secret,
                      rev |-> 0, condition |-> "none", since |-> 0]

CreateFederatedCluster(j) ==
  LET c == join[j].at IN
  /\ join[j].step = "cluster"
  /\ IF ~cluster[c].live
       THEN Publish(c, Joined(cluster[c], join[j].secret)) /\ Proceed(j, "done")
       ELSE Refused(j) /\ UNCHANGED <<cluster, events>>
  /\ UNCHANGED <<credentialVars, health, store, watching, historyVars>>

\* JoinCluster.
JoinCluster(j) ==
  \/ Preflight(j) \/ CheckRegistry(j) \/ CreateNamespace(j)
  \/ CreateServiceAccount(j) \/ CreateClusterRole(j)
  \/ CreateClusterRoleBinding(j) \/ FindToken(j) \/ PopulateSecret(j)
  \/ CreateFederatedCluster(j)

\* The documented unjoin: an administrator deletes everything that belongs to
\* the cluster, while nobody joins it.
Unjoin(c) ==
  /\ \A j \in Joiners : Running(j) => join[j].at # c
  /\ Spend("unjoin")
  /\ IF cluster[c].live THEN Publish(c, Removed(cluster[c]))
     ELSE UNCHANGED <<cluster, events>>
  /\ registry' = registry \ {c}
  /\ secrets' = [secrets EXCEPT ![c] = {}]
  /\ member' = [member EXCEPT ![c] = NoMember]
  /\ UNCHANGED <<health, store, watching, historyVars, join>>

-----------------------------------------------------------------------------
(* Properties *)

\* The steps of a join that has created its service account.
Established == {"role", "binding", "token", "secret", "cluster"}

\* A FederatedCluster has its credentials behind it, and the account is of the
\* one who joined it: of several joins of a cluster, running at once or left
\* half-way, at most one gets past the service account (join.go:187-258), and
\* it finds its role, binding and secret in place at the end.
JoinInv ==
  /\ \A j \in Joiners : join[j].step \in Established =>
       /\ member[join[j].at].account = j
       /\ ~cluster[join[j].at].live
  /\ \A j \in Joiners :
       LET c == join[j].at IN
       /\ join[j].step \in Established \cup {"namespace", "account"}
            => c \in registry
       /\ join[j].step \in Established => member[c].namespace
       /\ join[j].step \in {"binding", "token", "secret", "cluster"}
            => member[c].role
       /\ join[j].step \in {"token", "secret", "cluster"} => member[c].binding
       /\ join[j].step = "cluster" => join[j].secret \in secrets[c]
  /\ \A c \in Clusters : cluster[c].live =>
       /\ CanConnect(c, cluster[c])
       /\ member[c].namespace /\ member[c].account # "none"
       /\ member[c].role /\ member[c].binding
=============================================================================
