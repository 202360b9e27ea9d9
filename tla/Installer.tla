----------------------------- MODULE Installer -----------------------------
(***************************************************************************)
(* wren install and wren uninstall against a cluster.                      *)
(*                                                                         *)
(* A command is a sequence of calls to tools and to the API server, each   *)
(* an action here; any of them may be the last, because it fails, times    *)
(* out or is interrupted.  The remedy for every failure is to run the      *)
(* command again, with the same options or with others, and two people may *)
(* run commands at the same time.  Meanwhile the cluster starts pods and   *)
(* finishes the deletions that were requested.                             *)
(*                                                                         *)
(* The cluster and the registry are external; they do what kube.go,        *)
(* steps.go and gke.go rely on.                                            *)
(***************************************************************************)
EXTENDS Naturals, Sequences

CONSTANTS
  People,         \* who runs commands; each one at a time
  InstallOptions, UninstallOptions,  \* the options they choose from
  RunNamespaces,  \* values of --run-namespace, the default among them
  Tags,           \* image tags, "dev" among them
  MaxCommands,    \* bound: commands begun
  MaxConcurrent   \* bound: only so many of them begin before the others have ended

System == "wren-system"
DefaultNs == "wren-runs"
Namespaces == {System} \cup RunNamespaces
Deployments == {"operator", "apiserver"}
Scoped == {"CRD", "RBAC"}
Absent == "absent"

ASSUME InstallerAssumption ==
  /\ DefaultNs \in RunNamespaces /\ System \notin RunNamespaces /\ "dev" \in Tags
  /\ Absent \notin Tags \cup RunNamespaces /\ Scoped \cap RunNamespaces = {}
  /\ MaxCommands \in Nat /\ MaxConcurrent \in Nat
  /\ InstallOptions \subseteq [kind : BOOLEAN, registry : BOOLEAN, create : BOOLEAN, tag : Tags,
                               ns : RunNamespaces, creds : BOOLEAN, expose : BOOLEAN]
  /\ UninstallOptions \subseteq [ns : RunNamespaces, delete : BOOLEAN]

VARIABLES
  person,    \* per person: the command, its position and what it holds in memory
  local,     \* the cluster is a kind cluster; otherwise it is elsewhere
  exists,    \* the cluster exists
  granted,   \* its nodes may pull from the registry
  built,     \* per image: the tags delivered
  kube,      \* the objects in the cluster
  commands, nextToken,
  mixed      \* history: an install went on with a token other than the system's

vars == <<person, local, exists, granted, built, kube, commands, nextToken, mixed>>

\* The runtime and harness images are delivered with them and run in no
\* Deployment.
Images == <<"operator", "apiserver">>
Manifests == <<"Namespace", "CRD", "RBAC", "Service", "apiserver", "operator">>

\* A pod template: the image's tag and what the installer sets in it, the
\* operator's --runtime-image or the apiserver's WREN_DEFAULT_RUN_NAMESPACE.
Templates == [tag : Tags, arg : Tags \cup RunNamespaces]
Shipped(d) == [tag |-> "dev", arg |-> IF d = "apiserver" THEN DefaultNs ELSE "dev"]
None == [tag |-> Absent, arg |-> Absent]
NoPod == [template |-> None, old |-> FALSE, token |-> 0]

\* dying: the namespaces, and the CRD, that were deleted and are not yet gone.
EmptyKube ==
  [namespaces |-> {}, dying |-> {}, scoped |-> {}, service |-> Absent,
   deploy |-> [d \in Deployments |-> None], pod |-> [d \in Deployments |-> NoPod],
   token |-> [n \in Namespaces |-> 0], creds |-> {}]

\* doomed is a history: what an install took for existing although it was dying.
Nobody == [pc |-> "idle", cmd |-> "none", opts |-> [ns |-> Absent], alone |-> FALSE, step |-> 1,
           token |-> 0, fresh |-> FALSE, blind |-> FALSE, doomed |-> {}]

At(p, label) == person[p].pc = label
Idle(p) == person[p].pc \in {"idle", "done"}
Opts(p) == person[p].opts
Moved(r, label) ==
  CASE label = "failed" -> Nobody
    [] label = "done" -> [r EXCEPT !.pc = label, !.token = 0]
    [] OTHER -> [r EXCEPT !.pc = label]
GoTo(p, label) == person' = [person EXCEPT ![p] = Moved(@, label)]

\* A call to the API server, which needs a cluster to answer; ok is what the
\* call requires of it, k what it makes of it.
Call(p, label, next, ok, k) ==
  /\ At(p, label)
  /\ \/ exists /\ ok /\ kube' = k /\ GoTo(p, next)
     \/ ~(exists /\ ok) /\ GoTo(p, "failed") /\ UNCHANGED kube
  /\ UNCHANGED <<local, exists, granted, built, commands, nextToken>>

\* New objects are refused in a namespace that is absent or being deleted;
\* objects that are there can be changed until they are gone.
Creatable(ns) == ns \in kube.namespaces \ kube.dying

----------------------------------------------------------------------------
(* Beginning and ending a command *)

\* Commands that overlap are marked: they did not run alone.
Begin(p, cmd, o) ==
  /\ Idle(p)
  /\ commands < MaxCommands
  /\ commands' = commands + 1
  /\ LET others == {q \in People \ {p} : ~Idle(q)}
     IN  /\ others # {} => commands < MaxConcurrent
         /\ person' = [q \in People |->
              CASE q = p -> [Nobody EXCEPT !.pc = "begun", !.cmd = cmd, !.opts = o, !.alone = others = {}]
                [] q \in others -> [person[q] EXCEPT !.alone = FALSE]
                [] OTHER -> Nobody]
  /\ UNCHANGED <<local, exists, granted, built, kube, nextToken>>

\* --kind names its cluster itself; the other options are for clusters elsewhere.
BeginInstall(p) == \E o \in InstallOptions : o.kind = local /\ Begin(p, "install", o)
BeginUninstall(p) ==
  \E o \in UninstallOptions : (o.delete => ~local) /\ Begin(p, "uninstall", o)

\* A tool is missing, a call fails, a wait times out, the terminal is closed.
Abort(p) ==
  /\ ~Idle(p)
  /\ GoTo(p, "failed")
  /\ UNCHANGED <<local, exists, granted, built, kube, commands, nextToken>>

----------------------------------------------------------------------------
(* Install *)

\* validateInstallOptions.
Valid(o) == o.kind # o.registry /\ (o.create => o.registry)

\* checkServer: the cluster must answer.
CheckServer == IF exists THEN "apply" ELSE "failed"

\* Validation, ensureKind and provisionGKE's cluster.  A describe that fails is
\* taken for an absent cluster, and creating an existing one is an error.
EnsureCluster(p) ==
  LET o == Opts(p)
  IN  /\ At(p, "begun") /\ person[p].cmd = "install"
      /\ \/ ~Valid(o) /\ GoTo(p, "failed") /\ UNCHANGED exists
         \/ Valid(o) /\ (o.kind \/ o.create) /\ exists' = TRUE
            /\ GoTo(p, IF o.create THEN "grant" ELSE "apply")
         \/ Valid(o) /\ o.create /\ exists /\ GoTo(p, "failed") /\ UNCHANGED exists
         \/ Valid(o) /\ ~o.kind /\ ~o.create /\ GoTo(p, CheckServer) /\ UNCHANGED exists
      /\ UNCHANGED <<local, granted, built, kube, commands, nextToken>>

\* grantNodePull, the end of provisionGKE.
GrantNodePull(p) ==
  /\ At(p, "grant")
  /\ granted' = TRUE
  /\ GoTo(p, CheckServer)
  /\ UNCHANGED <<local, exists, built, kube, commands, nextToken>>

\* Server-side apply, forced: what the manifest says replaces what earlier
\* installs have set.
Applied(o) ==
  CASE o = "Namespace" -> [kube EXCEPT !.namespaces = @ \cup {System}]
    [] o \in Scoped -> [kube EXCEPT !.scoped = @ \cup {o}]
    [] o = "Service" -> [kube EXCEPT !.service = "ClusterIP"]
    [] OTHER -> [kube EXCEPT !.deploy[o] = Shipped(o)]

Applicable(o) ==
  /\ o = "Service" => kube.service # Absent \/ Creatable(System)
  /\ o \in Deployments => kube.deploy[o] # None \/ Creatable(System)
Doomed(o) ==
  kube.dying \cap CASE o = "Namespace" -> {System} [] o = "CRD" -> {"CRD"} [] OTHER -> {}

\* ApplyManifests, one object after the other.
ApplyManifests(p) ==
  LET o == Manifests[person[p].step]
      last == person[p].step = Len(Manifests)
      ok == exists /\ Applicable(o)
  IN  /\ At(p, "apply")
      /\ \/ /\ ok
            /\ kube' = Applied(o)
            /\ person' = [person EXCEPT ![p].step = IF last THEN 1 ELSE @ + 1,
                                        ![p].pc = IF last THEN "images" ELSE @,
                                        ![p].doomed = @ \cup Doomed(o)]
         \/ ~ok /\ GoTo(p, "failed") /\ UNCHANGED kube
      /\ UNCHANGED <<local, exists, granted, built, commands, nextToken>>

\* resolveTag, and the tag of kind images.
Tag(p) == IF Opts(p).kind THEN "dev" ELSE Opts(p).tag

\* A running pod of a tag that is delivered again has an old build.
Outdated(d, tag) == [kube.pod[d] EXCEPT !.old = @ \/ kube.pod[d].template.tag = tag]

\* kindImages builds all images and loads them together.
KindImages(p) ==
  /\ At(p, "images") /\ Opts(p).kind
  /\ built' = [d \in Deployments |-> built[d] \cup {"dev"}]
  /\ kube' = [kube EXCEPT !.pod = [d \in Deployments |-> Outdated(d, "dev")]]
  /\ person' = [person EXCEPT ![p].fresh = "dev" \notin built["apiserver"], ![p].pc = "namespace"]
  /\ UNCHANGED <<local, exists, granted, commands, nextToken>>

\* registryImages pushes one image after the other.
RegistryImages(p) ==
  LET i == Images[person[p].step]
      last == person[p].step = Len(Images)
  IN  /\ At(p, "images") /\ Opts(p).registry
      /\ built' = [built EXCEPT ![i] = @ \cup {Tag(p)}]
      /\ kube' = [kube EXCEPT !.pod = [d \in Deployments |->
                    IF d = i THEN Outdated(d, Tag(p)) ELSE kube.pod[d]]]
      /\ person' = [person EXCEPT ![p].fresh = Tag(p) \notin built[i],
                                  ![p].step = IF last THEN 1 ELSE @ + 1,
                                  ![p].pc = IF last THEN "overrideOperator" ELSE @]
      /\ UNCHANGED <<local, exists, granted, commands, nextToken>>

\* OverrideImages: the operator's Deployment, then the apiserver's.
OverrideOperator(p) ==
  Call(p, "overrideOperator", "overrideApiserver", kube.deploy["operator"] # None,
       [kube EXCEPT !.deploy["operator"] = [tag |-> Tag(p), arg |-> Tag(p)]])
OverrideApiserver(p) ==
  Call(p, "overrideApiserver", "namespace", kube.deploy["apiserver"] # None,
       [kube EXCEPT !.deploy["apiserver"].tag = Tag(p)])

\* EnsureNamespace: one that is being deleted already exists.
EnsureRunNs(p, label, next) ==
  LET ns == Opts(p).ns
  IN  /\ At(p, label)
      /\ \/ /\ exists
            /\ kube' = [kube EXCEPT !.namespaces = @ \cup {ns}]
            /\ person' = [person EXCEPT ![p].pc = next, ![p].doomed = @ \cup ({ns} \cap kube.dying)]
         \/ ~exists /\ GoTo(p, "failed") /\ UNCHANGED kube
      /\ UNCHANGED <<local, exists, granted, built, commands, nextToken>>
EnsureNamespace(p) == EnsureRunNs(p, "namespace", "read")

\* Mutant: every install makes a new token.
SecretValueNever == 0
\* SecretValue: empty when there is no Secret.
SecretValue == kube.token[System]

\* gatewayCredential keeps the system's token and generates one if there is none.
ReadToken(p) ==
  LET token == IF SecretValue = 0 THEN nextToken ELSE SecretValue
  IN  /\ At(p, "read")
      /\ \/ /\ exists
            /\ person' = [person EXCEPT ![p].token = token, ![p].pc = "writeSystem"]
            /\ nextToken' = nextToken + IF SecretValue = 0 THEN 1 ELSE 0
         \/ ~exists /\ GoTo(p, "failed") /\ UNCHANGED nextToken
      /\ UNCHANGED <<local, exists, granted, built, kube, commands>>

\* UpsertSecret for the token, in the system namespace and in the run namespace:
\* an update, or a creation when there is none.
UpsertToken(p, label, next, ns) ==
  Call(p, label, next, kube.token[ns] # 0 \/ Creatable(ns), [kube EXCEPT !.token[ns] = person[p].token])
WriteSystemToken(p) == UpsertToken(p, "writeSystem", "writeRun", System)
WriteRunToken(p) == UpsertToken(p, "writeRun", "credentials", Opts(p).ns)

\* The provider keys that were given or found; without any, there is no call.
Credentials(p) ==
  /\ At(p, "credentials")
  /\ \/ Opts(p).creds /\ EnsureRunNs(p, "credentials", "storeCredentials")
     \/ /\ ~Opts(p).creds /\ GoTo(p, "runNamespace")
        /\ UNCHANGED <<local, exists, granted, built, kube, commands, nextToken>>
\* UpsertSecret for each.
StoreCredentials(p) ==
  Call(p, "storeCredentials", "runNamespace", Opts(p).ns \in kube.creds \/ Creatable(Opts(p).ns),
       [kube EXCEPT !.creds = @ \cup {Opts(p).ns}])

\* Mutant: the apiserver keeps the run namespace it ships with.
SetApiserverRunNamespaceNot(p) ==
  Call(p, "runNamespace", "expose", kube.deploy["apiserver"] # None, kube)
SetApiserverRunNamespace(p) ==
  Call(p, "runNamespace", "expose", kube.deploy["apiserver"] # None,
       [kube EXCEPT !.deploy["apiserver"].arg = Opts(p).ns])

\* Mutant: the Service is exposed for a run namespace of one's own only.
SetServiceTypeRarely(p) ==
  Call(p, "expose", "waitOperator", Opts(p).expose => kube.service # Absent,
       [kube EXCEPT !.service = IF Opts(p).expose /\ Opts(p).ns # DefaultNs THEN "LoadBalancer" ELSE @])
SetServiceType(p) ==
  Call(p, "expose", "waitOperator", Opts(p).expose => kube.service # Absent,
       [kube EXCEPT !.service = IF Opts(p).expose THEN "LoadBalancer" ELSE @])

\* WaitDeployments: some pod is available, which may be one of an older template.
\* That the controller has observed the latest generation is a matter of time.
Available(d) == kube.pod[d] # NoPod
WaitDeployment(p, label, next, d) ==
  /\ At(p, label)
  /\ exists /\ Available(d)
  /\ GoTo(p, next)
  /\ UNCHANGED <<local, exists, granted, built, kube, commands, nextToken>>
WaitOperator(p) == WaitDeployment(p, "waitOperator", "waitApiserver", "operator")
WaitApiserver(p) == WaitDeployment(p, "waitApiserver", "done", "apiserver")

----------------------------------------------------------------------------
(* Uninstall *)

\* Mutant: an absent namespace is deleted too.
DeleteNamespaceAbsent(p, label, wait, next, ns) ==
  Call(p, label, IF ns \in kube.namespaces THEN wait ELSE next, TRUE, [kube EXCEPT !.dying = @ \cup {ns}])
DeleteNamespace(p, label, wait, next, ns) ==
  Call(p, label, IF ns \in kube.namespaces THEN wait ELSE next, TRUE,
       [kube EXCEPT !.dying = @ \cup ({ns} \cap kube.namespaces)])

\* Mutant: a deletion that was accepted counts as done.
GoneAtOnce(ns) == TRUE
\* DeleteNamespace polls until the API stops returning the namespace.
Gone(ns) == ns \notin kube.namespaces

WaitGone(p, label, next, ns) ==
  /\ At(p, label)
  /\ exists => Gone(ns)
  /\ GoTo(p, IF exists THEN next ELSE "failed")
  /\ UNCHANGED <<local, exists, granted, built, kube, commands, nextToken>>

DeleteSystem(p) ==
  /\ person[p].cmd = "uninstall"
  /\ DeleteNamespace(p, "begun", "goneSystem", "deleteRun", System)
SystemGone(p) == WaitGone(p, "goneSystem", "deleteRun", System)
DeleteRunNs(p) == DeleteNamespace(p, "deleteRun", "goneRun", "deleteScoped", Opts(p).ns)
RunNsGone(p) == WaitGone(p, "goneRun", "deleteScoped", Opts(p).ns)

\* DeleteClusterScoped, in reverse order; what is absent is passed over.  The
\* CRD's deletion is requested and not awaited.
DeleteRBAC(p) == Call(p, "deleteScoped", "deleteCRD", TRUE, [kube EXCEPT !.scoped = @ \ {"RBAC"}])
DeleteCRD(p) ==
  Call(p, "deleteCRD", IF Opts(p).delete THEN "describe" ELSE "done", TRUE,
       [kube EXCEPT !.dying = @ \cup ({"CRD"} \cap kube.scoped)])

\* deleteGKECluster; a describe that fails is taken for an absent cluster.
DeleteGKECluster(p) ==
  /\ At(p, "describe")
  /\ \/ exists /\ exists' = FALSE /\ kube' = EmptyKube /\ GoTo(p, "done")
     \/ /\ person' = [person EXCEPT ![p].blind = TRUE, ![p].pc = "done"]
        /\ UNCHANGED <<exists, kube>>
  /\ UNCHANGED <<local, granted, built, commands, nextToken>>

----------------------------------------------------------------------------
(* The cluster *)

Cluster(k) ==
  /\ exists
  /\ kube' = k
  /\ UNCHANGED <<person, local, exists, granted, built, commands, nextToken>>

Pullable(d) ==
  /\ kube.deploy[d] # None
  /\ kube.deploy[d].tag \in built[d]
  /\ local \/ granted

\* A pod of the template becomes available and replaces an older one, also one
\* that was admitted before its namespace was deleted.  Its token is the Secret's
\* at that moment; the reference is optional.
StartPod(d) ==
  /\ Pullable(d)
  /\ kube.pod[d].template # kube.deploy[d]
  /\ Cluster([kube EXCEPT !.pod[d] = [template |-> kube.deploy[d], old |-> FALSE,
                                      token |-> kube.token[System]]])

\* A deleted namespace is gone, with everything in it.
NamespaceGone(ns) ==
  /\ ns \in kube.dying
  /\ LET k == [kube EXCEPT !.namespaces = @ \ {ns}, !.dying = @ \ {ns},
                           !.token[ns] = 0, !.creds = @ \ {ns}]
     IN  Cluster(IF ns # System THEN k
                 ELSE [k EXCEPT !.service = EmptyKube.service, !.deploy = EmptyKube.deploy,
                                !.pod = EmptyKube.pod])

\* The CRD's finalizer has removed its instances.
CRDGone ==
  /\ "CRD" \in kube.dying
  /\ Cluster([kube EXCEPT !.scoped = @ \ {"CRD"}, !.dying = @ \ {"CRD"}])

----------------------------------------------------------------------------
Init ==
  /\ person = [p \in People |-> Nobody]
  /\ local \in BOOLEAN /\ exists \in {FALSE, ~local} /\ granted = exists
  /\ built = [d \in Deployments |-> {}]
  /\ kube = EmptyKube
  /\ commands = 0 /\ nextToken = 1 /\ mixed = FALSE

Install(p) ==
  \/ BeginInstall(p) \/ EnsureCluster(p) \/ GrantNodePull(p)
  \/ ApplyManifests(p) \/ KindImages(p) \/ RegistryImages(p)
  \/ OverrideOperator(p) \/ OverrideApiserver(p) \/ EnsureNamespace(p) \/ ReadToken(p)
  \/ WriteSystemToken(p) \/ WriteRunToken(p) \/ Credentials(p) \/ StoreCredentials(p)
  \/ SetApiserverRunNamespace(p) \/ SetServiceType(p) \/ WaitOperator(p) \/ WaitApiserver(p)

Uninstall(p) ==
  \/ BeginUninstall(p) \/ DeleteSystem(p) \/ SystemGone(p) \/ DeleteRunNs(p) \/ RunNsGone(p)
  \/ DeleteRBAC(p) \/ DeleteCRD(p) \/ DeleteGKECluster(p)

\* An install replaces the system's token by another one, or sets the run
\* namespace although its token is not, or no longer, the system's.
Rotates == kube.token[System] # 0 /\ kube'.token[System] \notin {0, kube.token[System]}
Overtaken(p) ==
  At(p, "runNamespace") /\ person'[p].pc = "expose" /\ person[p].token # kube.token[System]
Mixes == Rotates \/ \E p \in People : Overtaken(p)

Next ==
  /\ \/ \E p \in People : Install(p) \/ Uninstall(p) \/ Abort(p)
     \/ \E d \in Deployments : StartPod(d)
     \/ (\E ns \in Namespaces : NamespaceGone(ns)) \/ CRDGone
  /\ mixed' = (mixed \/ Mixes)

Spec == Init /\ [][Next]_vars

----------------------------------------------------------------------------
TypeOK ==
  /\ \A p \in People : person[p].step \in 1 .. Len(Manifests) /\ person[p].token < nextToken
  /\ exists \in BOOLEAN /\ granted \in BOOLEAN /\ local \in BOOLEAN
  /\ kube.namespaces \subseteq Namespaces /\ kube.scoped \subseteq Scoped
  /\ kube.dying \subseteq kube.namespaces \cup ({"CRD"} \cap kube.scoped)
  /\ kube.service \in {Absent, "ClusterIP", "LoadBalancer"}
  /\ kube.deploy \in [Deployments -> Templates \cup {None}]
  /\ kube.creds \subseteq kube.namespaces
  /\ \A n \in Namespaces : kube.token[n] < nextToken /\ (kube.token[n] # 0 => n \in kube.namespaces)

Completes(p, cmd) ==
  person[p].cmd = cmd /\ ~Idle(p) /\ person'[p].pc = "done" /\ person[p].alone

\* What an install relied on exists, and nobody has asked for its deletion.
Safe(p, x) == x \notin person[p].doomed

\* SETUP.md:53: installing is idempotent.  However earlier commands ended, with
\* whatever options they ran and wherever they were interrupted, an install that
\* ran alone and reports Ready leaves what its own options ask for, and leaves it
\* for good: its images and run namespace in the Deployments, its Service type, one
\* token and the credentials where its runs will look for them, the CRD and the
\* roles.  Excepted is what it put into a namespace, or a CRD, whose deletion by an
\* earlier uninstall was still going on when the install took it for existing; each
\* of them spoils its own contents only.
InstallConverges ==
  [][\A p \in People : Completes(p, "install") =>
       /\ Safe(p, System) =>
            /\ kube.deploy["operator"] = [tag |-> Tag(p), arg |-> Tag(p)]
            /\ kube.deploy["apiserver"] = [tag |-> Tag(p), arg |-> Opts(p).ns]
            /\ kube.service = IF Opts(p).expose THEN "LoadBalancer" ELSE "ClusterIP"
            /\ kube.token[System] # 0 /\ Creatable(System)
       /\ Safe(p, Opts(p).ns) =>
            /\ kube.token[Opts(p).ns] # 0 /\ Creatable(Opts(p).ns)
            /\ Safe(p, System) => kube.token[Opts(p).ns] = kube.token[System]
            /\ Opts(p).creds => Opts(p).ns \in kube.creds
       /\ Safe(p, "CRD") => "CRD" \in kube.scoped \ kube.dying
       /\ "RBAC" \in kube.scoped]_vars

\* steps.go:16-26: no install replaces the token that running pods hold, or rolls
\* the apiserver out without its own token in place, unless commands overlapped.
TokenIsKept ==
  [][Mixes => \E p \in People : ~Idle(p) /\ ~person[p].alone]_vars

\* kube.go:526-527, gke.go:47-52: an uninstall that ran alone and reports success
\* leaves no namespace, no cluster-scoped object but a CRD that is being deleted
\* and, if asked, no cluster; the exception is a cluster that could not be
\* described.
UninstallLeavesNothing ==
  [][\A p \in People : Completes(p, "uninstall") =>
       /\ kube'.namespaces \cap {System, Opts(p).ns} = {}
       /\ kube'.scoped \subseteq {"CRD"} \cap kube'.dying
       /\ Opts(p).delete /\ ~person'[p].blind => ~exists']_vars

\* Once an install that ran alone into a run namespace other than the shipped one
\* has reported Ready and the apiserver is rolled out, the apiserver runs with the
\* token, the run namespace and the tag of that install, and with its build when
\* the tag is new, whatever was running before; unless another command began, the
\* system namespace was being deleted when the install found it, or overlapping
\* commands once mixed up the token.
InstalledIsServed ==
  LET pod == kube.pod["apiserver"]
  IN  \A p \in People :
        /\ person[p].cmd = "install" /\ At(p, "done") /\ person[p].alone
        /\ Opts(p).ns # DefaultNs /\ ~mixed /\ Safe(p, System)
        /\ pod.template = kube.deploy["apiserver"]
        => /\ pod.template = [tag |-> Tag(p), arg |-> Opts(p).ns]
           /\ pod.token = kube.token[System] /\ pod.token # 0
           /\ person[p].fresh => ~pod.old

=============================================================================
