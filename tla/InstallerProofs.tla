-------------------------- MODULE InstallerProofs --------------------------
(***************************************************************************)
(* Proofs about Installer, for any people, options, tags and namespaces    *)
(* and any number of commands.                                             *)
(*                                                                         *)
(* Everything rests on one fact: while a command that runs alone is in     *)
(* progress, only the cluster moves besides it, and the cluster takes away *)
(* nothing but what is being deleted.  So what an install has written into *)
(* a namespace that was not being deleted when it relied on it is there    *)
(* until it ends.                                                          *)
(***************************************************************************)
EXTENDS Installer, TLAPS

\* Where a command can be.  The install labels from "images" on are those at
\* which the manifests are applied, and so on down the list.
Ready == {"waitOperator", "waitApiserver", "done"}
Pointed == {"expose"} \cup Ready
Keyed == {"runNamespace"} \cup Pointed
InRun == {"credentials", "storeCredentials"} \cup Keyed
InSystem == {"writeRun"} \cup InRun
Holding == {"writeSystem"} \cup InSystem
Delivered == {"namespace", "read"} \cup Holding
Preparing == {"grant", "apply", "images"}
Applying == {"images", "overrideOperator", "overrideApiserver"}
InstallLabels == {"grant", "apply"} \cup Applying \cup (Delivered \ {"done"})
UninstallLabels == {"goneSystem", "deleteRun", "goneRun", "deleteScoped", "deleteCRD", "describe"}
Labels == {"idle", "begun", "done"} \cup InstallLabels \cup UninstallLabels

\* What is deleted by request and goes later.
Perishable == Namespaces \cup {"CRD"}

Options == InstallOptions \cup UninstallOptions \cup {[ns |-> Absent]}
PersonStates == [pc : Labels, cmd : {"none", "install", "uninstall"}, opts : Options,
                 alone : BOOLEAN, step : 1 .. 6, token : Nat, fresh : BOOLEAN, blind : BOOLEAN,
                 doomed : SUBSET Perishable]
PodStates == [template : Templates \cup {None}, old : BOOLEAN, token : Nat]
KubeStates == [namespaces : SUBSET Namespaces, dying : SUBSET Perishable,
               scoped : SUBSET Scoped, service : {Absent, "ClusterIP", "LoadBalancer"},
               deploy : [Deployments -> Templates \cup {None}], pod : [Deployments -> PodStates],
               token : [Namespaces -> Nat], creds : SUBSET Namespaces]

Types ==
  /\ person \in [People -> PersonStates]
  /\ local \in BOOLEAN /\ exists \in BOOLEAN /\ granted \in BOOLEAN /\ mixed \in BOOLEAN
  /\ built \in [Deployments -> SUBSET Tags]
  /\ kube \in KubeStates
  /\ commands \in Nat /\ nextToken \in Nat

\* A command is at one of its own labels, with its own options; it holds a token
\* from the moment it has read or made one.
Role(p) ==
  /\ person[p].cmd = "install" => Opts(p) \in InstallOptions
  /\ person[p].cmd = "uninstall" => Opts(p) \in UninstallOptions
  /\ person[p].pc \in InstallLabels => person[p].cmd = "install"
  /\ person[p].pc \in UninstallLabels => person[p].cmd = "uninstall"
  /\ person[p].pc \in {"begun", "done"} => person[p].cmd # "none"
  /\ person[p].pc \notin {"apply", "images"} => person[p].step = 1
  /\ person[p].pc = "images" => person[p].step \in {1, 2} /\ (Opts(p).kind => person[p].step = 1)
  /\ person[p].pc \in Preparing => Valid(Opts(p))
  /\ person[p].pc \in Holding \ {"done"} => person[p].token # 0
  /\ person[p].token < nextToken
Roles == nextToken > 0 /\ \A p \in People : Role(p)

\* Whoever runs alone, or did until the last command ended.
Solo == \A p \in People : person[p].alone => \A q \in People \ {p} : Idle(q)

\* Objects are in namespaces that exist.
Housed ==
  /\ kube.dying \subseteq kube.namespaces \cup ({"CRD"} \cap kube.scoped)
  /\ kube.creds \subseteq kube.namespaces
  /\ \A n \in Namespaces : kube.token[n] < nextToken /\ (kube.token[n] # 0 => n \in kube.namespaces)

Inv == Types /\ Roles /\ Solo /\ Housed

-----------------------------------------------------------------------------
(* How the record of a person changes.                                     *)

\* Nobody is a person without a command.
LEMMA NobodyType ==
  /\ Nobody \in PersonStates /\ Nobody.pc = "idle" /\ Nobody.cmd = "none" /\ ~Nobody.alone
  /\ Nobody.step = 1 /\ Nobody.token = 0 /\ Nobody.doomed = {}
BY DEF Nobody, PersonStates, Labels, Options

\* A step that goes to a label changes one person's label, and nothing else of it
\* but the token that is forgotten at the end.
LEMMA GoToEffect ==
  ASSUME person \in [People -> PersonStates], NEW p \in People, NEW label \in Labels \cup {"failed"},
         GoTo(p, label)
  PROVE  /\ person' \in [People -> PersonStates]
         /\ \A q \in People \ {p} : person'[q] = person[q]
         /\ label = "failed" => person'[p] = Nobody
         /\ label # "failed" =>
              /\ person'[p].pc = label /\ person'[p].cmd = person[p].cmd
              /\ person'[p].opts = person[p].opts /\ person'[p].alone = person[p].alone
              /\ person'[p].step = person[p].step /\ person'[p].fresh = person[p].fresh
              /\ person'[p].blind = person[p].blind /\ person'[p].doomed = person[p].doomed
              /\ person'[p].token = IF label = "done" THEN 0 ELSE person[p].token
<1> DEFINE m == Moved(person[p], label)
<1>1. person' = [person EXCEPT ![p] = m]
  BY DEF GoTo
<1>2. CASE label = "failed"
  <2>1. m = Nobody
    BY <1>2 DEF Moved
  <2>2. QED
    BY <1>1, <1>2, <2>1, NobodyType
<1>3. CASE label = "done"
  <2>1. m = [person[p] EXCEPT !.pc = label, !.token = 0]
    BY <1>3 DEF Moved
  <2>2. /\ m \in PersonStates /\ m.pc = label /\ m.cmd = person[p].cmd
        /\ m.opts = person[p].opts /\ m.alone = person[p].alone
        /\ m.step = person[p].step /\ m.fresh = person[p].fresh
        /\ m.blind = person[p].blind /\ m.doomed = person[p].doomed /\ m.token = 0
    <3>1. label \in Labels
      BY <1>3 DEF Labels
    <3> DEFINE r == [person[p] EXCEPT !.pc = label]
    <3>2. /\ r \in PersonStates /\ r.pc = label /\ r.cmd = person[p].cmd
          /\ r.opts = person[p].opts /\ r.alone = person[p].alone
          /\ r.step = person[p].step /\ r.fresh = person[p].fresh
          /\ r.blind = person[p].blind /\ r.doomed = person[p].doomed
      BY <3>1 DEF PersonStates
    <3>3. m = [r EXCEPT !.token = 0]
      BY <2>1
    <3> HIDE DEF r, m
    <3>4. QED
      BY <3>2, <3>3 DEF PersonStates
  <2> HIDE DEF m
  <2>3. QED
    BY <1>1, <1>3, <2>2
<1>4. CASE label # "failed" /\ label # "done"
  <2>1. m = [person[p] EXCEPT !.pc = label]
    BY <1>4 DEF Moved
  <2>2. /\ m \in PersonStates /\ m.pc = label /\ m.cmd = person[p].cmd
        /\ m.opts = person[p].opts /\ m.alone = person[p].alone
        /\ m.step = person[p].step /\ m.fresh = person[p].fresh
        /\ m.blind = person[p].blind /\ m.doomed = person[p].doomed /\ m.token = person[p].token
    BY <1>4, <2>1 DEF PersonStates
  <2> HIDE DEF m
  <2>3. QED
    BY <1>1, <1>4, <2>2
<1>5. QED
  BY <1>2, <1>3, <1>4

\* Going to a label keeps everyone's role, if it is a label of the command and
\* whoever needs a token has one.
LEMMA GoToRoles ==
  ASSUME Types, Roles, Solo, NEW p \in People, ~Idle(p), NEW next \in Labels \ {"idle", "begun"},
         GoTo(p, next) \/ GoTo(p, "failed"), person[p].step = 1,
         next \in InstallLabels => person[p].cmd = "install",
         next \in UninstallLabels => person[p].cmd = "uninstall",
         next \in Holding \ {"done"} => person[p].token # 0,
         next \in Preparing => Valid(Opts(p)),
         nextToken' = nextToken
  PROVE  person' \in [People -> PersonStates] /\ Roles' /\ Solo'
<1>0. person \in [People -> PersonStates] /\ nextToken \in Nat /\ nextToken > 0
  BY DEF Types, Roles
<1>1. CASE GoTo(p, "failed")
  <2>1. /\ person' \in [People -> PersonStates] /\ person'[p] = Nobody
        /\ \A q \in People \ {p} : person'[q] = person[q]
    BY <1>0, <1>1, GoToEffect
  <2>2. Role(p)'
    BY <1>0, <2>1, NobodyType DEF Role, InstallLabels, UninstallLabels, Preparing, Applying, Delivered,
       Holding, InSystem, InRun, Keyed, Pointed, Ready
  <2>3. Roles'
    BY <1>0, <2>1, <2>2 DEF Roles, Role, Opts
  <2>4. Solo'
    BY <2>1, NobodyType DEF Solo, Idle
  <2>5. QED
    BY <2>1, <2>3, <2>4
<1>2. CASE GoTo(p, next)
  <2>1. next \in Labels \cup {"failed"} /\ next # "failed"
    BY DEF Labels, InstallLabels, UninstallLabels, Preparing, Applying, Delivered, Holding, InSystem,
       InRun, Keyed, Pointed, Ready
  <2>2. /\ person' \in [People -> PersonStates]
        /\ \A q \in People \ {p} : person'[q] = person[q]
        /\ person'[p].pc = next /\ person'[p].cmd = person[p].cmd
        /\ person'[p].opts = person[p].opts /\ person'[p].alone = person[p].alone
        /\ person'[p].step = person[p].step
        /\ person'[p].token = IF next = "done" THEN 0 ELSE person[p].token
    BY <1>0, <1>2, <2>1, GoToEffect
  <2>3. person[p].cmd # "none"
    BY DEF Roles, Role, Idle, Types, PersonStates, Labels
  <2>4. Role(p)'
    <3>1. Role(p)
      BY DEF Roles
    <3>2. person'[p].token < nextToken' /\ (next \in Holding \ {"done"} => person'[p].token # 0)
      BY <1>0, <2>2, <3>1 DEF Role
    <3>3. QED
      BY <2>2, <2>3, <3>1, <3>2 DEF Role, Opts
  <2>5. Roles'
    BY <1>0, <2>2, <2>4 DEF Roles, Role, Opts
  <2>6. Solo'
    BY <2>2 DEF Solo, Idle
  <2>7. QED
    BY <2>2, <2>5, <2>6
<1>3. QED
  BY <1>1, <1>2

\* The other commands are not alone while p's is in progress.
LEMMA OthersAreNotAlone ==
  ASSUME Solo, NEW p \in People, ~Idle(p), NEW q \in People \ {p} PROVE ~person[q].alone
BY DEF Solo

\* Only the labels of its own command are open to a person at work.
LEMMA AtWork ==
  ASSUME Inv, NEW p \in People
  PROVE  /\ person[p].pc \in InstallLabels => /\ ~Idle(p) /\ person[p].cmd = "install"
                                              /\ Opts(p) \in InstallOptions
         /\ person[p].pc \in UninstallLabels => /\ ~Idle(p) /\ person[p].cmd = "uninstall"
                                                /\ Opts(p) \in UninstallOptions
         /\ person[p].pc \notin {"apply", "images"} => person[p].step = 1
BY DEF Inv, Roles, Role, Idle, InstallLabels, UninstallLabels, Preparing, Applying, Delivered, Holding,
   InSystem, InRun, Keyed, Pointed, Ready

\* A call that goes through or fails, and leaves the tokens given out alone.
LEMMA CallPerson ==
  ASSUME Inv, NEW p \in People, NEW label \in (InstallLabels \cup UninstallLabels) \ {"apply", "images"},
         NEW next \in Labels \ {"idle", "begun"},
         At(p, label), GoTo(p, next) \/ GoTo(p, "failed"),
         label \in InstallLabels => next \notin UninstallLabels,
         label \in UninstallLabels => next \notin InstallLabels,
         next \in Holding \ {"done"} => person[p].token # 0,
         next \in Preparing => Valid(Opts(p)),
         nextToken' = nextToken
  PROVE  person' \in [People -> PersonStates] /\ Roles' /\ Solo'
<1>1. person[p].pc = label
  BY DEF At
<1>2. person[p].step = 1 /\ ~Idle(p)
  BY <1>1, AtWork
<1>3. /\ next \in InstallLabels => person[p].cmd = "install"
      /\ next \in UninstallLabels => person[p].cmd = "uninstall"
  BY <1>1, AtWork
<1>4. QED
  BY <1>2, <1>3, GoToRoles DEF Inv

-----------------------------------------------------------------------------
(* How the objects in the cluster change.                                  *)

\* The fields of kube that a step leaves alone.
KeptNamespaces == kube'.namespaces = kube.namespaces /\ kube'.dying = kube.dying
KeptScoped == kube'.scoped = kube.scoped
KeptService == kube'.service = kube.service
KeptDeploy == kube'.deploy = kube.deploy
KeptPods == kube'.pod = kube.pod
KeptTokens == kube'.token = kube.token
KeptCreds == kube'.creds = kube.creds

\* Shipped templates, and those of the installer, are templates.
LEMMA TemplateTypes ==
  /\ \A d \in Deployments : Shipped(d) \in Templates /\ Shipped(d) # None
  /\ \A t \in Tags : \A a \in Tags \cup RunNamespaces :
       [tag |-> t, arg |-> a] \in Templates /\ [tag |-> t, arg |-> a] # None
  /\ None \notin Templates
BY InstallerAssumption DEF Shipped, Templates, None, Deployments

\* The empty cluster.
LEMMA EmptyKubeType ==
  /\ EmptyKube \in KubeStates
  /\ EmptyKube.namespaces = {} /\ EmptyKube.dying = {} /\ EmptyKube.scoped = {}
  /\ EmptyKube.service = Absent /\ EmptyKube.creds = {}
  /\ EmptyKube.deploy = [d \in Deployments |-> None]
  /\ EmptyKube.pod = [d \in Deployments |-> NoPod]
  /\ EmptyKube.token = [n \in Namespaces |-> 0]
  /\ NoPod \in PodStates /\ NoPod.template = None /\ ~NoPod.old /\ NoPod.token = 0
<1>1. NoPod \in PodStates /\ NoPod.template = None /\ ~NoPod.old /\ NoPod.token = 0
  BY DEF NoPod, PodStates
<1>2. QED
  BY <1>1 DEF EmptyKube, KubeStates

Kinds == {"Namespace", "CRD", "RBAC", "Service", "apiserver", "operator"}

\* Each manifest sets its object.
LEMMA AppliedEffect ==
  ASSUME kube \in KubeStates, NEW o \in Kinds,
         kube' = Applied(o)
  PROVE  /\ kube' \in KubeStates /\ KeptPods /\ KeptTokens /\ KeptCreds
         /\ kube'.dying = kube.dying
         /\ kube'.namespaces = IF o = "Namespace" THEN kube.namespaces \cup {System} ELSE kube.namespaces
         /\ kube'.scoped = IF o \in Scoped THEN kube.scoped \cup {o} ELSE kube.scoped
         /\ kube'.service = IF o = "Service" THEN "ClusterIP" ELSE kube.service
         /\ \A d \in Deployments :
              kube'.deploy[d] = IF d = o THEN Shipped(d) ELSE kube.deploy[d]
<1> USE DEF KeptPods, KeptTokens, KeptCreds, Scoped
<1>1. CASE o = "Namespace"
  <2>1. kube' = [kube EXCEPT !.namespaces = @ \cup {System}]
    BY <1>1 DEF Applied
  <2>2. QED
    BY <1>1, <2>1 DEF KubeStates, Namespaces, Deployments
<1>2. CASE o \in Scoped
  <2>1. kube' = [kube EXCEPT !.scoped = @ \cup {o}]
    BY <1>2 DEF Applied
  <2>2. QED
    BY <1>2, <2>1 DEF KubeStates, Deployments
<1>3. CASE o = "Service"
  <2>1. kube' = [kube EXCEPT !.service = "ClusterIP"]
    BY <1>3 DEF Applied
  <2>2. QED
    BY <1>3, <2>1 DEF KubeStates, Deployments
<1>4. CASE o \in Deployments
  <2>1. kube' = [kube EXCEPT !.deploy[o] = Shipped(o)]
    BY <1>4 DEF Applied, Deployments
  <2>2. Shipped(o) \in Templates
    BY <1>4, TemplateTypes
  <2>3. o \notin {"Namespace", "CRD", "RBAC", "Service"}
    BY <1>4 DEF Deployments
  <2>4. QED
    BY <1>4, <2>1, <2>2, <2>3 DEF KubeStates
<1>5. QED
  BY <1>1, <1>2, <1>3, <1>4 DEF Deployments, Kinds

\* A Deployment's template is set.
LEMMA DeployEffect ==
  ASSUME kube \in KubeStates, NEW d \in Deployments, NEW t \in Templates,
         kube' = [kube EXCEPT !.deploy[d] = t]
  PROVE  /\ kube' \in KubeStates /\ KeptNamespaces /\ KeptScoped /\ KeptService /\ KeptPods
         /\ KeptTokens /\ KeptCreds
         /\ kube'.deploy[d] = t
         /\ \A e \in Deployments \ {d} : kube'.deploy[e] = kube.deploy[e]
BY DEF KubeStates, KeptNamespaces, KeptScoped, KeptService, KeptPods, KeptTokens, KeptCreds

\* A token is written.
LEMMA TokenEffect ==
  ASSUME kube \in KubeStates, NEW n \in Namespaces, NEW t \in Nat,
         kube' = [kube EXCEPT !.token[n] = t]
  PROVE  /\ kube' \in KubeStates /\ KeptNamespaces /\ KeptScoped /\ KeptService /\ KeptPods
         /\ KeptDeploy /\ KeptCreds
         /\ kube'.token[n] = t
         /\ \A m \in Namespaces \ {n} : kube'.token[m] = kube.token[m]
BY DEF KubeStates, KeptNamespaces, KeptScoped, KeptService, KeptPods, KeptDeploy, KeptCreds

\* Pods are replaced, or grow old.
LEMMA PodEffect ==
  ASSUME kube \in KubeStates, NEW f \in [Deployments -> PodStates], kube' = [kube EXCEPT !.pod = f]
  PROVE  /\ kube' \in KubeStates /\ KeptNamespaces /\ KeptScoped /\ KeptService /\ KeptDeploy
         /\ KeptTokens /\ KeptCreds /\ kube'.pod = f
BY DEF KubeStates, KeptNamespaces, KeptScoped, KeptService, KeptDeploy, KeptTokens, KeptCreds

\* A namespace that is gone takes along what is in it.
LEMMA GoneEffect ==
  ASSUME kube \in KubeStates, NEW n \in Namespaces, NamespaceGone(n)
  PROVE  /\ n \in kube.dying
         /\ kube' \in KubeStates /\ KeptScoped
         /\ kube'.namespaces = kube.namespaces \ {n} /\ kube'.dying = kube.dying \ {n}
         /\ kube'.creds = kube.creds \ {n}
         /\ kube'.token[n] = 0 /\ \A m \in Namespaces \ {n} : kube'.token[m] = kube.token[m]
         /\ n # System => KeptService /\ KeptDeploy /\ KeptPods
         /\ n = System => /\ kube'.deploy = [d \in Deployments |-> None]
                          /\ kube'.pod = [d \in Deployments |-> NoPod]
<1> USE DEF KeptScoped, KeptService, KeptDeploy, KeptPods
<1> DEFINE k1 == [kube EXCEPT !.namespaces = @ \ {n}]
           k2 == [k1 EXCEPT !.dying = @ \ {n}]
           k3 == [k2 EXCEPT !.token[n] = 0]
           k4 == [k3 EXCEPT !.creds = @ \ {n}]
           k5 == [k4 EXCEPT !.service = EmptyKube.service]
           k6 == [k5 EXCEPT !.deploy = EmptyKube.deploy]
           k7 == [k6 EXCEPT !.pod = EmptyKube.pod]
<1>1. n \in kube.dying /\ kube' = IF n # System THEN k4 ELSE k7
  BY DEF NamespaceGone, Cluster
<1>2. /\ k1 \in KubeStates /\ k1.namespaces = kube.namespaces \ {n} /\ k1.dying = kube.dying
      /\ k1.scoped = kube.scoped /\ k1.service = kube.service /\ k1.deploy = kube.deploy
      /\ k1.pod = kube.pod /\ k1.token = kube.token /\ k1.creds = kube.creds
  BY DEF KubeStates
<1> HIDE DEF k1
<1>3. /\ k2 \in KubeStates /\ k2.namespaces = k1.namespaces /\ k2.dying = k1.dying \ {n}
      /\ k2.scoped = kube.scoped /\ k2.service = kube.service /\ k2.deploy = kube.deploy
      /\ k2.pod = kube.pod /\ k2.token = kube.token /\ k2.creds = kube.creds
  BY <1>2 DEF KubeStates
<1> HIDE DEF k2
<1>4. /\ k3 \in KubeStates /\ k3.namespaces = k2.namespaces /\ k3.dying = k2.dying
      /\ k3.scoped = kube.scoped /\ k3.service = kube.service /\ k3.deploy = kube.deploy
      /\ k3.pod = kube.pod /\ k3.creds = kube.creds
      /\ k3.token[n] = 0 /\ \A m \in Namespaces \ {n} : k3.token[m] = kube.token[m]
  BY <1>3 DEF KubeStates
<1> HIDE DEF k3
<1>5. /\ k4 \in KubeStates /\ k4.namespaces = k3.namespaces /\ k4.dying = k3.dying
      /\ k4.scoped = kube.scoped /\ k4.service = kube.service /\ k4.deploy = kube.deploy
      /\ k4.pod = kube.pod /\ k4.creds = kube.creds \ {n} /\ k4.token = k3.token
  BY <1>4 DEF KubeStates
<1> HIDE DEF k4
<1>6. /\ k5 \in KubeStates /\ k5.namespaces = k4.namespaces /\ k5.dying = k4.dying
      /\ k5.scoped = k4.scoped /\ k5.creds = k4.creds /\ k5.token = k4.token
  BY <1>5, EmptyKubeType DEF KubeStates
<1> HIDE DEF k5
<1>7. /\ k6 \in KubeStates /\ k6.namespaces = k4.namespaces /\ k6.dying = k4.dying
      /\ k6.scoped = k4.scoped /\ k6.creds = k4.creds /\ k6.token = k4.token
      /\ k6.deploy = EmptyKube.deploy
  BY <1>6, EmptyKubeType DEF KubeStates
<1> HIDE DEF k6
<1>8. /\ k7 \in KubeStates /\ k7.namespaces = k4.namespaces /\ k7.dying = k4.dying
      /\ k7.scoped = k4.scoped /\ k7.creds = k4.creds /\ k7.token = k4.token
      /\ k7.deploy = EmptyKube.deploy /\ k7.pod = EmptyKube.pod
  BY <1>7, EmptyKubeType DEF KubeStates
<1> HIDE DEF k7
<1>9. CASE n # System
  BY <1>1, <1>2, <1>3, <1>4, <1>5, <1>9
<1>10. CASE n = System
  BY <1>1, <1>2, <1>3, <1>4, <1>5, <1>8, <1>10, EmptyKubeType
<1>11. QED
  BY <1>9, <1>10

-----------------------------------------------------------------------------
(* Types, roles and solitude are invariant.                                *)

\* A step that leaves the objects alone.
LEMMA QuietInv ==
  ASSUME Inv, person' \in [People -> PersonStates], Roles', Solo', kube' = kube,
         nextToken' = nextToken, commands' \in Nat, local' = local, exists' \in BOOLEAN,
         granted' \in BOOLEAN, built' = built, mixed' \in BOOLEAN
  PROVE  Inv'
BY DEF Inv, Types, Housed

\* A new command makes the others give up their solitude.
LEMMA BeginInv ==
  ASSUME Inv, NEW p \in People, mixed' \in BOOLEAN, BeginInstall(p) \/ BeginUninstall(p)
  PROVE  Inv'
<1>1. PICK cmd \in {"install", "uninstall"}, o \in InstallOptions \cup UninstallOptions :
        /\ Begin(p, cmd, o)
        /\ cmd = "install" => o \in InstallOptions
        /\ cmd = "uninstall" => o \in UninstallOptions
  BY DEF BeginInstall, BeginUninstall
<1> DEFINE others == {q \in People \ {p} : ~Idle(q)}
           mine == [Nobody EXCEPT !.pc = "begun", !.cmd = cmd, !.opts = o, !.alone = others = {}]
<1>2. /\ Idle(p) /\ commands' = commands + 1
      /\ UNCHANGED <<local, exists, granted, built, kube, nextToken>>
      /\ person' = [q \in People |-> CASE q = p -> mine
                                       [] q \in others -> [person[q] EXCEPT !.alone = FALSE]
                                       [] OTHER -> Nobody]
  BY <1>1 DEF Begin
<1>3. /\ mine \in PersonStates /\ mine.pc = "begun" /\ mine.cmd = cmd /\ mine.opts = o
      /\ mine.alone = (others = {}) /\ mine.step = 1 /\ mine.token = 0
  <2> DEFINE alone == others = {}
  <2>1. alone \in BOOLEAN /\ "begun" \in Labels
    BY DEF Labels
  <2>2. mine = [Nobody EXCEPT !.pc = "begun", !.cmd = cmd, !.opts = o, !.alone = alone]
    OBVIOUS
  <2> HIDE DEF alone
  <2> DEFINE r1 == [Nobody EXCEPT !.pc = "begun"]
             r2 == [r1 EXCEPT !.cmd = cmd]
             r3 == [r2 EXCEPT !.opts = o]
  <2>3. r1 \in PersonStates /\ r1.pc = "begun" /\ r1.step = 1 /\ r1.token = 0
    BY <2>1, NobodyType DEF PersonStates
  <2>4. mine = [r3 EXCEPT !.alone = alone]
    BY <2>2
  <2> HIDE DEF r1, mine
  <2>5. r2 \in PersonStates /\ r2.pc = "begun" /\ r2.cmd = cmd /\ r2.step = 1 /\ r2.token = 0
    BY <2>3 DEF PersonStates
  <2> HIDE DEF r2
  <2>6. /\ r3 \in PersonStates /\ r3.pc = "begun" /\ r3.cmd = cmd /\ r3.opts = o
        /\ r3.step = 1 /\ r3.token = 0
    BY <2>5 DEF PersonStates, Options
  <2> HIDE DEF r3
  <2>7. /\ mine \in PersonStates /\ mine.pc = "begun" /\ mine.cmd = cmd /\ mine.opts = o
        /\ mine.alone = alone /\ mine.step = 1 /\ mine.token = 0
    BY <2>1, <2>4, <2>6 DEF PersonStates
  <2>8. QED
    BY <2>7 DEF alone
<1> HIDE DEF mine
<1>4. person \in [People -> PersonStates]
  BY DEF Inv, Types
<1>5. \A q \in others : LET r == [person[q] EXCEPT !.alone = FALSE]
                        IN  /\ r \in PersonStates /\ r.pc = person[q].pc /\ r.cmd = person[q].cmd
                            /\ r.opts = person[q].opts /\ r.step = person[q].step
                            /\ r.token = person[q].token /\ ~r.alone
  BY <1>4 DEF PersonStates
<1>6. /\ person'[p] = mine
      /\ \A q \in others : person'[q] = [person[q] EXCEPT !.alone = FALSE]
      /\ \A q \in People : q # p /\ q \notin others => person'[q] = Nobody
  BY <1>2
<1>7. person' \in [People -> PersonStates]
  <2>1. \A q \in People : person'[q] \in PersonStates
    BY <1>3, <1>5, <1>6, NobodyType
  <2>2. QED
    BY <1>2, <2>1
<1>8. Roles'
  <2>0. nextToken' = nextToken /\ nextToken \in Nat /\ nextToken > 0 /\ \A q \in People : Role(q)
    BY <1>2 DEF Inv, Types, Roles
  <2>1. Role(p)'
    BY <1>1, <1>3, <1>6, <2>0 DEF Role, Opts, InstallLabels, UninstallLabels, Preparing, Applying, Delivered,
       Holding, InSystem, InRun, Keyed, Pointed, Ready
  <2>2. ASSUME NEW q \in others PROVE Role(q)'
    <3>1. /\ person'[q].pc = person[q].pc /\ person'[q].cmd = person[q].cmd
          /\ person'[q].opts = person[q].opts /\ person'[q].step = person[q].step
          /\ person'[q].token = person[q].token
      BY <1>5, <1>6
    <3>2. QED
      BY <2>0, <3>1 DEF Role, Opts
  <2>3. ASSUME NEW q \in People, q # p, q \notin others PROVE Role(q)'
    BY <1>6, <2>0, <2>3, NobodyType DEF Role, InstallLabels, UninstallLabels, Preparing, Applying, Delivered,
       Holding, InSystem, InRun, Keyed, Pointed, Ready
  <2>4. QED
    BY <2>0, <2>1, <2>2, <2>3 DEF Roles
<1>9. Solo'
  <2>1. ASSUME NEW q \in People, person'[q].alone PROVE q = p /\ others = {}
    BY <1>3, <1>5, <1>6, <2>1, NobodyType
  <2>2. others = {} => \A q \in People \ {p} : Idle(q)'
    BY <1>6, NobodyType DEF Idle
  <2>3. QED
    BY <2>1, <2>2 DEF Solo
<1>10. commands' \in Nat
  BY <1>2 DEF Inv, Types
<1>11. QED
  BY <1>2, <1>7, <1>8, <1>9, <1>10, QuietInv DEF Inv, Types

\* Every command may end early.
LEMMA AbortInv == ASSUME Inv, NEW p \in People, mixed' \in BOOLEAN, Abort(p) PROVE Inv'
<1>1. /\ ~Idle(p) /\ GoTo(p, "failed")
      /\ UNCHANGED <<local, exists, granted, built, kube, commands, nextToken>>
  BY DEF Abort
<1>2. person' \in [People -> PersonStates] /\ person'[p] = Nobody
      /\ \A q \in People \ {p} : person'[q] = person[q]
  BY <1>1, GoToEffect DEF Inv, Types
<1>3. Roles'
  <2>1. nextToken' = nextToken /\ nextToken \in Nat /\ nextToken > 0 /\ \A q \in People : Role(q)
    BY <1>1 DEF Inv, Types, Roles
  <2>2. Role(p)'
    BY <1>2, <2>1, NobodyType DEF Role, InstallLabels, UninstallLabels, Preparing, Applying, Delivered,
       Holding, InSystem, InRun, Keyed, Pointed, Ready
  <2>3. QED
    BY <1>2, <2>1, <2>2 DEF Roles, Role, Opts
<1>4. Solo'
  BY <1>2, NobodyType DEF Inv, Solo, Idle
<1>5. QED
  BY <1>1, <1>2, <1>3, <1>4, QuietInv DEF Inv, Types

\* What an install does to the cluster itself, and the waits.
LEMMA ClusterInv ==
  ASSUME Inv, NEW p \in People, mixed' \in BOOLEAN,
         \/ EnsureCluster(p) \/ GrantNodePull(p) \/ WaitOperator(p) \/ WaitApiserver(p)
         \/ SystemGone(p) \/ RunNsGone(p)
  PROVE  Inv'
<1> USE DEF InstallLabels, UninstallLabels, Preparing, Applying, Delivered, Holding, InSystem, InRun, Keyed,
            Pointed, Ready, Labels
<1>0. nextToken' = nextToken /\ kube' = kube /\ commands' = commands /\ local' = local /\ built' = built
      /\ exists' \in BOOLEAN /\ granted' \in BOOLEAN
  BY DEF EnsureCluster, GrantNodePull, WaitOperator, WaitApiserver, WaitDeployment, SystemGone,
     RunNsGone, WaitGone, Inv, Types
<1>1. CASE EnsureCluster(p)
  <2>1. At(p, "begun") /\ person[p].cmd = "install"
    BY <1>1 DEF EnsureCluster
  <2>2. person[p].step = 1 /\ ~Idle(p)
    BY <2>1 DEF At, Idle, Inv, Roles, Role
  <2>3. (Valid(Opts(p)) /\ (GoTo(p, "grant") \/ GoTo(p, "apply"))) \/ GoTo(p, "failed")
    BY <1>1 DEF EnsureCluster, CheckServer
  <2>4. person' \in [People -> PersonStates] /\ Roles' /\ Solo'
    BY <1>0, <2>1, <2>2, <2>3, GoToRoles DEF Inv
  <2>5. QED
    BY <1>0, <2>4, QuietInv DEF Inv, Types
<1>2. CASE GrantNodePull(p)
  <2>1. At(p, "grant") /\ (GoTo(p, "apply") \/ GoTo(p, "failed"))
    BY <1>2 DEF GrantNodePull, CheckServer
  <2>2. person' \in [People -> PersonStates] /\ Roles' /\ Solo'
    <3>1. Valid(Opts(p))
      BY <2>1 DEF At, Inv, Roles, Role, Preparing
    <3>2. QED
      BY <1>0, <2>1, <3>1, CallPerson
  <2>3. QED
    BY <1>0, <2>2, QuietInv DEF Inv, Types
<1>3. CASE WaitOperator(p)
  <2>1. At(p, "waitOperator") /\ GoTo(p, "waitApiserver")
    BY <1>3 DEF WaitOperator, WaitDeployment
  <2>2. person[p].token # 0
    BY <2>1 DEF At, Inv, Roles, Role
  <2>3. person' \in [People -> PersonStates] /\ Roles' /\ Solo'
    BY <1>0, <2>1, <2>2, CallPerson
  <2>4. QED
    BY <1>0, <2>3, QuietInv DEF Inv, Types
<1>4. CASE WaitApiserver(p)
  <2>1. At(p, "waitApiserver") /\ GoTo(p, "done")
    BY <1>4 DEF WaitApiserver, WaitDeployment
  <2>2. person' \in [People -> PersonStates] /\ Roles' /\ Solo'
    BY <1>0, <2>1, CallPerson
  <2>3. QED
    BY <1>0, <2>2, QuietInv DEF Inv, Types
<1>5. CASE SystemGone(p)
  <2>1. At(p, "goneSystem") /\ (GoTo(p, "deleteRun") \/ GoTo(p, "failed"))
    BY <1>5 DEF SystemGone, WaitGone
  <2>2. person' \in [People -> PersonStates] /\ Roles' /\ Solo'
    BY <1>0, <2>1, CallPerson
  <2>3. QED
    BY <1>0, <2>2, QuietInv DEF Inv, Types
<1>6. CASE RunNsGone(p)
  <2>1. At(p, "goneRun") /\ (GoTo(p, "deleteScoped") \/ GoTo(p, "failed"))
    BY <1>6 DEF RunNsGone, WaitGone
  <2>2. person' \in [People -> PersonStates] /\ Roles' /\ Solo'
    BY <1>0, <2>1, CallPerson
  <2>3. QED
    BY <1>0, <2>2, QuietInv DEF Inv, Types
<1>7. QED
  BY <1>1, <1>2, <1>3, <1>4, <1>5, <1>6

\* A step that leaves namespaces, the CRD, credentials and tokens alone.
LEMMA ObjectInv ==
  ASSUME Inv, person' \in [People -> PersonStates], Roles', Solo', kube' \in KubeStates,
         KeptNamespaces, KeptScoped, KeptTokens, KeptCreds, nextToken' = nextToken, commands' = commands,
         local' = local, exists' = exists, granted' = granted,
         built' \in [Deployments -> SUBSET Tags], mixed' \in BOOLEAN
  PROVE  Inv'
<1>1. Types'
  BY DEF Inv, Types
<1>2. Housed'
  BY DEF Inv, Housed, KeptNamespaces, KeptScoped, KeptTokens, KeptCreds
<1>3. QED
  BY <1>1, <1>2 DEF Inv

\* A person moves by a change of its own record that keeps its command.
LEMMA MoveRoles ==
  ASSUME Inv, NEW p \in People, ~Idle(p), NEW r \in PersonStates, person' = [person EXCEPT ![p] = r],
         r.cmd = person[p].cmd, r.opts = person[p].opts, r.alone = person[p].alone,
         r.pc \in InstallLabels => r.cmd = "install",
         r.pc \in UninstallLabels => r.cmd = "uninstall",
         r.pc \notin {"apply", "images"} => r.step = 1,
         r.pc = "images" => r.step \in {1, 2} /\ (r.opts.kind => r.step = 1),
         r.pc \in Preparing => Valid(r.opts),
         r.pc \in Holding \ {"done"} => r.token # 0,
         nextToken' \in Nat, nextToken' >= nextToken, r.token < nextToken'
  PROVE  /\ person' \in [People -> PersonStates] /\ Roles' /\ Solo'
         /\ person'[p] = r /\ \A q \in People \ {p} : person'[q] = person[q]
<1>1. /\ person' \in [People -> PersonStates] /\ person'[p] = r
      /\ \A q \in People \ {p} : person'[q] = person[q]
  BY DEF Inv, Types
<1>2. person[p].cmd # "none"
  BY DEF Inv, Roles, Role, Idle, Types, PersonStates, Labels
<1>3. Role(p)'
  BY <1>1, <1>2 DEF Role, Opts, Inv, Roles
<1>4. Roles'
  <2>1. nextToken \in Nat /\ nextToken > 0 /\ \A q \in People : Role(q)
    BY DEF Inv, Types, Roles
  <2>2. \A q \in People \ {p} : person[q].token \in Nat
    BY DEF Inv, Types, PersonStates
  <2>3. \A q \in People \ {p} : Role(q)'
    BY <1>1, <2>1, <2>2 DEF Role, Opts
  <2>4. QED
    BY <1>3, <2>1, <2>3 DEF Roles
<1>5. Solo'
  BY <1>1 DEF Inv, Solo, Idle
<1>6. QED
  BY <1>1, <1>4, <1>5

\* The manifests, by position.
LEMMA ManifestList ==
  /\ Len(Manifests) = 6 /\ Manifests[1] = "Namespace" /\ Manifests[2] = "CRD" /\ Manifests[3] = "RBAC"
  /\ Manifests[4] = "Service" /\ Manifests[5] = "apiserver" /\ Manifests[6] = "operator"
  /\ Len(Images) = 2 /\ Images[1] = "operator" /\ Images[2] = "apiserver"
BY DEF Manifests, Images

\* What applying one manifest does, if it succeeds.
LEMMA ApplyEffect ==
  ASSUME Inv, NEW p \in People, ApplyManifests(p)
  PROVE  /\ At(p, "apply") /\ ~Idle(p) /\ person[p].cmd = "install"
         /\ UNCHANGED <<local, exists, granted, built, commands, nextToken>>
         /\ \/ GoTo(p, "failed") /\ kube' = kube
            \/ \E r \in PersonStates :
                 /\ person' = [person EXCEPT ![p] = r]
                 /\ r.cmd = person[p].cmd /\ r.opts = person[p].opts /\ r.alone = person[p].alone
                 /\ r.token = person[p].token /\ r.fresh = person[p].fresh /\ r.blind = person[p].blind
                 /\ person[p].step = 6 => r.step = 1 /\ r.pc = "images"
                 /\ person[p].step # 6 => r.step = person[p].step + 1 /\ r.pc = "apply"
                 /\ r.doomed = person[p].doomed \cup Doomed(Manifests[person[p].step])
                 /\ kube' = Applied(Manifests[person[p].step])
<1>0. person \in [People -> PersonStates]
  BY DEF Inv, Types
<1>1. At(p, "apply") /\ UNCHANGED <<local, exists, granted, built, commands, nextToken>>
  BY DEF ApplyManifests
<1>2. ~Idle(p) /\ person[p].cmd = "install"
  BY <1>1, AtWork DEF At, InstallLabels
<1> DEFINE last == person[p].step = Len(Manifests)
           o == Manifests[person[p].step]
           ok == exists /\ Applicable(o)
           step1 == IF last THEN 1 ELSE person[p].step + 1
           pc1 == IF last THEN "images" ELSE person[p].pc
           doomed1 == person[p].doomed \cup Doomed(o)
           r1 == [person[p] EXCEPT !.step = step1]
           r2 == [r1 EXCEPT !.pc = pc1]
           r == [r2 EXCEPT !.doomed = doomed1]
<1>3. CASE ~ok
  BY <1>1, <1>2, <1>3 DEF ApplyManifests
<1>4. CASE ok
  <2>1. /\ kube' = Applied(o)
        /\ person' = [person EXCEPT ![p].step = step1, ![p].pc = pc1, ![p].doomed = doomed1]
    BY <1>4 DEF ApplyManifests
  <2>2. person[p].step \in 1 .. 6 /\ (last <=> person[p].step = 6)
    BY <1>0, ManifestList DEF PersonStates
  <2>3. /\ step1 \in 1 .. 6 /\ (last => step1 = 1) /\ (~last => step1 = person[p].step + 1)
        /\ pc1 \in Labels /\ (last => pc1 = "images") /\ (~last => pc1 = "apply")
    BY <1>0, <1>1, <2>2 DEF At, Labels, InstallLabels, Applying
  <2>4. doomed1 \in SUBSET Perishable
    <3>1. person[p].doomed \in SUBSET Perishable /\ kube.dying \in SUBSET Perishable
      BY <1>0 DEF PersonStates, Inv, Types, KubeStates
    <3>2. QED
      BY <3>1 DEF Doomed
  <2> HIDE DEF step1, pc1, doomed1, o
  <2>5. /\ r1 \in PersonStates /\ r1.step = step1 /\ r1.doomed = person[p].doomed
        /\ r1.cmd = person[p].cmd /\ r1.opts = person[p].opts /\ r1.alone = person[p].alone
        /\ r1.token = person[p].token /\ r1.fresh = person[p].fresh /\ r1.blind = person[p].blind
    BY <1>0, <2>3 DEF PersonStates
  <2>6. person' = [person EXCEPT ![p] = r]
    BY <1>0, <2>1 DEF PersonStates
  <2> HIDE DEF r1
  <2>7. /\ r2 \in PersonStates /\ r2.step = step1 /\ r2.pc = pc1
        /\ r2.cmd = person[p].cmd /\ r2.opts = person[p].opts /\ r2.alone = person[p].alone
        /\ r2.token = person[p].token /\ r2.fresh = person[p].fresh /\ r2.blind = person[p].blind
    BY <2>3, <2>5 DEF PersonStates
  <2> HIDE DEF r2
  <2>8. /\ r \in PersonStates /\ r.step = step1 /\ r.pc = pc1 /\ r.doomed = doomed1
        /\ r.cmd = person[p].cmd /\ r.opts = person[p].opts /\ r.alone = person[p].alone
        /\ r.token = person[p].token /\ r.fresh = person[p].fresh /\ r.blind = person[p].blind
    BY <2>4, <2>7 DEF PersonStates
  <2> HIDE DEF r
  <2>9. QED
    BY <1>1, <1>2, <2>1, <2>2, <2>3, <2>6, <2>8 DEF doomed1, o
<1>5. QED
  BY <1>3, <1>4

\* The manifests have their types.
LEMMA ManifestTypes ==
  \A n \in 1 .. 6 : Manifests[n] \in Kinds
<1>1. \A n \in 1 .. 6 : n \in {1, 2, 3, 4, 5, 6}
  OBVIOUS
<1>2. QED
  BY <1>1, ManifestList DEF Kinds

\* Applying a manifest.
LEMMA ApplyInv == ASSUME Inv, NEW p \in People, mixed' \in BOOLEAN, ApplyManifests(p) PROVE Inv'
<1>1. CASE GoTo(p, "failed") /\ kube' = kube
  <2>1. Abort(p)
    BY <1>1, ApplyEffect DEF Abort
  <2>2. QED
    BY <2>1, AbortInv
<1>2. CASE ~(GoTo(p, "failed") /\ kube' = kube)
  <2>1. PICK r \in PersonStates :
                 /\ person' = [person EXCEPT ![p] = r]
                 /\ r.cmd = person[p].cmd /\ r.opts = person[p].opts /\ r.alone = person[p].alone
                 /\ r.token = person[p].token
                 /\ person[p].step = 6 => r.step = 1 /\ r.pc = "images"
                 /\ person[p].step # 6 => r.step = person[p].step + 1 /\ r.pc = "apply"
                 /\ kube' = Applied(Manifests[person[p].step])
    BY <1>2, ApplyEffect
  <2>2. /\ ~Idle(p) /\ person[p].cmd = "install" /\ person[p].step \in 1 .. 6
        /\ UNCHANGED <<local, exists, granted, built, commands, nextToken>>
        /\ Valid(Opts(p))
    BY ApplyEffect DEF Inv, Types, PersonStates, At, Roles, Role, Preparing
  <2>3. r.pc \in {"images", "apply"} /\ (r.pc = "images" => r.step = 1) /\ nextToken \in Nat
        /\ r.token < nextToken
    BY <2>1, <2>2 DEF Inv, Types, Roles, Role
  <2>4. /\ person' \in [People -> PersonStates] /\ Roles' /\ Solo'
    <3>1. r.pc \notin UninstallLabels /\ r.pc \notin Holding \ {"done"}
      BY <2>3 DEF UninstallLabels, Holding, InSystem, InRun, Keyed, Pointed, Ready
    <3>2. /\ r.pc \in InstallLabels => r.cmd = "install"
          /\ r.pc \in UninstallLabels => r.cmd = "uninstall"
          /\ r.pc \notin {"apply", "images"} => r.step = 1
          /\ r.pc = "images" => r.step \in {1, 2} /\ (r.opts.kind => r.step = 1)
          /\ r.pc \in Preparing => Valid(r.opts)
          /\ r.pc \in Holding \ {"done"} => r.token # 0
      BY <2>1, <2>2, <2>3, <3>1 DEF Opts
    <3>3. nextToken' \in Nat /\ nextToken' >= nextToken /\ r.token < nextToken'
      BY <2>2, <2>3
    <3>4. QED
      BY <2>1, <2>2, <3>2, <3>3, MoveRoles
  <2> DEFINE o == Manifests[person[p].step]
  <2>5. o \in Kinds /\ kube' = Applied(o)
    BY <2>1, <2>2, ManifestTypes
  <2> HIDE DEF o
  <2>6. /\ kube' \in KubeStates /\ KeptTokens /\ KeptCreds /\ kube'.dying = kube.dying
        /\ kube.namespaces \subseteq kube'.namespaces /\ kube.scoped \subseteq kube'.scoped
    BY <2>5, AppliedEffect DEF Inv, Types
  <2>7. Types'
    BY <2>2, <2>4, <2>6 DEF Inv, Types
  <2>8. Housed'
    BY <2>2, <2>6 DEF Inv, Housed, KeptTokens, KeptCreds
  <2>9. QED
    BY <2>4, <2>7, <2>8 DEF Inv
<1>3. QED
  BY <1>1, <1>2

-----------------------------------------------------------------------------
(* The steps of a command: each one ends the command early, or goes on to  *)
(* its next label and changes one kind of object.                          *)

\* A person goes on to another label of its command.
Moves(p, next) ==
  /\ person'[p].pc = next /\ person'[p].cmd = person[p].cmd /\ person'[p].opts = person[p].opts
  /\ person'[p].alone = person[p].alone /\ person'[p].fresh = person[p].fresh
  /\ person'[p].blind = person[p].blind /\ person'[p].doomed = person[p].doomed
  /\ next # "done" => person'[p].token = person[p].token
  /\ \A q \in People \ {p} : person'[q] = person[q]

OnlyNamespaces == KeptScoped /\ KeptService /\ KeptDeploy /\ KeptPods /\ KeptTokens /\ KeptCreds
OnlyScoped == KeptNamespaces /\ KeptService /\ KeptDeploy /\ KeptPods /\ KeptTokens /\ KeptCreds
OnlyService == KeptNamespaces /\ KeptScoped /\ KeptDeploy /\ KeptPods /\ KeptTokens /\ KeptCreds
OnlyDeploy == KeptNamespaces /\ KeptScoped /\ KeptService /\ KeptPods /\ KeptTokens /\ KeptCreds
OnlyPods == KeptNamespaces /\ KeptScoped /\ KeptService /\ KeptDeploy /\ KeptTokens /\ KeptCreds
OnlyTokens == KeptNamespaces /\ KeptScoped /\ KeptService /\ KeptDeploy /\ KeptPods /\ KeptCreds
OnlyCreds == KeptNamespaces /\ KeptScoped /\ KeptService /\ KeptDeploy /\ KeptPods /\ KeptTokens

\* A call that goes through.
LEMMA CallMoves ==
  ASSUME Inv, NEW p \in People, NEW label \in (InstallLabels \cup UninstallLabels) \ {"apply", "images"},
         NEW next \in Labels \ {"idle", "begun"},
         At(p, label), GoTo(p, next),
         label \in InstallLabels => next \notin UninstallLabels,
         label \in UninstallLabels => next \notin InstallLabels,
         next \in Holding \ {"done"} => person[p].token # 0,
         next \in Preparing => Valid(Opts(p)),
         nextToken' = nextToken
  PROVE  person' \in [People -> PersonStates] /\ Roles' /\ Solo' /\ Moves(p, next)
<1>1. person' \in [People -> PersonStates] /\ Roles' /\ Solo'
  BY CallPerson
<1>2. next # "failed" /\ person \in [People -> PersonStates]
  BY DEF Labels, InstallLabels, UninstallLabels, Preparing, Applying, Delivered, Holding, InSystem, InRun,
     Keyed, Pointed, Ready, Inv, Types
<1>3. Moves(p, next)
  BY <1>2, GoToEffect DEF Moves
<1>4. QED
  BY <1>1, <1>3

\* What an install sets has its types.
LEMMA InstallValues ==
  ASSUME NEW p \in People, Opts(p) \in InstallOptions
  PROVE  /\ Tag(p) \in Tags /\ Opts(p).ns \in RunNamespaces /\ Opts(p).ns \in Namespaces
         /\ Opts(p).ns # System /\ Opts(p).ns # Absent
BY InstallerAssumption DEF Tag, Namespaces

\* OverrideImages on the operator's Deployment.
LEMMA OverrideOperatorStep ==
  ASSUME Inv, NEW p \in People, mixed' \in BOOLEAN, OverrideOperator(p)
  PROVE  /\ Inv'
         /\ \/ Abort(p)
            \/ /\ At(p, "overrideOperator") /\ Moves(p, "overrideApiserver") /\ OnlyDeploy
               /\ built' = built
               /\ kube'.deploy["operator"] = [tag |-> Tag(p), arg |-> Tag(p)]
               /\ kube'.deploy["apiserver"] = kube.deploy["apiserver"]
<1>1. At(p, "overrideOperator") /\ UNCHANGED <<local, exists, granted, built, commands, nextToken>>
  BY DEF OverrideOperator, Call
<1>2. ~Idle(p) /\ Opts(p) \in InstallOptions
  BY <1>1, AtWork DEF At, InstallLabels, Applying
<1>3. CASE GoTo(p, "failed") /\ kube' = kube
  BY <1>1, <1>2, <1>3, AbortInv DEF Abort
<1>4. CASE GoTo(p, "overrideApiserver")
           /\ kube' = [kube EXCEPT !.deploy["operator"] = [tag |-> Tag(p), arg |-> Tag(p)]]
  <2>1. person' \in [People -> PersonStates] /\ Roles' /\ Solo' /\ Moves(p, "overrideApiserver")
    BY <1>1, <1>4, CallMoves DEF Labels, InstallLabels, UninstallLabels, Preparing, Applying, Delivered,
       Holding, InSystem, InRun, Keyed, Pointed, Ready
  <2>2. [tag |-> Tag(p), arg |-> Tag(p)] \in Templates
    BY <1>2, InstallValues, TemplateTypes
  <2>3. /\ kube' \in KubeStates /\ OnlyDeploy
        /\ kube'.deploy["operator"] = [tag |-> Tag(p), arg |-> Tag(p)]
        /\ kube'.deploy["apiserver"] = kube.deploy["apiserver"]
    BY <1>4, <2>2, DeployEffect DEF Inv, Types, OnlyDeploy, Deployments
  <2>4. Inv'
    BY <1>1, <2>1, <2>3, ObjectInv DEF OnlyDeploy, Inv, Types
  <2>5. QED
    BY <1>1, <2>1, <2>3, <2>4
<1>5. QED
  BY <1>3, <1>4 DEF OverrideOperator, Call

\* OverrideImages on the apiserver's Deployment, which keeps its run namespace.
LEMMA OverrideApiserverStep ==
  ASSUME Inv, NEW p \in People, mixed' \in BOOLEAN, OverrideApiserver(p)
  PROVE  /\ Inv'
         /\ \/ Abort(p)
            \/ /\ At(p, "overrideApiserver") /\ Moves(p, "namespace") /\ OnlyDeploy /\ built' = built
               /\ kube'.deploy["apiserver"] = [tag |-> Tag(p), arg |-> kube.deploy["apiserver"].arg]
               /\ kube.deploy["apiserver"] # None
               /\ kube'.deploy["operator"] = kube.deploy["operator"]
<1>1. At(p, "overrideApiserver") /\ UNCHANGED <<local, exists, granted, built, commands, nextToken>>
  BY DEF OverrideApiserver, Call
<1>2. ~Idle(p) /\ Opts(p) \in InstallOptions
  BY <1>1, AtWork DEF At, InstallLabels, Applying
<1>3. CASE GoTo(p, "failed") /\ kube' = kube
  BY <1>1, <1>2, <1>3, AbortInv DEF Abort
<1> DEFINE t == [tag |-> Tag(p), arg |-> kube.deploy["apiserver"].arg]
<1>4. CASE GoTo(p, "namespace") /\ kube' = [kube EXCEPT !.deploy["apiserver"].tag = Tag(p)]
           /\ kube.deploy["apiserver"] # None
  <2>1. person' \in [People -> PersonStates] /\ Roles' /\ Solo' /\ Moves(p, "namespace")
    BY <1>1, <1>4, CallMoves DEF Labels, InstallLabels, UninstallLabels, Preparing, Applying, Delivered,
       Holding, InSystem, InRun, Keyed, Pointed, Ready
  <2>2. kube.deploy["apiserver"] \in Templates /\ kube \in KubeStates
    BY <1>4 DEF Inv, Types, KubeStates, Deployments
  <2>3. t \in Templates
    BY <1>2, <2>2, InstallValues DEF Templates
  <2>4. [kube.deploy["apiserver"] EXCEPT !.tag = Tag(p)] = t
    BY <2>2 DEF Templates
  <2>5. kube' = [kube EXCEPT !.deploy["apiserver"] = t]
    BY <1>4, <2>4
  <2> HIDE DEF t
  <2>6. /\ kube' \in KubeStates /\ OnlyDeploy /\ kube'.deploy["apiserver"] = t
        /\ kube'.deploy["operator"] = kube.deploy["operator"]
    BY <2>2, <2>3, <2>5, DeployEffect DEF OnlyDeploy, Deployments
  <2>7. Inv'
    BY <1>1, <2>1, <2>6, ObjectInv DEF OnlyDeploy, Inv, Types
  <2>8. QED
    BY <1>1, <1>4, <2>1, <2>6, <2>7 DEF t
<1>5. QED
  BY <1>3, <1>4 DEF OverrideApiserver, Call

\* SetApiserverRunNamespace, the other way round.
LEMMA RunNamespaceStep ==
  ASSUME Inv, NEW p \in People, mixed' \in BOOLEAN, SetApiserverRunNamespace(p)
  PROVE  /\ Inv'
         /\ \/ Abort(p)
            \/ /\ At(p, "runNamespace") /\ Moves(p, "expose") /\ OnlyDeploy /\ built' = built
               /\ kube.deploy["apiserver"] # None
               /\ kube'.deploy["apiserver"] = [tag |-> kube.deploy["apiserver"].tag, arg |-> Opts(p).ns]
               /\ kube'.deploy["operator"] = kube.deploy["operator"]
<1>1. At(p, "runNamespace") /\ UNCHANGED <<local, exists, granted, built, commands, nextToken>>
  BY DEF SetApiserverRunNamespace, Call
<1>2. ~Idle(p) /\ Opts(p) \in InstallOptions
  BY <1>1, AtWork DEF At, InstallLabels, Delivered, Holding, InSystem, InRun, Keyed
<1>3. CASE GoTo(p, "failed") /\ kube' = kube
  BY <1>1, <1>2, <1>3, AbortInv DEF Abort
<1> DEFINE t == [tag |-> kube.deploy["apiserver"].tag, arg |-> Opts(p).ns]
<1>4. CASE GoTo(p, "expose") /\ kube' = [kube EXCEPT !.deploy["apiserver"].arg = Opts(p).ns]
           /\ kube.deploy["apiserver"] # None
  <2>0. person[p].token # 0
    BY <1>1 DEF At, Inv, Roles, Role, Holding, InSystem, InRun, Keyed
  <2>1. person' \in [People -> PersonStates] /\ Roles' /\ Solo' /\ Moves(p, "expose")
    BY <1>1, <1>4, <2>0, CallMoves DEF Labels, InstallLabels, UninstallLabels, Preparing, Applying, Delivered,
       Holding, InSystem, InRun, Keyed, Pointed, Ready
  <2>2. kube.deploy["apiserver"] \in Templates /\ kube \in KubeStates
    BY <1>4 DEF Inv, Types, KubeStates, Deployments
  <2>3. t \in Templates
    BY <1>2, <2>2, InstallValues DEF Templates
  <2>4. [kube.deploy["apiserver"] EXCEPT !.arg = Opts(p).ns] = t
    BY <2>2 DEF Templates
  <2>5. kube' = [kube EXCEPT !.deploy["apiserver"] = t]
    BY <1>4, <2>4
  <2> HIDE DEF t
  <2>6. /\ kube' \in KubeStates /\ OnlyDeploy /\ kube'.deploy["apiserver"] = t
        /\ kube'.deploy["operator"] = kube.deploy["operator"]
    BY <2>2, <2>3, <2>5, DeployEffect DEF OnlyDeploy, Deployments
  <2>7. Inv'
    BY <1>1, <2>1, <2>6, ObjectInv DEF OnlyDeploy, Inv, Types
  <2>8. QED
    BY <1>1, <1>4, <2>1, <2>6, <2>7 DEF t
<1>5. QED
  BY <1>3, <1>4 DEF SetApiserverRunNamespace, Call

\* SetServiceType.
LEMMA ServiceStep ==
  ASSUME Inv, NEW p \in People, mixed' \in BOOLEAN, SetServiceType(p)
  PROVE  /\ Inv'
         /\ \/ Abort(p)
            \/ /\ At(p, "expose") /\ Moves(p, "waitOperator") /\ OnlyService /\ built' = built
               /\ kube'.service = IF Opts(p).expose THEN "LoadBalancer" ELSE kube.service
<1>1. At(p, "expose") /\ UNCHANGED <<local, exists, granted, built, commands, nextToken>>
  BY DEF SetServiceType, Call
<1>2. ~Idle(p) /\ Opts(p) \in InstallOptions
  BY <1>1, AtWork DEF At, InstallLabels, Delivered, Holding, InSystem, InRun, Keyed, Pointed
<1>3. CASE GoTo(p, "failed") /\ kube' = kube
  BY <1>1, <1>2, <1>3, AbortInv DEF Abort
<1> DEFINE s == IF Opts(p).expose THEN "LoadBalancer" ELSE kube.service
<1>4. CASE GoTo(p, "waitOperator") /\ kube' = [kube EXCEPT !.service = s]
  <2>0. person[p].token # 0
    BY <1>1 DEF At, Inv, Roles, Role, Holding, InSystem, InRun, Keyed, Pointed
  <2>1. person' \in [People -> PersonStates] /\ Roles' /\ Solo' /\ Moves(p, "waitOperator")
    BY <1>1, <1>4, <2>0, CallMoves DEF Labels, InstallLabels, UninstallLabels, Preparing, Applying, Delivered,
       Holding, InSystem, InRun, Keyed, Pointed, Ready
  <2>2. s \in {Absent, "ClusterIP", "LoadBalancer"} /\ kube \in KubeStates
    BY DEF Inv, Types, KubeStates
  <2> HIDE DEF s
  <2>3. kube' \in KubeStates /\ OnlyService /\ kube'.service = s
    BY <1>4, <2>2 DEF KubeStates, OnlyService, KeptNamespaces, KeptScoped, KeptDeploy, KeptPods,
       KeptTokens, KeptCreds
  <2>4. Inv'
    BY <1>1, <2>1, <2>3, ObjectInv DEF OnlyService, Inv, Types
  <2>5. QED
    BY <1>1, <2>1, <2>3, <2>4 DEF s
<1>5. QED
  BY <1>3, <1>4 DEF SetServiceType, Call

\* EnsureNamespace succeeds, and takes a namespace that is being deleted for
\* existing.
Ensures(p, next) ==
  /\ OnlyNamespaces /\ built' = built
  /\ kube'.namespaces = kube.namespaces \cup {Opts(p).ns} /\ kube'.dying = kube.dying
  /\ person'[p].pc = next /\ person'[p].cmd = person[p].cmd /\ person'[p].opts = person[p].opts
  /\ person'[p].alone = person[p].alone /\ person'[p].fresh = person[p].fresh
  /\ person'[p].token = person[p].token
  /\ person'[p].doomed = person[p].doomed \cup ({Opts(p).ns} \cap kube.dying)
  /\ \A q \in People \ {p} : person'[q] = person[q]

\* EnsureNamespace, wherever it is called, does so or ends the command.
LEMMA EnsureStep ==
  ASSUME Inv, NEW p \in People, mixed' \in BOOLEAN,
         NEW label \in {"namespace", "credentials"}, NEW next \in {"read", "storeCredentials"},
         next = "storeCredentials" => label = "credentials", EnsureRunNs(p, label, next)
  PROVE  Inv' /\ (Abort(p) \/ (At(p, label) /\ Ensures(p, next)))
<1> DEFINE ns == Opts(p).ns
           doomed1 == person[p].doomed \cup ({ns} \cap kube.dying)
           r1 == [person[p] EXCEPT !.pc = next]
           r == [r1 EXCEPT !.doomed = doomed1]
<1>1. At(p, label) /\ UNCHANGED <<local, exists, granted, built, commands, nextToken>>
  BY DEF EnsureRunNs
<1>2. ~Idle(p) /\ person[p].cmd = "install" /\ Opts(p) \in InstallOptions /\ person[p].step = 1
  BY <1>1, AtWork DEF At, InstallLabels, Delivered, Holding, InSystem, InRun
<1>3. CASE GoTo(p, "failed") /\ kube' = kube
  BY <1>1, <1>2, <1>3, AbortInv DEF Abort
<1>4. CASE /\ person' = [person EXCEPT ![p].pc = next, ![p].doomed = doomed1]
           /\ kube' = [kube EXCEPT !.namespaces = @ \cup {ns}]
  <2>1. /\ kube \in KubeStates /\ person \in [People -> PersonStates] /\ ns \in Namespaces
        /\ nextToken \in Nat
    BY <1>2, InstallValues DEF Inv, Types
  <2>2. doomed1 \in SUBSET Perishable /\ next \in Labels
    <3>1. person[p].doomed \in SUBSET Perishable /\ kube.dying \in SUBSET Perishable
      BY <2>1 DEF PersonStates, KubeStates
    <3>2. QED
      BY <3>1 DEF Labels, InstallLabels, Delivered, Holding, InSystem, InRun
  <2>3. person' = [person EXCEPT ![p] = r]
    BY <1>4, <2>1
  <2> HIDE DEF doomed1, ns
  <2>4. /\ r1 \in PersonStates /\ r1.pc = next /\ r1.cmd = person[p].cmd /\ r1.opts = person[p].opts
        /\ r1.alone = person[p].alone /\ r1.fresh = person[p].fresh /\ r1.step = person[p].step
        /\ r1.token = person[p].token
    BY <2>1, <2>2 DEF PersonStates
  <2> HIDE DEF r1
  <2>5. /\ r \in PersonStates /\ r.pc = next /\ r.cmd = person[p].cmd /\ r.opts = person[p].opts
        /\ r.alone = person[p].alone /\ r.fresh = person[p].fresh /\ r.step = 1
        /\ r.token = person[p].token /\ r.doomed = doomed1
    BY <1>2, <2>2, <2>4 DEF PersonStates
  <2> HIDE DEF r
  <2>6. /\ person' \in [People -> PersonStates] /\ Roles' /\ Solo'
        /\ person'[p] = r /\ \A q \in People \ {p} : person'[q] = person[q]
    <3>1. r.pc \notin UninstallLabels /\ r.pc \notin {"apply", "images"} /\ r.pc \notin Preparing
      BY <2>5 DEF UninstallLabels, Preparing
    <3>2. r.pc \in Holding \ {"done"} => r.token # 0
      <4>1. r.pc \in Holding => label = "credentials"
        BY <2>5 DEF Holding, InSystem, InRun, Keyed, Pointed, Ready
      <4>2. label = "credentials" => person[p].token # 0
        BY <1>1 DEF At, Inv, Roles, Role, Holding, InSystem, InRun
      <4>3. QED
        BY <2>5, <4>1, <4>2
    <3>3. nextToken' \in Nat /\ nextToken' >= nextToken /\ r.token < nextToken'
      BY <1>1, <2>1, <2>5 DEF Inv, Roles, Role
    <3>4. QED
      BY <1>2, <2>3, <2>5, <3>1, <3>2, <3>3, MoveRoles
  <2>7. /\ kube' \in KubeStates /\ OnlyNamespaces
        /\ kube'.namespaces = kube.namespaces \cup {ns} /\ kube'.dying = kube.dying
    BY <1>4, <2>1 DEF KubeStates, OnlyNamespaces, KeptScoped, KeptService, KeptDeploy, KeptPods,
       KeptTokens, KeptCreds
  <2>8. Types'
    BY <1>1, <2>6, <2>7 DEF Inv, Types
  <2>9. Housed'
    BY <1>1, <2>7 DEF Inv, Housed, OnlyNamespaces, KeptScoped, KeptTokens, KeptCreds
  <2>10. QED
    BY <1>1, <2>5, <2>6, <2>7, <2>8, <2>9 DEF Inv, Ensures, doomed1, ns
<1>5. QED
  BY <1>3, <1>4 DEF EnsureRunNs

\* gatewayCredential: the system's token, or one that was never given out.
LEMMA ReadStep ==
  ASSUME Inv, NEW p \in People, mixed' \in BOOLEAN, ReadToken(p)
  PROVE  /\ Inv'
         /\ \/ Abort(p)
            \/ /\ At(p, "read") /\ kube' = kube /\ built' = built
               /\ person'[p].pc = "writeSystem" /\ person'[p].cmd = person[p].cmd
               /\ person'[p].opts = person[p].opts /\ person'[p].alone = person[p].alone
               /\ person'[p].fresh = person[p].fresh /\ person'[p].doomed = person[p].doomed
               /\ kube.token[System] \in {0, person'[p].token}
               /\ \A q \in People \ {p} : person'[q] = person[q]
<1>1. At(p, "read") /\ UNCHANGED <<local, exists, granted, built, kube, commands>>
  BY DEF ReadToken
<1>2. ~Idle(p) /\ Opts(p) \in InstallOptions /\ person[p].cmd = "install" /\ person[p].step = 1
  BY <1>1, AtWork DEF At, InstallLabels, Delivered
<1>3. CASE GoTo(p, "failed") /\ nextToken' = nextToken
  BY <1>1, <1>2, <1>3, AbortInv DEF Abort
<1> DEFINE t == IF SecretValue = 0 THEN nextToken ELSE SecretValue
           r1 == [person[p] EXCEPT !.token = t]
           r == [r1 EXCEPT !.pc = "writeSystem"]
<1>4. CASE /\ person' = [person EXCEPT ![p].token = t, ![p].pc = "writeSystem"]
           /\ nextToken' = nextToken + IF SecretValue = 0 THEN 1 ELSE 0
  <2>1. /\ nextToken \in Nat /\ nextToken > 0 /\ kube.token[System] \in Nat
        /\ kube.token[System] < nextToken /\ person[p] \in PersonStates
        /\ person \in [People -> PersonStates]
    BY DEF Inv, Types, Roles, Housed, KubeStates, Namespaces
  <2>2. /\ t \in Nat /\ t # 0 /\ t < nextToken' /\ nextToken' \in Nat /\ nextToken' >= nextToken
        /\ kube.token[System] \in {0, t}
    BY <1>4, <2>1 DEF SecretValue
  <2> HIDE DEF t
  <2>3. /\ r1 \in PersonStates /\ r1.token = t /\ r1.cmd = person[p].cmd /\ r1.opts = person[p].opts
        /\ r1.alone = person[p].alone /\ r1.fresh = person[p].fresh /\ r1.step = person[p].step
        /\ r1.doomed = person[p].doomed
    BY <2>1, <2>2 DEF PersonStates
  <2>4. person' = [person EXCEPT ![p] = r]
    BY <1>4, <2>1
  <2> HIDE DEF r1
  <2>5. "writeSystem" \in Labels
    BY DEF Labels, InstallLabels, Delivered, Holding
  <2>6. /\ r \in PersonStates /\ r.token = t /\ r.cmd = person[p].cmd /\ r.opts = person[p].opts
        /\ r.alone = person[p].alone /\ r.fresh = person[p].fresh /\ r.step = person[p].step
        /\ r.pc = "writeSystem" /\ r.doomed = person[p].doomed
    BY <2>3, <2>5 DEF PersonStates
  <2> HIDE DEF r
  <2>7. /\ person' \in [People -> PersonStates] /\ Roles' /\ Solo'
        /\ person'[p] = r /\ \A q \in People \ {p} : person'[q] = person[q]
    <3>1. r.pc \notin UninstallLabels /\ r.pc \notin {"apply", "images"} /\ r.pc \notin Preparing
      BY <2>6 DEF UninstallLabels, Preparing
    <3>2. QED
      BY <1>2, <2>2, <2>4, <2>6, <3>1, MoveRoles
  <2>8. Types'
    BY <1>1, <2>2, <2>7 DEF Inv, Types
  <2>9. Housed'
    <3>1. \A n \in Namespaces : kube.token[n] \in Nat
      BY DEF Inv, Types, KubeStates
    <3>2. QED
      BY <1>1, <2>1, <2>2, <3>1 DEF Inv, Housed
  <2>10. QED
    BY <1>1, <2>2, <2>6, <2>7, <2>8, <2>9 DEF Inv
<1>5. QED
  BY <1>1, <1>3, <1>4 DEF ReadToken

\* A step that writes one token into a namespace that exists.
LEMMA TokenInv ==
  ASSUME Inv, person' \in [People -> PersonStates], Roles', Solo', mixed' \in BOOLEAN,
         UNCHANGED <<local, exists, granted, built, commands, nextToken>>,
         NEW n \in Namespaces, n \in kube.namespaces, NEW t \in Nat, t < nextToken,
         kube' = [kube EXCEPT !.token[n] = t]
  PROVE  /\ Inv' /\ OnlyTokens /\ kube'.token[n] = t
         /\ \A m \in Namespaces \ {n} : kube'.token[m] = kube.token[m]
<1>1. /\ kube' \in KubeStates /\ OnlyTokens /\ kube'.token[n] = t
      /\ \A m \in Namespaces \ {n} : kube'.token[m] = kube.token[m]
  BY TokenEffect DEF Inv, Types, OnlyTokens
<1>2. Types'
  BY <1>1 DEF Inv, Types
<1>3. Housed'
  BY <1>1 DEF Inv, Housed, OnlyTokens, KeptNamespaces, KeptScoped, KeptCreds
<1>4. QED
  BY <1>1, <1>2, <1>3 DEF Inv

\* UpsertSecret in the system namespace.
LEMMA WriteSystemStep ==
  ASSUME Inv, NEW p \in People, mixed' \in BOOLEAN, WriteSystemToken(p)
  PROVE  /\ Inv'
         /\ \/ Abort(p)
            \/ /\ At(p, "writeSystem") /\ Moves(p, "writeRun") /\ OnlyTokens /\ built' = built
               /\ person[p].token # 0 /\ kube'.token[System] = person[p].token
               /\ \A m \in Namespaces \ {System} : kube'.token[m] = kube.token[m]
<1>1. At(p, "writeSystem") /\ UNCHANGED <<local, exists, granted, built, commands, nextToken>>
  BY DEF WriteSystemToken, UpsertToken, Call
<1>2. ~Idle(p) /\ Opts(p) \in InstallOptions
  BY <1>1, AtWork DEF At, InstallLabels, Delivered, Holding
<1>3. CASE GoTo(p, "failed") /\ kube' = kube
  BY <1>1, <1>2, <1>3, AbortInv DEF Abort
<1>4. CASE /\ GoTo(p, "writeRun") /\ (kube.token[System] # 0 \/ Creatable(System))
           /\ kube' = [kube EXCEPT !.token[System] = person[p].token]
  <2>0. person[p].token # 0 /\ person[p].token \in Nat /\ person[p].token < nextToken
    BY <1>1 DEF At, Inv, Types, PersonStates, Roles, Role, Holding
  <2>1. person' \in [People -> PersonStates] /\ Roles' /\ Solo' /\ Moves(p, "writeRun")
    BY <1>1, <1>4, <2>0, CallMoves DEF Labels, InstallLabels, UninstallLabels, Preparing, Applying, Delivered,
       Holding, InSystem, InRun, Keyed, Pointed, Ready
  <2>2. System \in Namespaces /\ System \in kube.namespaces
    BY <1>4 DEF Namespaces, Creatable, Inv, Housed
  <2>3. /\ Inv' /\ OnlyTokens /\ kube'.token[System] = person[p].token
        /\ \A m \in Namespaces \ {System} : kube'.token[m] = kube.token[m]
    BY <1>1, <1>4, <2>0, <2>1, <2>2, TokenInv
  <2>4. QED
    BY <1>1, <1>4, <2>0, <2>1, <2>3
<1>5. QED
  BY <1>3, <1>4 DEF WriteSystemToken, UpsertToken, Call

\* UpsertSecret in the run namespace.
LEMMA WriteRunStep ==
  ASSUME Inv, NEW p \in People, mixed' \in BOOLEAN, WriteRunToken(p)
  PROVE  /\ Inv'
         /\ \/ Abort(p)
            \/ /\ At(p, "writeRun") /\ Moves(p, "credentials") /\ OnlyTokens /\ built' = built
               /\ kube'.token[Opts(p).ns] = person[p].token
               /\ kube'.token[System] = kube.token[System]
<1>1. At(p, "writeRun") /\ UNCHANGED <<local, exists, granted, built, commands, nextToken>>
  BY DEF WriteRunToken, UpsertToken, Call
<1>2. ~Idle(p) /\ Opts(p) \in InstallOptions
  BY <1>1, AtWork DEF At, InstallLabels, Delivered, Holding, InSystem
<1>3. CASE GoTo(p, "failed") /\ kube' = kube
  BY <1>1, <1>2, <1>3, AbortInv DEF Abort
<1>4. CASE /\ GoTo(p, "credentials") /\ (kube.token[Opts(p).ns] # 0 \/ Creatable(Opts(p).ns))
           /\ kube' = [kube EXCEPT !.token[Opts(p).ns] = person[p].token]
  <2>0. person[p].token # 0 /\ person[p].token \in Nat /\ person[p].token < nextToken
    BY <1>1 DEF At, Inv, Types, PersonStates, Roles, Role, Holding, InSystem
  <2>1. person' \in [People -> PersonStates] /\ Roles' /\ Solo' /\ Moves(p, "credentials")
    BY <1>1, <1>4, <2>0, CallMoves DEF Labels, InstallLabels, UninstallLabels, Preparing, Applying, Delivered,
       Holding, InSystem, InRun, Keyed, Pointed, Ready
  <2>2. /\ Opts(p).ns \in Namespaces /\ System \in Namespaces \ {Opts(p).ns}
        /\ Opts(p).ns \in kube.namespaces
    BY <1>2, <1>4, InstallValues DEF Namespaces, Creatable, Inv, Housed
  <2>3. /\ Inv' /\ OnlyTokens /\ kube'.token[Opts(p).ns] = person[p].token
        /\ kube'.token[System] = kube.token[System]
    BY <1>1, <1>4, <2>0, <2>1, <2>2, TokenInv
  <2>4. QED
    BY <1>1, <1>4, <2>1, <2>3
<1>5. QED
  BY <1>3, <1>4 DEF WriteRunToken, UpsertToken, Call

\* With provider keys the run namespace is ensured again.
LEMMA CredentialsStep ==
  ASSUME Inv, NEW p \in People, mixed' \in BOOLEAN, Credentials(p)
  PROVE  /\ Inv'
         /\ \/ Abort(p)
            \/ At(p, "credentials") /\ Ensures(p, "storeCredentials")
            \/ /\ At(p, "credentials") /\ Moves(p, "runNamespace") /\ kube' = kube /\ built' = built
               /\ ~Opts(p).creds
<1>1. At(p, "credentials")
  BY DEF Credentials
<1>2. CASE EnsureRunNs(p, "credentials", "storeCredentials")
  BY <1>1, <1>2, EnsureStep
<1>3. CASE /\ ~Opts(p).creds /\ GoTo(p, "runNamespace")
           /\ UNCHANGED <<local, exists, granted, built, kube, commands, nextToken>>
  <2>0. person[p].token # 0
    BY <1>1 DEF At, Inv, Roles, Role, Holding, InSystem, InRun
  <2>1. person' \in [People -> PersonStates] /\ Roles' /\ Solo' /\ Moves(p, "runNamespace")
    BY <1>1, <1>3, <2>0, CallMoves DEF Labels, InstallLabels, UninstallLabels, Preparing, Applying, Delivered,
       Holding, InSystem, InRun, Keyed, Pointed, Ready
  <2>2. Inv'
    BY <1>3, <2>1, QuietInv DEF Inv, Types
  <2>3. QED
    BY <1>1, <1>3, <2>1, <2>2
<1>4. QED
  BY <1>2, <1>3 DEF Credentials

\* The provider keys are stored, in a namespace that exists.
LEMMA StoreStep ==
  ASSUME Inv, NEW p \in People, mixed' \in BOOLEAN, StoreCredentials(p)
  PROVE  /\ Inv'
         /\ \/ Abort(p)
            \/ /\ At(p, "storeCredentials") /\ Moves(p, "runNamespace") /\ OnlyCreds /\ built' = built
               /\ kube'.creds = kube.creds \cup {Opts(p).ns}
<1>1. At(p, "storeCredentials") /\ UNCHANGED <<local, exists, granted, built, commands, nextToken>>
  BY DEF StoreCredentials, Call
<1>2. ~Idle(p) /\ Opts(p) \in InstallOptions
  BY <1>1, AtWork DEF At, InstallLabels, Delivered, Holding, InSystem, InRun
<1>3. CASE GoTo(p, "failed") /\ kube' = kube
  BY <1>1, <1>2, <1>3, AbortInv DEF Abort
<1> DEFINE ns == Opts(p).ns
<1>4. CASE /\ GoTo(p, "runNamespace") /\ (ns \in kube.creds \/ Creatable(ns))
           /\ kube' = [kube EXCEPT !.creds = @ \cup {ns}]
  <2>0. person[p].token # 0
    BY <1>1 DEF At, Inv, Roles, Role, Holding, InSystem, InRun
  <2>1. person' \in [People -> PersonStates] /\ Roles' /\ Solo' /\ Moves(p, "runNamespace")
    BY <1>1, <1>4, <2>0, CallMoves DEF Labels, InstallLabels, UninstallLabels, Preparing, Applying, Delivered,
       Holding, InSystem, InRun, Keyed, Pointed, Ready
  <2>2. ns \in Namespaces /\ kube \in KubeStates /\ ns \in kube.namespaces
    BY <1>2, <1>4, InstallValues DEF Inv, Types, Creatable, Housed
  <2> HIDE DEF ns
  <2>3. kube' \in KubeStates /\ OnlyCreds /\ kube'.creds = kube.creds \cup {ns}
    BY <1>4, <2>2 DEF KubeStates, OnlyCreds, KeptNamespaces, KeptScoped, KeptService,
       KeptDeploy, KeptPods, KeptTokens
  <2>4. Types'
    BY <1>1, <2>1, <2>3 DEF Inv, Types
  <2>5. Housed'
    BY <1>1, <2>2, <2>3 DEF Inv, Housed, OnlyCreds, KeptNamespaces, KeptScoped, KeptTokens
  <2>6. QED
    BY <1>1, <2>1, <2>3, <2>4, <2>5 DEF Inv, ns
<1>5. QED
  BY <1>3, <1>4 DEF StoreCredentials, Call

\* A pod of a tag that is delivered again has an old build, and is otherwise
\* the same.
LEMMA OutdatedEffect ==
  ASSUME kube \in KubeStates, NEW d \in Deployments, NEW tag
  PROVE  /\ Outdated(d, tag) \in PodStates
         /\ Outdated(d, tag).template = kube.pod[d].template
         /\ Outdated(d, tag).token = kube.pod[d].token
         /\ Outdated(d, tag).old => kube.pod[d].old \/ kube.pod[d].template.tag = tag
<1> DEFINE old == kube.pod[d].old \/ kube.pod[d].template.tag = tag
<1>1. kube.pod[d] \in PodStates
  BY DEF KubeStates
<1>2. old \in BOOLEAN
  OBVIOUS
<1>3. Outdated(d, tag) = [kube.pod[d] EXCEPT !.old = old]
  BY DEF Outdated
<1> HIDE DEF old
<1>4. /\ Outdated(d, tag) \in PodStates
      /\ Outdated(d, tag).template = kube.pod[d].template
      /\ Outdated(d, tag).token = kube.pod[d].token
      /\ Outdated(d, tag).old = old
  BY <1>1, <1>2, <1>3 DEF PodStates
<1>5. QED
  BY <1>4 DEF old

\* Delivering images changes what runs only in that it may be an old build.
Aged(tag) ==
  /\ OnlyPods
  /\ \A d \in Deployments :
       /\ kube'.pod[d].template = kube.pod[d].template /\ kube'.pod[d].token = kube.pod[d].token
       /\ kube'.pod[d].old => kube.pod[d].old \/ kube.pod[d].template.tag = tag
  /\ \A d \in Deployments : built[d] \subseteq built'[d]

\* kindImages.
LEMMA KindStep ==
  ASSUME Inv, NEW p \in People, mixed' \in BOOLEAN, KindImages(p)
  PROVE  /\ Inv' /\ At(p, "images") /\ Tag(p) = "dev" /\ Aged("dev")
         /\ person'[p].pc = "namespace" /\ person'[p].cmd = person[p].cmd
         /\ person'[p].opts = person[p].opts /\ person'[p].alone = person[p].alone
         /\ person'[p].doomed = person[p].doomed
         /\ person'[p].fresh => "dev" \notin built["apiserver"]
         /\ \A q \in People \ {p} : person'[q] = person[q]
<1>1. /\ At(p, "images") /\ Opts(p).kind /\ built' = [d \in Deployments |-> built[d] \cup {"dev"}]
      /\ UNCHANGED <<local, exists, granted, commands, nextToken>>
  BY DEF KindImages
<1>2. ~Idle(p) /\ Opts(p) \in InstallOptions /\ person[p].cmd = "install" /\ person[p].step = 1
  BY <1>1, AtWork DEF At, InstallLabels, Applying, Inv, Roles, Role
<1>3. kube \in KubeStates /\ built \in [Deployments -> SUBSET Tags] /\ person \in [People -> PersonStates]
  BY DEF Inv, Types
<1> DEFINE f == [d \in Deployments |-> Outdated(d, "dev")]
<1>4. kube' = [kube EXCEPT !.pod = f] /\ f \in [Deployments -> PodStates]
  BY <1>3, OutdatedEffect DEF KindImages
<1>5. Aged("dev") /\ kube' \in KubeStates
  <2>1. \A d \in Deployments : f[d] = Outdated(d, "dev")
    OBVIOUS
  <2> HIDE DEF f
  <2>2. kube' \in KubeStates /\ OnlyPods /\ kube'.pod = f
    BY <1>3, <1>4, PodEffect DEF OnlyPods
  <2>3. \A d \in Deployments : built[d] \subseteq built'[d]
    BY <1>1
  <2>4. QED
    BY <1>3, <2>1, <2>2, <2>3, OutdatedEffect DEF Aged
<1>6. built' \in [Deployments -> SUBSET Tags]
  BY <1>1, <1>3, InstallerAssumption
<1> DEFINE new == "dev" \notin built["apiserver"]
           r1 == [person[p] EXCEPT !.fresh = new]
           r == [r1 EXCEPT !.pc = "namespace"]
<1>7. new \in BOOLEAN /\ person' = [person EXCEPT ![p] = r]
  BY <1>3 DEF KindImages
<1> HIDE DEF new
<1>8. /\ r1 \in PersonStates /\ r1.cmd = person[p].cmd /\ r1.opts = person[p].opts
      /\ r1.alone = person[p].alone /\ r1.fresh = new /\ r1.step = person[p].step
      /\ r1.token = person[p].token /\ r1.doomed = person[p].doomed
  BY <1>3, <1>7 DEF PersonStates
<1> HIDE DEF r1
<1>9. "namespace" \in Labels
  BY DEF Labels, InstallLabels, Delivered
<1>10. /\ r \in PersonStates /\ r.cmd = person[p].cmd /\ r.opts = person[p].opts
       /\ r.alone = person[p].alone /\ r.fresh = new /\ r.step = 1 /\ r.token = person[p].token
       /\ r.pc = "namespace" /\ r.doomed = person[p].doomed
  BY <1>2, <1>8, <1>9 DEF PersonStates
<1> HIDE DEF r
<1>11. /\ person' \in [People -> PersonStates] /\ Roles' /\ Solo'
       /\ person'[p] = r /\ \A q \in People \ {p} : person'[q] = person[q]
  <2>1. /\ r.pc \notin UninstallLabels /\ r.pc \notin {"apply", "images"} /\ r.pc \notin Preparing
        /\ r.pc \notin Holding \ {"done"}
    BY <1>10 DEF UninstallLabels, Preparing, Holding, InSystem, InRun, Keyed, Pointed, Ready
  <2>2. nextToken' \in Nat /\ nextToken' >= nextToken /\ r.token < nextToken'
    BY <1>1, <1>10 DEF Inv, Types, Roles, Role
  <2>3. QED
    BY <1>2, <1>7, <1>10, <2>1, <2>2, MoveRoles
<1>12. Inv'
  BY <1>1, <1>5, <1>6, <1>11, ObjectInv DEF Aged, OnlyPods
<1>13. Tag(p) = "dev"
  BY <1>1 DEF Tag
<1>14. QED
  BY <1>1, <1>5, <1>10, <1>11, <1>12, <1>13 DEF new

\* registryImages: the operator's image, then the apiserver's.
LEMMA RegistryStep ==
  ASSUME Inv, NEW p \in People, mixed' \in BOOLEAN, RegistryImages(p)
  PROVE  /\ Inv' /\ At(p, "images") /\ Aged(Tag(p))
         /\ person'[p].cmd = person[p].cmd /\ person'[p].doomed = person[p].doomed
         /\ person'[p].opts = person[p].opts /\ person'[p].alone = person[p].alone
         /\ \/ person'[p].pc = "images"
            \/ /\ person'[p].pc = "overrideOperator"
               /\ person'[p].fresh => Tag(p) \notin built["apiserver"]
         /\ \A q \in People \ {p} : person'[q] = person[q]
<1> DEFINE s == person[p].step
           i == Images[s]
<1>1. /\ At(p, "images") /\ Opts(p).registry /\ built' = [built EXCEPT ![i] = @ \cup {Tag(p)}]
      /\ UNCHANGED <<local, exists, granted, commands, nextToken>>
  BY DEF RegistryImages
<1>2. ~Idle(p) /\ Opts(p) \in InstallOptions /\ person[p].cmd = "install" /\ s \in {1, 2}
      /\ Valid(Opts(p))
  BY <1>1, AtWork DEF At, InstallLabels, Preparing, Applying, Inv, Roles, Role
<1>3. kube \in KubeStates /\ built \in [Deployments -> SUBSET Tags] /\ person \in [People -> PersonStates]
      /\ Tag(p) \in Tags
  BY <1>2, InstallValues DEF Inv, Types
<1>4. i \in Deployments /\ (s = 2 => i = "apiserver")
  BY <1>2, ManifestList DEF Deployments
<1> DEFINE last == s = Len(Images)
           f == [d \in Deployments |-> IF d = i THEN Outdated(d, Tag(p)) ELSE kube.pod[d]]
<1>5. kube' = [kube EXCEPT !.pod = f]
  BY DEF RegistryImages
<1>6. Aged(Tag(p)) /\ kube' \in KubeStates
  <2>1. \A d \in Deployments : f[d] = Outdated(d, Tag(p)) \/ f[d] = kube.pod[d]
    OBVIOUS
  <2>2. f \in [Deployments -> PodStates]
    BY <1>3, OutdatedEffect DEF KubeStates
  <2> HIDE DEF f
  <2>3. kube' \in KubeStates /\ OnlyPods /\ kube'.pod = f
    BY <1>3, <1>5, <2>2, PodEffect DEF OnlyPods
  <2>4. \A d \in Deployments : built[d] \subseteq built'[d]
    BY <1>1, <1>3, <1>4
  <2>5. QED
    BY <1>3, <2>1, <2>3, <2>4, OutdatedEffect DEF Aged
<1>7. built' \in [Deployments -> SUBSET Tags]
  BY <1>1, <1>3, <1>4
<1> DEFINE new == Tag(p) \notin built[i]
           step1 == IF last THEN 1 ELSE s + 1
           pc1 == IF last THEN "overrideOperator" ELSE person[p].pc
           r1 == [person[p] EXCEPT !.fresh = new]
           r2 == [r1 EXCEPT !.step = step1]
           r == [r2 EXCEPT !.pc = pc1]
<1>8. new \in BOOLEAN /\ person' = [person EXCEPT ![p] = r]
  BY <1>3 DEF RegistryImages
<1>9. /\ step1 \in 1 .. 6 /\ (s = 2 => step1 = 1 /\ pc1 = "overrideOperator")
      /\ (s = 1 => step1 = 2 /\ pc1 = "images") /\ pc1 \in Labels
  BY <1>1, <1>2, ManifestList DEF At, Labels, InstallLabels, Applying
<1> HIDE DEF new, step1, pc1
<1>10. /\ r1 \in PersonStates /\ r1.cmd = person[p].cmd /\ r1.opts = person[p].opts
       /\ r1.alone = person[p].alone /\ r1.fresh = new /\ r1.token = person[p].token
       /\ r1.doomed = person[p].doomed
  BY <1>3, <1>8 DEF PersonStates
<1> HIDE DEF r1
<1>11. /\ r2 \in PersonStates /\ r2.cmd = person[p].cmd /\ r2.opts = person[p].opts
       /\ r2.alone = person[p].alone /\ r2.fresh = new /\ r2.token = person[p].token
       /\ r2.step = step1 /\ r2.doomed = person[p].doomed
  BY <1>9, <1>10 DEF PersonStates
<1> HIDE DEF r2
<1>12. /\ r \in PersonStates /\ r.cmd = person[p].cmd /\ r.opts = person[p].opts
       /\ r.alone = person[p].alone /\ r.fresh = new /\ r.token = person[p].token
       /\ r.step = step1 /\ r.pc = pc1 /\ r.doomed = person[p].doomed
  BY <1>9, <1>11 DEF PersonStates
<1> HIDE DEF r
<1>13. /\ person' \in [People -> PersonStates] /\ Roles' /\ Solo'
       /\ person'[p] = r /\ \A q \in People \ {p} : person'[q] = person[q]
  <2>1. r.pc \in {"images", "overrideOperator"} /\ (r.pc # "images" => r.step = 1)
        /\ r.step \in {1, 2}
    BY <1>2, <1>9, <1>12
  <2>2. r.pc \notin UninstallLabels /\ r.pc \notin Holding \ {"done"}
    BY <2>1 DEF UninstallLabels, Holding, InSystem, InRun, Keyed, Pointed, Ready
  <2>3. ~r.opts.kind /\ Valid(r.opts)
    BY <1>1, <1>2, <1>12 DEF Valid, Opts
  <2>4. nextToken' \in Nat /\ nextToken' >= nextToken /\ r.token < nextToken'
    BY <1>1, <1>12 DEF Inv, Types, Roles, Role
  <2>5. QED
    BY <1>2, <1>8, <1>12, <2>1, <2>2, <2>3, <2>4, MoveRoles
<1>14. Inv'
  BY <1>1, <1>6, <1>7, <1>13, ObjectInv DEF Aged, OnlyPods
<1>15. s = 2 => (r.fresh => Tag(p) \notin built["apiserver"])
  BY <1>4, <1>12 DEF new
<1>16. QED
  BY <1>1, <1>2, <1>6, <1>9, <1>12, <1>13, <1>14, <1>15

\* A namespace that exists is told to go.
LEMMA DyingInv ==
  ASSUME Inv, person' \in [People -> PersonStates], Roles', Solo', mixed' \in BOOLEAN,
         UNCHANGED <<local, exists, granted, built, commands, nextToken>>,
         NEW n \in Namespaces, kube' = [kube EXCEPT !.dying = @ \cup ({n} \cap kube.namespaces)]
  PROVE  Inv' /\ OnlyNamespaces /\ kube'.namespaces = kube.namespaces
<1>1. /\ kube' \in KubeStates /\ OnlyNamespaces /\ kube'.namespaces = kube.namespaces
      /\ kube'.dying = kube.dying \cup ({n} \cap kube.namespaces)
  BY DEF Inv, Types, KubeStates, Perishable, OnlyNamespaces, KeptScoped, KeptService, KeptDeploy,
     KeptPods, KeptTokens, KeptCreds
<1>2. Types'
  BY <1>1 DEF Inv, Types
<1>3. Housed'
  BY <1>1 DEF Inv, Housed, OnlyNamespaces, KeptScoped, KeptTokens, KeptCreds
<1>4. QED
  BY <1>1, <1>2, <1>3 DEF Inv

\* The options of an uninstall name a run namespace.
LEMMA UninstallValues ==
  ASSUME NEW p \in People, Opts(p) \in UninstallOptions
  PROVE  Opts(p).ns \in Namespaces /\ System \in Namespaces
BY InstallerAssumption DEF Namespaces

\* DeleteNamespace on the system namespace.
LEMMA DeleteSystemStep ==
  ASSUME Inv, NEW p \in People, mixed' \in BOOLEAN, DeleteSystem(p)
  PROVE  /\ Inv'
         /\ \/ Abort(p)
            \/ /\ At(p, "begun") /\ OnlyNamespaces /\ built' = built
               /\ kube'.namespaces = kube.namespaces
               /\ \/ Moves(p, "goneSystem")
                  \/ System \notin kube.namespaces /\ Moves(p, "deleteRun")
<1> DEFINE next == IF System \in kube.namespaces THEN "goneSystem" ELSE "deleteRun"
           k == [kube EXCEPT !.dying = @ \cup ({System} \cap kube.namespaces)]
<1>1. /\ At(p, "begun") /\ UNCHANGED <<local, exists, granted, built, commands, nextToken>>
      /\ person[p].cmd = "uninstall"
  BY DEF DeleteSystem, DeleteNamespace, Call
<1>2. ~Idle(p) /\ person[p].step = 1
  BY <1>1 DEF At, Idle, Inv, Roles, Role
<1>3. CASE GoTo(p, "failed") /\ kube' = kube
  BY <1>1, <1>2, <1>3, AbortInv DEF Abort
<1>4. CASE GoTo(p, next) /\ kube' = k
  <2>1. /\ next \in UninstallLabels \ {"idle", "begun"} /\ next \notin InstallLabels
        /\ next \notin Holding /\ next \notin Preparing /\ next \in Labels /\ next \notin {"failed", "done"}
    BY DEF UninstallLabels, InstallLabels, Preparing, Applying, Delivered, Holding, InSystem, InRun,
       Keyed, Pointed, Ready, Labels
  <2> HIDE DEF next
  <2>2. person' \in [People -> PersonStates] /\ Roles' /\ Solo'
    BY <1>1, <1>2, <1>4, <2>1, GoToRoles DEF Inv
  <2>3. Moves(p, next)
    BY <1>4, <2>1, GoToEffect DEF Moves, Inv, Types
  <2>4. Inv' /\ OnlyNamespaces /\ kube'.namespaces = kube.namespaces
    BY <1>1, <1>4, <2>2, DyingInv DEF Namespaces
  <2>5. QED
    BY <1>1, <2>3, <2>4 DEF next
<1>5. QED
  BY <1>3, <1>4 DEF DeleteSystem, DeleteNamespace, Call

\* DeleteNamespace on the run namespace.
LEMMA DeleteRunStep ==
  ASSUME Inv, NEW p \in People, mixed' \in BOOLEAN, DeleteRunNs(p)
  PROVE  /\ Inv'
         /\ \/ Abort(p)
            \/ /\ At(p, "deleteRun") /\ OnlyNamespaces /\ built' = built
               /\ kube'.namespaces = kube.namespaces
               /\ \/ Moves(p, "goneRun")
                  \/ Opts(p).ns \notin kube.namespaces /\ Moves(p, "deleteScoped")
<1> DEFINE ns == Opts(p).ns
           next == IF ns \in kube.namespaces THEN "goneRun" ELSE "deleteScoped"
           k == [kube EXCEPT !.dying = @ \cup ({ns} \cap kube.namespaces)]
<1>1. At(p, "deleteRun") /\ UNCHANGED <<local, exists, granted, built, commands, nextToken>>
  BY DEF DeleteRunNs, DeleteNamespace, Call
<1>2. ~Idle(p) /\ Opts(p) \in UninstallOptions
  BY <1>1, AtWork DEF At, UninstallLabels
<1>3. CASE GoTo(p, "failed") /\ kube' = kube
  BY <1>1, <1>2, <1>3, AbortInv DEF Abort
<1>4. CASE GoTo(p, next) /\ kube' = k
  <2>1. /\ next \in UninstallLabels \ {"idle", "begun"} /\ next \notin InstallLabels
        /\ next \notin Holding /\ next \notin Preparing /\ next \in Labels
        /\ "deleteRun" \in (InstallLabels \cup UninstallLabels) \ {"apply", "images"}
        /\ "deleteRun" \notin InstallLabels
    BY DEF UninstallLabels, InstallLabels, Preparing, Applying, Delivered, Holding, InSystem, InRun,
       Keyed, Pointed, Ready, Labels
  <2> HIDE DEF next
  <2>2. person' \in [People -> PersonStates] /\ Roles' /\ Solo' /\ Moves(p, next)
    BY <1>1, <1>4, <2>1, CallMoves
  <2>3. ns \in Namespaces
    BY <1>2, UninstallValues
  <2> HIDE DEF ns
  <2>4. Inv' /\ OnlyNamespaces /\ kube'.namespaces = kube.namespaces
    BY <1>1, <1>4, <2>2, <2>3, DyingInv
  <2>5. QED
    BY <1>1, <2>2, <2>4 DEF next, ns
<1>5. QED
  BY <1>3, <1>4 DEF DeleteRunNs, DeleteNamespace, Call

\* DeleteClusterScoped: the roles are deleted first.
LEMMA DeleteRBACStep ==
  ASSUME Inv, NEW p \in People, mixed' \in BOOLEAN, DeleteRBAC(p)
  PROVE  /\ Inv'
         /\ \/ Abort(p)
            \/ /\ At(p, "deleteScoped") /\ Moves(p, "deleteCRD") /\ OnlyScoped /\ built' = built
               /\ kube'.scoped = kube.scoped \ {"RBAC"}
<1>1. At(p, "deleteScoped") /\ UNCHANGED <<local, exists, granted, built, commands, nextToken>>
  BY DEF DeleteRBAC, Call
<1>2. ~Idle(p) /\ Opts(p) \in UninstallOptions
  BY <1>1, AtWork DEF At, UninstallLabels
<1>3. CASE GoTo(p, "failed") /\ kube' = kube
  BY <1>1, <1>2, <1>3, AbortInv DEF Abort
<1>4. CASE GoTo(p, "deleteCRD") /\ kube' = [kube EXCEPT !.scoped = @ \ {"RBAC"}]
  <2>1. person' \in [People -> PersonStates] /\ Roles' /\ Solo' /\ Moves(p, "deleteCRD")
    BY <1>1, <1>4, CallMoves DEF Labels, InstallLabels, UninstallLabels, Preparing, Applying, Delivered,
       Holding, InSystem, InRun, Keyed, Pointed, Ready
  <2>2. kube' \in KubeStates /\ OnlyScoped /\ kube'.scoped = kube.scoped \ {"RBAC"}
    BY <1>4 DEF Inv, Types, KubeStates, OnlyScoped, KeptNamespaces, KeptService, KeptDeploy,
       KeptPods, KeptTokens, KeptCreds
  <2>3. Types'
    BY <1>1, <2>1, <2>2 DEF Inv, Types
  <2>4. Housed'
    BY <1>1, <2>2 DEF Inv, Housed, OnlyScoped, KeptNamespaces, KeptTokens, KeptCreds
  <2>5. QED
    BY <1>1, <2>1, <2>2, <2>3, <2>4 DEF Inv
<1>5. QED
  BY <1>3, <1>4 DEF DeleteRBAC, Call

\* The CRD is told to go.
LEMMA DeleteCRDStep ==
  ASSUME Inv, NEW p \in People, mixed' \in BOOLEAN, DeleteCRD(p)
  PROVE  /\ Inv'
         /\ \/ Abort(p)
            \/ /\ At(p, "deleteCRD") /\ OnlyNamespaces /\ built' = built
               /\ kube'.namespaces = kube.namespaces
               /\ kube'.dying = kube.dying \cup ({"CRD"} \cap kube.scoped)
               /\ \/ Opts(p).delete /\ Moves(p, "describe")
                  \/ ~Opts(p).delete /\ Moves(p, "done")
<1> DEFINE next == IF Opts(p).delete THEN "describe" ELSE "done"
<1>1. At(p, "deleteCRD") /\ UNCHANGED <<local, exists, granted, built, commands, nextToken>>
  BY DEF DeleteCRD, Call
<1>2. ~Idle(p) /\ Opts(p) \in UninstallOptions
  BY <1>1, AtWork DEF At, UninstallLabels
<1>3. CASE GoTo(p, "failed") /\ kube' = kube
  BY <1>1, <1>2, <1>3, AbortInv DEF Abort
<1>4. CASE GoTo(p, next) /\ kube' = [kube EXCEPT !.dying = @ \cup ({"CRD"} \cap kube.scoped)]
  <2>1. /\ next \in Labels \ {"idle", "begun"} /\ next \notin InstallLabels
        /\ next \notin Holding \ {"done"} /\ next \notin Preparing
        /\ "deleteCRD" \in (InstallLabels \cup UninstallLabels) \ {"apply", "images"}
        /\ "deleteCRD" \notin InstallLabels
    BY DEF UninstallLabels, InstallLabels, Preparing, Applying, Delivered, Holding, InSystem, InRun,
       Keyed, Pointed, Ready, Labels
  <2> HIDE DEF next
  <2>2. person' \in [People -> PersonStates] /\ Roles' /\ Solo' /\ Moves(p, next)
    BY <1>1, <1>4, <2>1, CallMoves
  <2>3. /\ kube' \in KubeStates /\ OnlyNamespaces /\ kube'.namespaces = kube.namespaces
        /\ kube'.dying = kube.dying \cup ({"CRD"} \cap kube.scoped)
    BY <1>4 DEF Inv, Types, KubeStates, Perishable, OnlyNamespaces, KeptScoped, KeptService, KeptDeploy,
       KeptPods, KeptTokens, KeptCreds
  <2>4. Types'
    BY <1>1, <2>2, <2>3 DEF Inv, Types
  <2>5. Housed'
    BY <1>1, <2>3 DEF Inv, Housed, OnlyNamespaces, KeptScoped, KeptTokens, KeptCreds
  <2>6. QED
    BY <1>1, <2>2, <2>3, <2>4, <2>5 DEF Inv, next
<1>5. QED
  BY <1>3, <1>4 DEF DeleteCRD, Call

\* deleteGKECluster deletes the cluster, or takes it for deleted.
LEMMA DeleteClusterStep ==
  ASSUME Inv, NEW p \in People, mixed' \in BOOLEAN, DeleteGKECluster(p)
  PROVE  /\ Inv' /\ At(p, "describe") /\ built' = built
         /\ person'[p].pc = "done" /\ person'[p].alone = person[p].alone
         /\ person'[p].cmd = person[p].cmd /\ person'[p].opts = person[p].opts
         /\ \A q \in People \ {p} : person'[q] = person[q]
         /\ \/ ~exists' /\ kube' = EmptyKube
            \/ person'[p].blind /\ kube' = kube
<1>1. At(p, "describe") /\ UNCHANGED <<local, granted, built, commands, nextToken>>
  BY DEF DeleteGKECluster
<1>2. ~Idle(p) /\ person[p].cmd = "uninstall" /\ person[p].step = 1
  BY <1>1, AtWork DEF At, UninstallLabels
<1>3. CASE exists' = FALSE /\ kube' = EmptyKube /\ GoTo(p, "done")
  <2>1. person' \in [People -> PersonStates] /\ Roles' /\ Solo' /\ Moves(p, "done")
    BY <1>1, <1>3, CallMoves DEF Labels, InstallLabels, UninstallLabels, Preparing, Applying, Delivered,
       Holding, InSystem, InRun, Keyed, Pointed, Ready
  <2>2. Types'
    BY <1>1, <1>3, <2>1, EmptyKubeType DEF Inv, Types
  <2>3. Housed'
    BY <1>1, <1>3, EmptyKubeType DEF Housed, Inv, Roles
  <2>4. QED
    BY <1>1, <1>3, <2>1, <2>2, <2>3 DEF Inv, Moves
<1>4. CASE /\ person' = [person EXCEPT ![p].blind = TRUE, ![p].pc = "done"]
           /\ UNCHANGED <<exists, kube>>
  <2> DEFINE r1 == [person[p] EXCEPT !.blind = TRUE]
             r == [r1 EXCEPT !.pc = "done"]
  <2>0. person \in [People -> PersonStates]
    BY DEF Inv, Types
  <2>1. person' = [person EXCEPT ![p] = r]
    BY <1>4, <2>0
  <2>2. /\ r1 \in PersonStates /\ r1.cmd = person[p].cmd /\ r1.opts = person[p].opts
        /\ r1.alone = person[p].alone /\ r1.step = person[p].step /\ r1.token = person[p].token
        /\ r1.blind
    BY <2>0 DEF PersonStates
  <2> HIDE DEF r1
  <2>3. "done" \in Labels
    BY DEF Labels
  <2>4. /\ r \in PersonStates /\ r.cmd = person[p].cmd /\ r.opts = person[p].opts
        /\ r.alone = person[p].alone /\ r.step = person[p].step /\ r.token = person[p].token
        /\ r.blind /\ r.pc = "done"
    BY <2>2, <2>3 DEF PersonStates
  <2> HIDE DEF r
  <2>5. /\ person' \in [People -> PersonStates] /\ Roles' /\ Solo'
        /\ person'[p] = r /\ \A q \in People \ {p} : person'[q] = person[q]
    <3>1. r.pc \notin InstallLabels /\ r.pc \notin {"apply", "images"} /\ r.pc \notin Preparing
      BY <2>4 DEF InstallLabels, Preparing, Applying, Delivered, Holding, InSystem, InRun, Keyed, Pointed, Ready
    <3>2. nextToken' \in Nat /\ nextToken' >= nextToken /\ r.token < nextToken'
      BY <1>1, <2>4 DEF Inv, Types, Roles, Role
    <3>3. QED
      BY <1>2, <2>1, <2>4, <3>1, <3>2, MoveRoles
  <2>6. Inv'
    BY <1>1, <1>4, <2>5, QuietInv DEF Inv, Types
  <2>7. QED
    BY <1>1, <1>4, <2>4, <2>5, <2>6
<1>5. QED
  BY <1>3, <1>4 DEF DeleteGKECluster

\* Pods start.
LEMMA StartStep ==
  ASSUME Inv, NEW d \in Deployments, mixed' \in BOOLEAN, StartPod(d)
  PROVE  /\ Inv' /\ OnlyPods /\ built' = built /\ person' = person
         /\ kube.deploy[d] # None /\ kube.deploy[d].tag \in built[d]
         /\ kube'.pod[d] = [template |-> kube.deploy[d], old |-> FALSE, token |-> kube.token[System]]
         /\ \A e \in Deployments \ {d} : kube'.pod[e] = kube.pod[e]
<1> DEFINE new == [template |-> kube.deploy[d], old |-> FALSE, token |-> kube.token[System]]
           f == [kube.pod EXCEPT ![d] = new]
<1>1. /\ UNCHANGED <<person, local, exists, granted, built, commands, nextToken>>
      /\ kube.deploy[d] # None /\ kube.deploy[d].tag \in built[d]
      /\ kube' = [kube EXCEPT !.pod[d] = new]
  BY DEF StartPod, Cluster, Pullable
<1>2. kube \in KubeStates
  BY DEF Inv, Types
<1>3. new \in PodStates
  BY <1>2 DEF KubeStates, PodStates, Namespaces
<1> HIDE DEF new
<1>4. kube.pod \in [Deployments -> PodStates]
  BY <1>2 DEF KubeStates
<1>5. f \in [Deployments -> PodStates] /\ kube' = [kube EXCEPT !.pod = f]
  BY <1>1, <1>2, <1>3, <1>4 DEF KubeStates
<1>6. f[d] = new /\ \A e \in Deployments \ {d} : f[e] = kube.pod[e]
  BY <1>4
<1> HIDE DEF f
<1>7. kube' \in KubeStates /\ OnlyPods /\ kube'.pod = f
  BY <1>2, <1>5, PodEffect DEF OnlyPods
<1>8. Inv'
  BY <1>1, <1>7, ObjectInv DEF OnlyPods, Inv, Types, Roles, Role, Opts, Solo, Idle
<1>9. QED
  BY <1>1, <1>6, <1>7, <1>8 DEF new

\* Namespaces disappear.
LEMMA GoneInv ==
  ASSUME Inv, NEW n \in Namespaces, mixed' \in BOOLEAN, NamespaceGone(n) PROVE Inv'
<1>1. UNCHANGED <<person, local, exists, granted, built, commands, nextToken>>
  BY DEF NamespaceGone, Cluster
<1>2. kube \in KubeStates
  BY DEF Inv, Types
<1>3. Types'
  BY <1>1, <1>2, GoneEffect DEF Inv, Types
<1>4. Housed'
  <2>1. /\ n \in kube.dying /\ kube'.scoped = kube.scoped
        /\ kube'.namespaces = kube.namespaces \ {n} /\ kube'.dying = kube.dying \ {n}
        /\ kube'.creds = kube.creds \ {n}
        /\ kube'.token[n] = 0 /\ \A m \in Namespaces \ {n} : kube'.token[m] = kube.token[m]
    BY <1>2, GoneEffect DEF KeptScoped
  <2>2. nextToken' = nextToken /\ nextToken > 0
    BY <1>1 DEF Inv, Roles
  <2>3. QED
    BY <2>1, <2>2 DEF Inv, Housed
<1>5. Roles' /\ Solo'
  BY <1>1 DEF Inv, Roles, Role, Opts, Solo, Idle
<1>6. QED
  BY <1>3, <1>4, <1>5 DEF Inv

\* The CRD disappears.
LEMMA CRDGoneStep ==
  ASSUME Inv, mixed' \in BOOLEAN, CRDGone
  PROVE  /\ Inv' /\ person' = person /\ built' = built /\ "CRD" \in kube.dying
         /\ kube'.namespaces = kube.namespaces /\ KeptService /\ KeptDeploy /\ KeptPods
         /\ KeptTokens /\ KeptCreds
         /\ kube'.scoped = kube.scoped \ {"CRD"} /\ kube'.dying = kube.dying \ {"CRD"}
<1> DEFINE k == [kube EXCEPT !.scoped = @ \ {"CRD"}]
<1>1. /\ UNCHANGED <<person, local, exists, granted, built, commands, nextToken>>
      /\ "CRD" \in kube.dying /\ kube' = [k EXCEPT !.dying = @ \ {"CRD"}]
  BY DEF CRDGone, Cluster
<1>2. /\ k \in KubeStates /\ k.namespaces = kube.namespaces /\ k.service = kube.service
      /\ k.deploy = kube.deploy /\ k.pod = kube.pod /\ k.token = kube.token /\ k.creds = kube.creds
      /\ k.scoped = kube.scoped \ {"CRD"} /\ k.dying = kube.dying
  BY DEF Inv, Types, KubeStates
<1> HIDE DEF k
<1>3. /\ kube' \in KubeStates /\ kube'.namespaces = kube.namespaces
      /\ KeptService /\ KeptDeploy /\ KeptPods /\ KeptTokens /\ KeptCreds
      /\ kube'.scoped = kube.scoped \ {"CRD"} /\ kube'.dying = kube.dying \ {"CRD"}
  BY <1>1, <1>2 DEF KubeStates, KeptService, KeptDeploy, KeptPods, KeptTokens, KeptCreds
<1>4. Types'
  BY <1>1, <1>3 DEF Inv, Types
<1>5. Housed'
  BY <1>1, <1>3 DEF Inv, Housed, KeptTokens, KeptCreds
<1>6. Roles' /\ Solo'
  BY <1>1 DEF Inv, Roles, Role, Opts, Solo, Idle
<1>7. QED
  BY <1>1, <1>3, <1>4, <1>5, <1>6 DEF Inv

\* The history variable keeps its type.
LEMMA MixedType == ASSUME Inv, Next PROVE mixed' \in BOOLEAN
<1>1. mixed' = (mixed \/ Mixes)
  BY DEF Next
<1>2. QED
  BY <1>1

\* The steps of a command besides its beginning and an early end.
Steps(p) ==
  \/ EnsureCluster(p) \/ GrantNodePull(p) \/ ApplyManifests(p) \/ KindImages(p) \/ RegistryImages(p)
  \/ OverrideOperator(p) \/ OverrideApiserver(p) \/ EnsureNamespace(p) \/ ReadToken(p)
  \/ WriteSystemToken(p) \/ WriteRunToken(p) \/ Credentials(p) \/ StoreCredentials(p)
  \/ SetApiserverRunNamespace(p) \/ SetServiceType(p) \/ WaitOperator(p) \/ WaitApiserver(p)
  \/ DeleteSystem(p) \/ SystemGone(p) \/ DeleteRunNs(p) \/ RunNsGone(p)
  \/ DeleteRBAC(p) \/ DeleteCRD(p) \/ DeleteGKECluster(p)

\* A step of the system is one of a command or one of the cluster.
LEMMA NextCases ==
  ASSUME Next
  PROVE  \/ \E p \in People : BeginInstall(p) \/ BeginUninstall(p)
         \/ \E p \in People : Abort(p)
         \/ \E p \in People : Steps(p)
         \/ \E d \in Deployments : StartPod(d)
         \/ \E ns \in Namespaces : NamespaceGone(ns)
         \/ CRDGone
BY DEF Next, Install, Uninstall, Steps

\* Every step of a command keeps the invariant.
LEMMA StepInv == ASSUME Inv, NEW p \in People, mixed' \in BOOLEAN, Steps(p) PROVE Inv'
<1>1. CASE EnsureCluster(p) \/ GrantNodePull(p) \/ WaitOperator(p) \/ WaitApiserver(p)
           \/ SystemGone(p) \/ RunNsGone(p)
  BY <1>1, ClusterInv
<1>2. CASE ApplyManifests(p)
  BY <1>2, ApplyInv
<1>3. CASE KindImages(p) \/ RegistryImages(p)
  BY <1>3, KindStep, RegistryStep
<1>4. CASE OverrideOperator(p) \/ OverrideApiserver(p) \/ SetApiserverRunNamespace(p) \/ SetServiceType(p)
  BY <1>4, OverrideOperatorStep, OverrideApiserverStep, RunNamespaceStep, ServiceStep
<1>5. CASE EnsureNamespace(p) \/ ReadToken(p)
  BY <1>5, EnsureStep, ReadStep DEF EnsureNamespace
<1>6. CASE WriteSystemToken(p) \/ WriteRunToken(p) \/ Credentials(p) \/ StoreCredentials(p)
  BY <1>6, WriteSystemStep, WriteRunStep, CredentialsStep, StoreStep
<1>7. CASE DeleteSystem(p) \/ DeleteRunNs(p) \/ DeleteRBAC(p) \/ DeleteCRD(p) \/ DeleteGKECluster(p)
  BY <1>7, DeleteSystemStep, DeleteRunStep, DeleteRBACStep, DeleteCRDStep, DeleteClusterStep
<1>8. QED
  BY <1>1, <1>2, <1>3, <1>4, <1>5, <1>6, <1>7 DEF Steps

\* Nobody runs a command at first, and the cluster is empty.
LEMMA InitInv == ASSUME Init PROVE Inv
<1>1. /\ person = [p \in People |-> Nobody] /\ nextToken = 1 /\ commands = 0
      /\ built = [d \in Deployments |-> {}] /\ kube = EmptyKube
      /\ local \in BOOLEAN /\ exists \in BOOLEAN /\ granted \in BOOLEAN /\ mixed \in BOOLEAN
  BY DEF Init
<1>2. Types
  BY <1>1, NobodyType, EmptyKubeType DEF Types
<1>3. Roles
  BY <1>1, NobodyType DEF Roles, Role, InstallLabels, UninstallLabels, Preparing, Applying, Delivered,
     Holding, InSystem, InRun, Keyed, Pointed, Ready
<1>4. Solo
  BY <1>1, NobodyType DEF Solo
<1>5. Housed
  BY <1>1, EmptyKubeType DEF Housed
<1>6. QED
  BY <1>2, <1>3, <1>4, <1>5 DEF Inv

\* Every step of the system keeps the invariant.
LEMMA NextInv == ASSUME Inv, [Next]_vars PROVE Inv'
<1>1. CASE Next
  <2>1. mixed' \in BOOLEAN
    BY <1>1, MixedType
  <2>2. QED
    BY <1>1, <2>1, NextCases, BeginInv, AbortInv, StepInv, StartStep, GoneInv,
       CRDGoneStep
<1>2. CASE UNCHANGED vars
  BY <1>2 DEF vars, Inv, Types, Roles, Role, Opts, Solo, Idle, Housed
<1>3. QED
  BY <1>1, <1>2

\* Commands keep to their labels, hold the tokens they read or made, and run
\* alone while they are marked so; objects are in namespaces that exist.
THEOREM Invariance == Spec => []Inv
<1>1. Init => Inv
  BY InitInv
<1>2. Inv /\ [Next]_vars => Inv'
  BY NextInv
<1>3. QED
  BY <1>1, <1>2, PTL DEF Spec

\* The variables keep their types, however commands end and overlap.
THEOREM TypeCorrect == Spec => []TypeOK
<1>1. Inv => TypeOK
  <2> SUFFICES ASSUME Inv PROVE TypeOK
    OBVIOUS
  <2>1. \A p \in People : person[p].step \in 1 .. Len(Manifests) /\ person[p].token < nextToken
    BY ManifestList DEF Inv, Types, PersonStates, Roles, Role
  <2>2. exists \in BOOLEAN /\ granted \in BOOLEAN /\ local \in BOOLEAN
    BY DEF Inv, Types
  <2>3. /\ kube.namespaces \subseteq Namespaces /\ kube.scoped \subseteq Scoped
        /\ kube.service \in {Absent, "ClusterIP", "LoadBalancer"}
        /\ kube.deploy \in [Deployments -> Templates \cup {None}]
    BY DEF Inv, Types, KubeStates
  <2>4. QED
    BY <2>1, <2>2, <2>3 DEF TypeOK, Inv, Housed
<1>2. QED
  BY <1>1, Invariance, PTL

-----------------------------------------------------------------------------
(* What a command that runs alone has done stays done until it ends.       *)

\* The objects that an install has put into the system namespace, by how far it
\* has come, unless that namespace was being deleted.
Objects(p) ==
  Safe(p, System) =>
  /\ person[p].pc = "apply" =>
       /\ person[p].step > 1 => Creatable(System)
       /\ person[p].step > 4 => kube.service = "ClusterIP"
       /\ person[p].step > 5 => kube.deploy["apiserver"] = Shipped("apiserver")
  /\ person[p].pc \in Applying \cup Delivered =>
       /\ Creatable(System)
       /\ kube.service = IF person[p].pc \in Ready /\ Opts(p).expose THEN "LoadBalancer" ELSE "ClusterIP"
       /\ kube.deploy["operator"] =
            IF person[p].pc \in {"images", "overrideOperator"} THEN Shipped("operator")
            ELSE [tag |-> Tag(p), arg |-> Tag(p)]
       /\ kube.deploy["apiserver"] =
            IF person[p].pc \in Applying THEN Shipped("apiserver")
            ELSE [tag |-> Tag(p), arg |-> IF person[p].pc \in Pointed THEN Opts(p).ns ELSE DefaultNs]

\* Its cluster-scoped objects.
Past(p, n) == person[p].pc \in Applying \cup Delivered \/ (person[p].pc = "apply" /\ person[p].step > n)
Wide(p) ==
  /\ Past(p, 3) => "RBAC" \in kube.scoped
  /\ Past(p, 2) /\ Safe(p, "CRD") => "CRD" \in kube.scoped \ kube.dying

\* The Secrets of an install.  Before it has written its token, the system has
\* that one or none; afterwards the system has that one, or the namespace is gone
\* and with it the apiserver.
Secrets(p) ==
  /\ person[p].pc = "writeSystem" => kube.token[System] \in {0, person[p].token}
  /\ person[p].pc \in InSystem \ {"done"} =>
       kube.token[System] = person[p].token \/ kube.deploy["apiserver"] = None
  /\ Safe(p, Opts(p).ns) =>
       /\ person[p].pc \in ({"read"} \cup Holding) \ {"done"} => Creatable(Opts(p).ns)
       /\ person[p].pc \in InRun \ {"done"} => kube.token[Opts(p).ns] = person[p].token
       /\ person[p].pc \in Keyed \ {"done"} => (Opts(p).creds => Opts(p).ns \in kube.creds)

\* No pod has an old build of a tag that the install was the first to deliver.
Fresh(p) ==
  person[p].pc \in (Applying \cup Delivered) \ {"images"} =>
    (person[p].fresh /\ kube.pod["apiserver"].template.tag = Tag(p) => ~kube.pod["apiserver"].old)

\* What an uninstall has removed, or told to go.
Removed(p) ==
  /\ person[p].pc \in {"deleteRun", "goneRun", "deleteScoped", "deleteCRD", "describe", "done"} =>
       System \notin kube.namespaces
  /\ person[p].pc \in {"deleteScoped", "deleteCRD", "describe", "done"} =>
       Opts(p).ns \notin kube.namespaces
  /\ person[p].pc \in {"deleteCRD", "describe", "done"} => "RBAC" \notin kube.scoped
  /\ person[p].pc \in {"describe", "done"} /\ "CRD" \in kube.scoped => "CRD" \in kube.dying

Mine(p) ==
  person[p].alone =>
    /\ person[p].cmd = "install" => Objects(p) /\ Wide(p) /\ Secrets(p) /\ Fresh(p)
    /\ person[p].cmd = "uninstall" => Removed(p)

\* A pod runs an image that was delivered.
Pulled == \A d \in Deployments : kube.pod[d].template # None => kube.pod[d].template.tag \in built[d]

\* Unless tokens were mixed up, the apiserver is pointed at a run namespace of
\* one's own, and runs so, only with the system's token.
Keys ==
  ~mixed =>
    /\ kube.deploy["apiserver"] # None /\ kube.deploy["apiserver"].arg # DefaultNs
         => kube.token[System] # 0
    /\ kube.pod["apiserver"].template # None /\ kube.pod["apiserver"].template.arg # DefaultNs
         => kube.pod["apiserver"].token = kube.token[System] /\ kube.token[System] # 0

Deeds == (\A p \in People : Mine(p)) /\ Pulled /\ Keys

\* A step of one person leaves the deeds of the others alone: they do not run
\* alone.
LEMMA InstallDeeds ==
  ASSUME Inv, Deeds, NEW p \in People, ~Idle(p), person[p].cmd = "install",
         person'[p].cmd = "install", person'[p].alone = person[p].alone,
         \A q \in People \ {p} : person'[q] = person[q],
         person[p].doomed \subseteq person'[p].doomed,
         Objects(p) /\ Safe(p, System) /\ Safe(p, System)' => Objects(p)',
         Wide(p) => Wide(p)', Secrets(p) => Secrets(p)', Fresh(p) => Fresh(p)',
         Pulled', Keys'
  PROVE  Deeds'
<1>1. \A q \in People \ {p} : Mine(q)'
  BY OthersAreNotAlone DEF Inv, Mine
<1>2. Mine(p)'
  <2>1. Safe(p, System)' => Safe(p, System)
    BY DEF Safe
  <2>2. ~Safe(p, System)' => Objects(p)'
    BY DEF Objects
  <2>3. QED
    BY <2>1, <2>2 DEF Mine, Deeds
<1>3. QED
  BY <1>1, <1>2 DEF Deeds

\* Once the manifests are applied, cluster-scoped objects are left alone.
LEMMA WideKept ==
  ASSUME NEW p \in People,
         person[p].pc \in Applying \cup Delivered, person'[p].pc \in Applying \cup Delivered,
         person[p].doomed \subseteq person'[p].doomed, KeptScoped, kube'.dying = kube.dying
  PROVE  Wide(p) => Wide(p)'
BY DEF Wide, Past, Safe, KeptScoped

\* The same for a step of an uninstall.
LEMMA UninstallDeeds ==
  ASSUME Inv, Deeds, NEW p \in People, ~Idle(p), person[p].cmd = "uninstall",
         person'[p].cmd = "uninstall", person'[p].alone = person[p].alone,
         \A q \in People \ {p} : person'[q] = person[q],
         person[p].alone /\ Removed(p) => Removed(p)',
         Pulled', Keys'
  PROVE  Deeds'
<1>1. \A q \in People \ {p} : Mine(q)'
  BY OthersAreNotAlone DEF Inv, Mine
<1>2. Mine(p)'
  BY DEF Mine, Deeds
<1>3. QED
  BY <1>1, <1>2 DEF Deeds

\* What pods run, and with which token, is changed by few steps.
LEMMA KeptKeys ==
  ASSUME Deeds, mixed \in BOOLEAN, mixed' = (mixed \/ Mixes), KeptDeploy, KeptPods, KeptTokens, built' = built
  PROVE  Pulled' /\ Keys'
<1>1. Pulled'
  BY DEF Deeds, Pulled, KeptPods
<1>2. ~mixed' => ~mixed
  OBVIOUS
<1>3. Keys'
  BY <1>2 DEF Deeds, Keys, KeptDeploy, KeptPods, KeptTokens
<1>4. QED
  BY <1>1, <1>3

\* A command that ends early has no deeds.
LEMMA AbortDeeds ==
  ASSUME Inv, Deeds, NEW p \in People, mixed' = (mixed \/ Mixes), Abort(p) PROVE Deeds'
<1>1. ~Idle(p) /\ GoTo(p, "failed") /\ kube' = kube /\ built' = built
  BY DEF Abort
<1>2. person'[p] = Nobody /\ \A q \in People \ {p} : person'[q] = person[q]
  BY <1>1, GoToEffect DEF Inv, Types
<1>3. Mine(p)'
  BY <1>2, NobodyType DEF Mine
<1>4. \A q \in People \ {p} : Mine(q)'
  BY <1>1, <1>2, OthersAreNotAlone DEF Inv, Mine
<1>5. Pulled' /\ Keys'
  BY <1>1, KeptKeys DEF KeptDeploy, KeptPods, KeptTokens, Inv, Types
<1>6. QED
  BY <1>3, <1>4, <1>5 DEF Deeds

\* A command that begins has done nothing yet.
LEMMA BeginDeeds ==
  ASSUME Inv, Deeds, NEW p \in People, mixed' = (mixed \/ Mixes), BeginInstall(p) \/ BeginUninstall(p)
  PROVE  Deeds'
<1>1. PICK cmd, o : Begin(p, cmd, o)
  BY DEF BeginInstall, BeginUninstall
<1> DEFINE others == {q \in People \ {p} : ~Idle(q)}
           mine == [Nobody EXCEPT !.pc = "begun", !.cmd = cmd, !.opts = o, !.alone = others = {}]
<1>2. /\ UNCHANGED <<built, kube>>
      /\ person' = [q \in People |-> CASE q = p -> mine
                                       [] q \in others -> [person[q] EXCEPT !.alone = FALSE]
                                       [] OTHER -> Nobody]
  BY <1>1 DEF Begin
<1>3. mine.pc = "begun"
  BY DEF Nobody
<1> HIDE DEF mine
<1>4. \A q \in People \ {p} : ~person'[q].alone
  <2>1. \A q \in others : [person[q] EXCEPT !.alone = FALSE].alone = FALSE
    BY DEF Inv, Types, PersonStates
  <2>2. QED
    BY <1>2, <2>1, NobodyType
<1>5. Mine(p)'
  <2>1. person'[p].pc = "begun"
    BY <1>2, <1>3
  <2>2. QED
    BY <2>1 DEF Mine, Objects, Wide, Past, Secrets, Fresh, Removed, Applying, Delivered, Holding, InSystem,
       InRun, Keyed, Pointed, Ready
<1>6. \A q \in People \ {p} : Mine(q)'
  BY <1>4 DEF Mine
<1>7. Pulled' /\ Keys'
  BY <1>2, KeptKeys DEF KeptDeploy, KeptPods, KeptTokens, Inv, Types
<1>8. QED
  BY <1>5, <1>6, <1>7 DEF Deeds

\* Finding or creating the cluster, and the grant.
LEMMA EnsureDeeds ==
  ASSUME Inv, Deeds, NEW p \in People, mixed' = (mixed \/ Mixes), EnsureCluster(p) \/ GrantNodePull(p)
  PROVE  Deeds'
<1>1. /\ kube' = kube /\ built' = built /\ person[p].pc \in {"begun", "grant"}
      /\ person[p].pc = "begun" => person[p].cmd = "install"
      /\ GoTo(p, "grant") \/ GoTo(p, "apply") \/ GoTo(p, "failed")
  BY DEF EnsureCluster, GrantNodePull, CheckServer, At
<1>2. ~Idle(p) /\ person[p].cmd = "install" /\ person[p].step = 1
  BY <1>1, AtWork DEF Idle, InstallLabels
<1>3. /\ \A q \in People \ {p} : person'[q] = person[q]
      /\ \/ person'[p] = Nobody
         \/ /\ person'[p].pc \in {"grant", "apply"} /\ person'[p].cmd = "install"
            /\ person'[p].step = 1 /\ person'[p].alone = person[p].alone
            /\ person'[p].doomed = person[p].doomed
  BY <1>1, <1>2, GoToEffect DEF Inv, Types, Labels, InstallLabels
<1>4. Pulled' /\ Keys'
  BY <1>1, KeptKeys DEF KeptDeploy, KeptPods, KeptTokens, Inv, Types
<1>5. CASE person'[p] = Nobody
  <2>1. Mine(p)'
    BY <1>5, NobodyType DEF Mine
  <2>2. \A q \in People \ {p} : Mine(q)'
    BY <1>2, <1>3, OthersAreNotAlone DEF Inv, Mine
  <2>3. QED
    BY <1>4, <2>1, <2>2 DEF Deeds
<1>6. CASE person'[p] # Nobody
  <2>1. Objects(p)' /\ Wide(p)' /\ Secrets(p)' /\ Fresh(p)'
    BY <1>3, <1>6 DEF Objects, Wide, Past, Secrets, Fresh, Applying, Delivered, Holding, InSystem, InRun,
       Keyed, Pointed, Ready
  <2>2. QED
    BY <1>2, <1>3, <1>4, <1>6, <2>1, InstallDeeds
<1>7. QED
  BY <1>5, <1>6

\* The shipped template points the apiserver at the shipped run namespace.
LEMMA ShippedApiserver == Shipped("apiserver") = [tag |-> "dev", arg |-> DefaultNs]
BY DEF Shipped

\* ApplyManifests: what the shipped manifests say, whatever was there.
LEMMA ApplyDeeds ==
  ASSUME Inv, Deeds, NEW p \in People, mixed' = (mixed \/ Mixes), ApplyManifests(p)
  PROVE  Deeds'
<1>0. mixed \in BOOLEAN /\ kube \in KubeStates
  BY DEF Inv, Types
<1>1. CASE GoTo(p, "failed") /\ kube' = kube
  <2>1. Abort(p)
    BY <1>1, ApplyEffect DEF Abort
  <2>2. QED
    BY <2>1, AbortDeeds
<1>2. CASE ~(GoTo(p, "failed") /\ kube' = kube)
  <2>1. PICK r \in PersonStates :
                 /\ person' = [person EXCEPT ![p] = r]
                 /\ r.cmd = person[p].cmd /\ r.opts = person[p].opts /\ r.alone = person[p].alone
                 /\ person[p].step = 6 => r.step = 1 /\ r.pc = "images"
                 /\ person[p].step # 6 => r.step = person[p].step + 1 /\ r.pc = "apply"
                 /\ r.doomed = person[p].doomed \cup Doomed(Manifests[person[p].step])
                 /\ kube' = Applied(Manifests[person[p].step])
    BY <1>2, ApplyEffect
  <2>2. /\ ~Idle(p) /\ At(p, "apply") /\ person[p].cmd = "install" /\ person[p].step \in 1 .. 6
        /\ built' = built
    BY ApplyEffect DEF Inv, Types, PersonStates
  <2>3. person'[p] = r /\ \A q \in People \ {p} : person'[q] = person[q]
    BY <2>1 DEF Inv, Types
  <2> DEFINE o == Manifests[person[p].step]
  <2>4. /\ o \in Kinds /\ kube' = Applied(o)
        /\ person[p].step = 1 => o = "Namespace"
        /\ person[p].step = 2 => o = "CRD"
        /\ person[p].step = 3 => o = "RBAC"
        /\ person[p].step = 4 => o = "Service"
        /\ person[p].step = 5 => o = "apiserver"
        /\ person[p].step = 6 => o = "operator"
    BY <2>1, <2>2, ManifestTypes, ManifestList
  <2>5. /\ person[p].doomed \subseteq person'[p].doomed
        /\ o = "Namespace" /\ Safe(p, System)' => System \notin kube.dying
        /\ o = "CRD" /\ Safe(p, "CRD")' => "CRD" \notin kube.dying
    BY <2>1, <2>3 DEF Safe, Doomed
  <2> HIDE DEF o
  <2>6. /\ KeptPods /\ KeptTokens /\ kube'.dying = kube.dying
        /\ kube.namespaces \subseteq kube'.namespaces /\ kube.scoped \subseteq kube'.scoped
        /\ o = "Namespace" => System \in kube'.namespaces
        /\ o \in Scoped => o \in kube'.scoped
        /\ kube'.service = IF o = "Service" THEN "ClusterIP" ELSE kube.service
        /\ kube'.deploy["apiserver"] = IF o = "apiserver" THEN Shipped("apiserver") ELSE kube.deploy["apiserver"]
        /\ kube'.deploy["operator"] = IF o = "operator" THEN Shipped("operator") ELSE kube.deploy["operator"]
    BY <1>0, <2>4, AppliedEffect DEF Deployments
  <2>7. Pulled' /\ Keys'
    <3>1. Pulled'
      BY <2>2, <2>6 DEF Deeds, Pulled, KeptPods
    <3>2. ~mixed' => ~mixed
      BY <1>0
    <3>3. Shipped("apiserver").arg = DefaultNs
      BY ShippedApiserver
    <3>4. Keys'
      BY <2>6, <3>2, <3>3 DEF Deeds, Keys, KeptPods, KeptTokens
    <3>5. QED
      BY <3>1, <3>4
  <2>8. ASSUME Objects(p), Safe(p, System), Safe(p, System)' PROVE Objects(p)'
    <3>1. Creatable(System)'
      <4>1. CASE person[p].step = 1
        BY <2>4, <2>5, <2>6, <2>8, <4>1 DEF Creatable
      <4>2. CASE person[p].step # 1
        <5>1. Creatable(System)
          BY <2>2, <2>8, <4>2 DEF Objects, At
        <5>2. QED
          BY <2>6, <5>1 DEF Creatable
      <4>3. QED
        BY <4>1, <4>2
    <3>2. CASE person[p].step = 6
      <4>1. /\ kube'.service = "ClusterIP"
            /\ kube'.deploy["apiserver"] = Shipped("apiserver")
            /\ kube'.deploy["operator"] = Shipped("operator")
        BY <2>2, <2>4, <2>6, <2>8, <3>2 DEF Objects, At
      <4>2. person'[p].pc = "images"
        BY <2>1, <2>3, <3>2
      <4>3. QED
        BY <3>1, <4>1, <4>2 DEF Objects, Applying, Ready
    <3>3. CASE person[p].step # 6
      <4>1. person'[p].pc = "apply" /\ person'[p].step = person[p].step + 1
        BY <2>1, <2>3, <3>3
      <4>2. person'[p].step > 4 => kube'.service = "ClusterIP"
        BY <2>2, <2>4, <2>6, <2>8, <4>1 DEF Objects, At
      <4>3. person'[p].step > 5 => kube'.deploy["apiserver"] = Shipped("apiserver")
        BY <2>2, <2>4, <2>6, <2>8, <3>3, <4>1 DEF Objects, At
      <4>4. QED
        BY <3>1, <4>1, <4>2, <4>3 DEF Objects, Applying, Delivered, Holding, InSystem, InRun,
           Keyed, Pointed, Ready
    <3>4. QED
      BY <3>2, <3>3
  <2>9. ASSUME Wide(p) PROVE Wide(p)'
    <3>0. /\ \A n \in {2, 3} : Past(p, n)' => person[p].step >= n
          /\ \A n \in {2, 3} : person[p].step > n => Past(p, n)
          /\ Safe(p, "CRD")' => Safe(p, "CRD")
      <4>1. /\ person[p].pc = "apply" /\ person'[p].pc \in {"apply", "images"}
            /\ person'[p].pc = "images" => person[p].step = 6
            /\ person'[p].pc = "apply" => person'[p].step = person[p].step + 1
        BY <2>1, <2>2, <2>3 DEF At
      <4>2. person'[p].pc = "apply" => person'[p].pc \notin Applying \cup Delivered
        BY DEF Applying, Delivered, Holding, InSystem, InRun, Keyed, Pointed, Ready
      <4>3. QED
        BY <2>2, <2>5, <4>1, <4>2 DEF Past, Safe
    <3>1. ASSUME Past(p, 3)' PROVE "RBAC" \in kube'.scoped
      <4>1. CASE person[p].step = 3
        BY <2>4, <2>6, <4>1 DEF Scoped
      <4>2. CASE person[p].step > 3
        BY <2>6, <2>9, <3>0, <4>2 DEF Wide
      <4>3. QED
        BY <2>2, <3>0, <3>1, <4>1, <4>2
    <3>2. ASSUME Past(p, 2)', Safe(p, "CRD")' PROVE "CRD" \in kube'.scoped \ kube'.dying
      <4>1. CASE person[p].step = 2
        BY <2>4, <2>5, <2>6, <3>2, <4>1 DEF Scoped
      <4>2. CASE person[p].step > 2
        BY <2>6, <2>9, <3>0, <3>2, <4>2 DEF Wide
      <4>3. QED
        BY <2>2, <3>0, <3>2, <4>1, <4>2
    <3>3. QED
      BY <3>1, <3>2 DEF Wide
  <2>10. Secrets(p)' /\ Fresh(p)'
    <3>1. person'[p].pc \in {"apply", "images"}
      BY <2>1, <2>3
    <3>2. QED
      BY <3>1 DEF Secrets, Fresh, Applying, Delivered, Holding, InSystem, InRun, Keyed, Pointed, Ready
  <2>11. QED
    BY <2>1, <2>2, <2>3, <2>5, <2>7, <2>8, <2>9, <2>10, InstallDeeds
<1>3. QED
  BY <1>1, <1>2

\* An image that is delivered makes no pod young, and a first delivery makes
\* none old.
LEMMA AgedKeys ==
  ASSUME Inv, Deeds, mixed' = (mixed \/ Mixes), NEW tag \in Tags, Aged(tag)
  PROVE  /\ Pulled' /\ Keys'
         /\ tag \notin built["apiserver"] =>
              (kube'.pod["apiserver"].template.tag = tag => ~kube'.pod["apiserver"].old)
<1>1. \A d \in Deployments : kube'.pod[d].template = kube.pod[d].template /\ kube'.pod[d].token = kube.pod[d].token
  BY DEF Aged
<1>2. Pulled'
  BY <1>1 DEF Deeds, Pulled, Aged
<1>3. ~mixed' => ~mixed
  BY DEF Inv, Types
<1>4. "apiserver" \in Deployments
  BY DEF Deployments
<1>5. Keys'
  BY <1>1, <1>3, <1>4 DEF Deeds, Keys, Aged, OnlyPods, KeptDeploy, KeptTokens
<1>6. kube.pod["apiserver"].template.tag # tag \/ tag \in built["apiserver"]
  <2>1. CASE kube.pod["apiserver"].template = None
    BY <2>1, InstallerAssumption DEF None
  <2>2. CASE kube.pod["apiserver"].template # None
    BY <1>4, <2>2 DEF Deeds, Pulled
  <2>3. QED
    BY <2>1, <2>2
<1>7. QED
  BY <1>1, <1>2, <1>4, <1>5, <1>6

\* kindImages.
LEMMA KindDeeds ==
  ASSUME Inv, Deeds, NEW p \in People, mixed' = (mixed \/ Mixes), KindImages(p)
  PROVE  Deeds'
<1>0. mixed' \in BOOLEAN
  OBVIOUS
<1>1. /\ At(p, "images") /\ Tag(p) = "dev" /\ Aged("dev")
      /\ person'[p].pc = "namespace" /\ person'[p].cmd = person[p].cmd
      /\ person'[p].opts = person[p].opts /\ person'[p].alone = person[p].alone
      /\ person'[p].doomed = person[p].doomed
      /\ person'[p].fresh => "dev" \notin built["apiserver"]
      /\ \A q \in People \ {p} : person'[q] = person[q]
  BY <1>0, KindStep
<1>2. ~Idle(p) /\ person[p].cmd = "install"
  BY <1>1, AtWork DEF At, InstallLabels, Applying
<1>3. /\ Pulled' /\ Keys'
      /\ "dev" \notin built["apiserver"] =>
           (kube'.pod["apiserver"].template.tag = "dev" => ~kube'.pod["apiserver"].old)
  BY <1>1, AgedKeys, InstallerAssumption
<1>4. Tag(p)' = Tag(p) /\ Opts(p)' = Opts(p)
  BY <1>1 DEF Tag, Opts
<1>5. ASSUME Objects(p), Safe(p, System) PROVE Objects(p)'
  <2>1. /\ Creatable(System)' /\ kube'.service = "ClusterIP"
        /\ kube'.deploy["apiserver"] = Shipped("apiserver")
        /\ kube'.deploy["operator"] = Shipped("operator")
    BY <1>1, <1>5 DEF At, Objects, Aged, OnlyPods, KeptNamespaces, KeptService, KeptDeploy,
       Creatable, Applying, Ready
  <2>2. /\ Shipped("operator") = [tag |-> Tag(p)', arg |-> Tag(p)']
        /\ Shipped("apiserver") = [tag |-> Tag(p)', arg |-> DefaultNs]
    BY <1>1, <1>4 DEF Shipped
  <2>3. /\ person'[p].pc # "apply" /\ person'[p].pc \notin Ready /\ person'[p].pc \notin Pointed
        /\ person'[p].pc \notin Applying /\ person'[p].pc \notin {"images", "overrideOperator"}
    BY <1>1 DEF Applying, Pointed, Ready
  <2>4. QED
    BY <2>1, <2>2, <2>3 DEF Objects
<1>6. Secrets(p)' /\ Fresh(p)'
  <2>1. Fresh(p)'
    BY <1>1, <1>3, <1>4 DEF Fresh
  <2>2. Secrets(p)'
    BY <1>1 DEF Secrets, Holding, InSystem, InRun, Keyed, Pointed, Ready
  <2>3. QED
    BY <2>1, <2>2
<1>7. Wide(p) => Wide(p)'
  BY <1>1, WideKept DEF At, Aged, OnlyPods, KeptNamespaces, Applying, Delivered
<1>8. QED
  BY <1>1, <1>2, <1>3, <1>5, <1>6, <1>7, InstallDeeds

\* registryImages.
LEMMA RegistryDeeds ==
  ASSUME Inv, Deeds, NEW p \in People, mixed' = (mixed \/ Mixes), RegistryImages(p)
  PROVE  Deeds'
<1>0. mixed' \in BOOLEAN
  OBVIOUS
<1>1. /\ At(p, "images") /\ Aged(Tag(p)) /\ person'[p].cmd = person[p].cmd
      /\ person'[p].opts = person[p].opts /\ person'[p].alone = person[p].alone
      /\ person'[p].doomed = person[p].doomed
      /\ \/ person'[p].pc = "images"
         \/ /\ person'[p].pc = "overrideOperator"
            /\ person'[p].fresh => Tag(p) \notin built["apiserver"]
      /\ \A q \in People \ {p} : person'[q] = person[q]
  BY <1>0, RegistryStep
<1>2. ~Idle(p) /\ person[p].cmd = "install" /\ Tag(p) \in Tags
  BY <1>1, AtWork, InstallValues DEF At, InstallLabels, Applying
<1>3. /\ Pulled' /\ Keys'
      /\ Tag(p) \notin built["apiserver"] =>
           (kube'.pod["apiserver"].template.tag = Tag(p) => ~kube'.pod["apiserver"].old)
  BY <1>1, <1>2, AgedKeys
<1>4. Tag(p)' = Tag(p)
  BY <1>1 DEF Tag, Opts
<1>5. ASSUME Objects(p), Safe(p, System) PROVE Objects(p)'
  <2>1. /\ Creatable(System)' /\ kube'.service = "ClusterIP"
        /\ kube'.deploy["apiserver"] = Shipped("apiserver")
        /\ kube'.deploy["operator"] = Shipped("operator")
    BY <1>1, <1>5 DEF At, Objects, Aged, OnlyPods, KeptNamespaces, KeptService, KeptDeploy,
       Creatable, Applying, Ready
  <2>2. /\ person'[p].pc # "apply" /\ person'[p].pc \notin Ready
        /\ person'[p].pc \in Applying /\ person'[p].pc \in {"images", "overrideOperator"}
    BY <1>1 DEF Applying, Ready
  <2>3. QED
    BY <2>1, <2>2 DEF Objects
<1>6. Secrets(p)' /\ Fresh(p)'
  <2>1. Fresh(p)'
    BY <1>1, <1>3, <1>4 DEF Fresh
  <2>2. Secrets(p)'
    BY <1>1 DEF Secrets, Holding, InSystem, InRun, Keyed, Pointed, Ready
  <2>3. QED
    BY <2>1, <2>2
<1>7. Wide(p) => Wide(p)'
  BY <1>1, WideKept DEF At, Aged, OnlyPods, KeptNamespaces, Applying, Delivered
<1>8. QED
  BY <1>1, <1>2, <1>3, <1>5, <1>6, <1>7, InstallDeeds

\* A step that leaves the apiserver's run namespace, the pods and the tokens alone.
LEMMA DeployKeys ==
  ASSUME Inv, Deeds, mixed' = (mixed \/ Mixes), OnlyDeploy, built' = built,
         \/ kube'.deploy["apiserver"] = kube.deploy["apiserver"]
         \/ /\ kube.deploy["apiserver"] # None
            /\ kube'.deploy["apiserver"].arg = kube.deploy["apiserver"].arg
         \/ mixed' \/ kube.token[System] # 0
  PROVE  Pulled' /\ Keys'
<1>1. Pulled'
  BY DEF Deeds, Pulled, OnlyDeploy, KeptPods
<1>2. ~mixed' => ~mixed
  BY DEF Inv, Types
<1>3. Keys'
  BY <1>2 DEF Deeds, Keys, OnlyDeploy, KeptPods, KeptTokens
<1>4. QED
  BY <1>1, <1>3

\* OverrideImages.
LEMMA OverrideDeeds ==
  ASSUME Inv, Deeds, NEW p \in People, mixed' = (mixed \/ Mixes),
         OverrideOperator(p) \/ OverrideApiserver(p)
  PROVE  Deeds'
<1>0. mixed' \in BOOLEAN
  OBVIOUS
<1>1. CASE Abort(p)
  BY <1>1, AbortDeeds
<1>2. CASE OverrideOperator(p) /\ ~Abort(p)
  <2>1. /\ At(p, "overrideOperator") /\ Moves(p, "overrideApiserver") /\ OnlyDeploy /\ built' = built
        /\ kube'.deploy["operator"] = [tag |-> Tag(p), arg |-> Tag(p)]
        /\ kube'.deploy["apiserver"] = kube.deploy["apiserver"]
    BY <1>0, <1>2, OverrideOperatorStep
  <2>2. ~Idle(p) /\ person[p].cmd = "install" /\ Tag(p)' = Tag(p)
    BY <2>1, AtWork DEF At, InstallLabels, Applying, Moves, Tag, Opts
  <2>3. Pulled' /\ Keys'
    BY <2>1, DeployKeys
  <2>4. ASSUME Objects(p), Safe(p, System) PROVE Objects(p)'
    <3>1. /\ Creatable(System)' /\ kube'.service = "ClusterIP"
          /\ kube'.deploy["apiserver"] = Shipped("apiserver")
      BY <2>1, <2>4 DEF At, Objects, OnlyDeploy, KeptNamespaces, KeptService,
         Creatable, Applying, Ready
    <3>2. /\ person'[p].pc # "apply" /\ person'[p].pc \notin Ready
          /\ person'[p].pc \in Applying /\ person'[p].pc \notin {"images", "overrideOperator"}
      BY <2>1 DEF Applying, Ready, Moves
    <3>3. QED
      BY <2>1, <2>2, <3>1, <3>2 DEF Objects
  <2>5. Secrets(p)'
    BY <2>1 DEF Moves, Secrets, Holding, InSystem, InRun, Keyed, Pointed, Ready
  <2>6. ASSUME Fresh(p) PROVE Fresh(p)'
    BY <2>1, <2>2, <2>6 DEF Fresh, Moves, At, OnlyDeploy, KeptPods, Applying
  <2>7. Wide(p) => Wide(p)'
    BY <2>1, WideKept DEF At, Moves, OnlyDeploy, OnlyService, KeptNamespaces, Applying, Delivered, Holding,
       InSystem, InRun, Keyed, Pointed, Ready
  <2>8. QED
    BY <2>1, <2>2, <2>3, <2>4, <2>5, <2>6, <2>7, InstallDeeds DEF Moves
<1>3. CASE OverrideApiserver(p) /\ ~Abort(p)
  <2>1. /\ At(p, "overrideApiserver") /\ Moves(p, "namespace") /\ OnlyDeploy /\ built' = built
        /\ kube'.deploy["apiserver"] = [tag |-> Tag(p), arg |-> kube.deploy["apiserver"].arg]
        /\ kube.deploy["apiserver"] # None
        /\ kube'.deploy["operator"] = kube.deploy["operator"]
    BY <1>0, <1>3, OverrideApiserverStep
  <2>2. ~Idle(p) /\ person[p].cmd = "install" /\ Tag(p)' = Tag(p)
    BY <2>1, AtWork DEF At, InstallLabels, Applying, Moves, Tag, Opts
  <2>3. Pulled' /\ Keys'
    BY <2>1, DeployKeys
  <2>4. ASSUME Objects(p), Safe(p, System) PROVE Objects(p)'
    <3>1. /\ Creatable(System)' /\ kube'.service = "ClusterIP"
          /\ kube.deploy["apiserver"] = Shipped("apiserver")
          /\ kube'.deploy["operator"] = [tag |-> Tag(p), arg |-> Tag(p)]
      BY <2>1, <2>4 DEF At, Objects, OnlyDeploy, KeptNamespaces, KeptService,
         Creatable, Applying, Ready
    <3>2. /\ person'[p].pc # "apply" /\ person'[p].pc \notin Ready /\ person'[p].pc \notin Pointed
          /\ person'[p].pc \notin Applying /\ person'[p].pc \notin {"images", "overrideOperator"}
      BY <2>1 DEF Applying, Pointed, Ready, Moves
    <3>3. kube'.deploy["apiserver"] = [tag |-> Tag(p), arg |-> DefaultNs]
      BY <2>1, <3>1, ShippedApiserver
    <3>4. QED
      BY <2>2, <3>1, <3>2, <3>3 DEF Objects
  <2>5. Secrets(p)'
    BY <2>1 DEF Moves, Secrets, Holding, InSystem, InRun, Keyed, Pointed, Ready
  <2>6. ASSUME Fresh(p) PROVE Fresh(p)'
    BY <2>1, <2>2, <2>6 DEF Fresh, Moves, At, OnlyDeploy, KeptPods, Applying
  <2>7. Wide(p) => Wide(p)'
    BY <2>1, WideKept DEF At, Moves, OnlyDeploy, OnlyService, KeptNamespaces, Applying, Delivered, Holding,
       InSystem, InRun, Keyed, Pointed, Ready
  <2>8. QED
    BY <2>1, <2>2, <2>3, <2>4, <2>5, <2>6, <2>7, InstallDeeds DEF Moves
<1>4. QED
  BY <1>1, <1>2, <1>3

\* SetApiserverRunNamespace: the token is in place, or tokens are mixed up.
LEMMA RunNamespaceDeeds ==
  ASSUME Inv, Deeds, NEW p \in People, mixed' = (mixed \/ Mixes), SetApiserverRunNamespace(p)
  PROVE  Deeds'
<1>0. mixed' \in BOOLEAN
  OBVIOUS
<1>1. CASE Abort(p)
  BY <1>1, AbortDeeds
<1>2. CASE ~Abort(p)
  <2>1. /\ At(p, "runNamespace") /\ Moves(p, "expose") /\ OnlyDeploy /\ built' = built
        /\ kube.deploy["apiserver"] # None
        /\ kube'.deploy["apiserver"] = [tag |-> kube.deploy["apiserver"].tag, arg |-> Opts(p).ns]
        /\ kube'.deploy["operator"] = kube.deploy["operator"]
    BY <1>0, <1>2, RunNamespaceStep
  <2>2. ~Idle(p) /\ person[p].cmd = "install" /\ Tag(p)' = Tag(p) /\ Opts(p)' = Opts(p)
    BY <2>1, AtWork DEF At, InstallLabels, Delivered, Holding, InSystem, InRun, Keyed, Moves, Tag, Opts
  <2>3. Pulled' /\ Keys'
    <3>1. person[p].token # 0
      BY <2>1 DEF At, Inv, Roles, Role, Holding, InSystem, InRun, Keyed
    <3>2. ~mixed' => kube.token[System] # 0
      BY <2>1, <3>1 DEF Mixes, Overtaken, Moves
    <3>3. QED
      BY <2>1, <3>2, DeployKeys
  <2>4. ASSUME Objects(p), Safe(p, System) PROVE Objects(p)'
    <3>1. /\ Creatable(System)' /\ kube'.service = "ClusterIP"
          /\ kube.deploy["apiserver"] = [tag |-> Tag(p), arg |-> DefaultNs]
          /\ kube'.deploy["operator"] = [tag |-> Tag(p), arg |-> Tag(p)]
      BY <2>1, <2>4 DEF At, Objects, OnlyDeploy, KeptNamespaces, KeptService,
         Creatable, Applying, Delivered, Holding, InSystem, InRun, Keyed, Pointed, Ready
    <3>2. /\ person'[p].pc # "apply" /\ person'[p].pc \notin Ready /\ person'[p].pc \in Pointed
          /\ person'[p].pc \notin Applying /\ person'[p].pc \notin {"images", "overrideOperator"}
      BY <2>1 DEF Applying, Pointed, Ready, Moves
    <3>3. kube'.deploy["apiserver"] = [tag |-> Tag(p), arg |-> Opts(p).ns]
      BY <2>1, <3>1
    <3>4. QED
      BY <2>2, <3>1, <3>2, <3>3 DEF Objects
  <2>5. ASSUME Secrets(p) PROVE Secrets(p)'
    BY <2>1, <2>2, <2>5 DEF At, Moves, Secrets, Safe, OnlyDeploy, KeptTokens, KeptNamespaces, KeptCreds,
       Creatable, Holding, InSystem, InRun, Keyed, Pointed, Ready
  <2>6. ASSUME Fresh(p) PROVE Fresh(p)'
    BY <2>1, <2>2, <2>6 DEF Fresh, Moves, At, OnlyDeploy, KeptPods, Applying, Delivered, Holding,
       InSystem, InRun, Keyed
  <2>7. Wide(p) => Wide(p)'
    BY <2>1, WideKept DEF At, Moves, OnlyDeploy, OnlyService, KeptNamespaces, Applying, Delivered, Holding,
       InSystem, InRun, Keyed, Pointed, Ready
  <2>8. QED
    BY <2>1, <2>2, <2>3, <2>4, <2>5, <2>6, <2>7, InstallDeeds DEF Moves
<1>3. QED
  BY <1>1, <1>2

\* SetServiceType.
LEMMA ServiceDeeds ==
  ASSUME Inv, Deeds, NEW p \in People, mixed' = (mixed \/ Mixes), SetServiceType(p)
  PROVE  Deeds'
<1>0. mixed' \in BOOLEAN
  OBVIOUS
<1>1. CASE Abort(p)
  BY <1>1, AbortDeeds
<1>2. CASE ~Abort(p)
  <2>1. /\ At(p, "expose") /\ Moves(p, "waitOperator") /\ OnlyService /\ built' = built
        /\ kube'.service = IF Opts(p).expose THEN "LoadBalancer" ELSE kube.service
    BY <1>0, <1>2, ServiceStep
  <2>2. ~Idle(p) /\ person[p].cmd = "install" /\ Tag(p)' = Tag(p) /\ Opts(p)' = Opts(p)
    BY <2>1, AtWork DEF At, InstallLabels, Delivered, Holding, InSystem, InRun, Keyed, Pointed,
       Moves, Tag, Opts
  <2>3. Pulled' /\ Keys'
    BY <2>1, KeptKeys DEF OnlyService, Inv, Types
  <2>4. ASSUME Objects(p), Safe(p, System) PROVE Objects(p)'
    <3>1. /\ Creatable(System)' /\ kube.service = "ClusterIP"
          /\ kube'.deploy["apiserver"] = [tag |-> Tag(p), arg |-> Opts(p).ns]
          /\ kube'.deploy["operator"] = [tag |-> Tag(p), arg |-> Tag(p)]
      BY <2>1, <2>4 DEF At, Objects, OnlyService, KeptNamespaces, KeptDeploy,
         Creatable, Applying, Delivered, Holding, InSystem, InRun, Keyed, Pointed, Ready
    <3>2. /\ person'[p].pc # "apply" /\ person'[p].pc \in Ready /\ person'[p].pc \in Pointed
          /\ person'[p].pc \notin Applying /\ person'[p].pc \notin {"images", "overrideOperator"}
      BY <2>1 DEF Applying, Pointed, Ready, Moves
    <3>3. QED
      BY <2>1, <2>2, <3>1, <3>2 DEF Objects
  <2>5. ASSUME Secrets(p) PROVE Secrets(p)'
    BY <2>1, <2>2, <2>5 DEF At, Moves, Secrets, Safe, OnlyService, KeptDeploy, KeptTokens, KeptNamespaces,
       KeptCreds, Creatable, Holding, InSystem, InRun, Keyed, Pointed, Ready
  <2>6. ASSUME Fresh(p) PROVE Fresh(p)'
    BY <2>1, <2>2, <2>6 DEF Fresh, Moves, At, OnlyService, KeptPods, Applying, Delivered, Holding,
       InSystem, InRun, Keyed, Pointed
  <2>7. Wide(p) => Wide(p)'
    BY <2>1, WideKept DEF At, Moves, OnlyDeploy, OnlyService, KeptNamespaces, Applying, Delivered, Holding,
       InSystem, InRun, Keyed, Pointed, Ready
  <2>8. QED
    BY <2>1, <2>2, <2>3, <2>4, <2>5, <2>6, <2>7, InstallDeeds DEF Moves
<1>3. QED
  BY <1>1, <1>2

\* The labels between the images and the run namespace, at which the objects
\* stay as they are.
Middle == Delivered \ Pointed

\* A step between such labels, or between the last ones, leaves the objects and
\* the pods alone.
LEMMA ObjectsKept ==
  ASSUME NEW p \in People,
         \/ person[p].pc \in Middle /\ person'[p].pc \in Middle
         \/ person[p].pc \in Ready /\ person'[p].pc \in Ready,
         person'[p].opts = person[p].opts, person'[p].fresh = person[p].fresh,
         person[p].doomed \subseteq person'[p].doomed,
         KeptScoped, KeptService, KeptDeploy, KeptPods,
         kube.namespaces \subseteq kube'.namespaces, kube'.dying = kube.dying
  PROVE  (Objects(p) => Objects(p)') /\ (Wide(p) => Wide(p)') /\ (Fresh(p) => Fresh(p)')
<1>1. Opts(p)' = Opts(p) /\ Tag(p)' = Tag(p)
  BY DEF Opts, Tag
<1>2. /\ person[p].pc \in Delivered /\ person'[p].pc \in Delivered
      /\ person'[p].pc # "apply" /\ person'[p].pc \notin Applying /\ person[p].pc \notin Applying
      /\ person'[p].pc \in Ready <=> person[p].pc \in Ready
      /\ person'[p].pc \in Pointed <=> person[p].pc \in Pointed
      /\ person[p].pc \notin {"images", "overrideOperator"}
      /\ person'[p].pc \notin {"images", "overrideOperator"}
  BY DEF Middle, Applying, Delivered, Holding, InSystem, InRun, Keyed, Pointed, Ready
<1>3. Creatable(System) => Creatable(System)'
  BY DEF Creatable
<1>4. ASSUME Objects(p), Safe(p, System)' PROVE Objects(p)'
  <2>0. Safe(p, System)
    BY <1>4 DEF Safe
  <2>1. /\ Creatable(System)'
        /\ kube'.service = IF person'[p].pc \in Ready /\ Opts(p).expose THEN "LoadBalancer" ELSE "ClusterIP"
        /\ kube'.deploy["operator"] = [tag |-> Tag(p), arg |-> Tag(p)]
        /\ kube'.deploy["apiserver"] =
             [tag |-> Tag(p), arg |-> IF person'[p].pc \in Pointed THEN Opts(p).ns ELSE DefaultNs]
    BY <1>2, <1>3, <1>4, <2>0 DEF Objects, KeptService, KeptDeploy
  <2>2. QED
    BY <1>1, <1>2, <2>1 DEF Objects
<1>5. ASSUME Fresh(p) PROVE Fresh(p)'
  BY <1>1, <1>2, <1>5 DEF Fresh, KeptPods
<1>6. ~Safe(p, System)' => Objects(p)'
  BY DEF Objects
<1>7. Wide(p) => Wide(p)'
  BY <1>2, WideKept
<1>8. QED
  BY <1>4, <1>5, <1>6, <1>7

\* EnsureNamespace, before and after the token is made: the run namespace exists,
\* and if it is safe it is not being deleted.
LEMMA EnsuresDeeds ==
  ASSUME Inv, Deeds, NEW p \in People, mixed' = (mixed \/ Mixes),
         NEW label \in {"namespace", "credentials"}, NEW next \in {"read", "storeCredentials"},
         next = "storeCredentials" <=> label = "credentials", At(p, label), Ensures(p, next)
  PROVE  Deeds'
<1>1. ~Idle(p) /\ person[p].cmd = "install" /\ Opts(p)' = Opts(p) /\ Opts(p).ns # System
  BY AtWork, InstallValues DEF At, InstallLabels, Delivered, Holding, InSystem, InRun, Ensures, Opts
<1>2. Pulled' /\ Keys'
  BY KeptKeys DEF Ensures, OnlyNamespaces, Inv, Types
<1>3. person[p].pc \in Middle /\ person'[p].pc \in Middle
  BY DEF At, Ensures, Middle, Delivered, Holding, InSystem, InRun, Pointed, Ready
<1>4. /\ person[p].doomed \subseteq person'[p].doomed
      /\ Safe(p, Opts(p).ns)' => Safe(p, Opts(p).ns) /\ Creatable(Opts(p).ns)'
  BY <1>1 DEF Ensures, Safe, Creatable
<1>5. (Objects(p) => Objects(p)') /\ (Wide(p) => Wide(p)') /\ (Fresh(p) => Fresh(p)')
  BY <1>3, <1>4, ObjectsKept DEF Ensures, OnlyNamespaces
<1>6. ASSUME Secrets(p) PROVE Secrets(p)'
  <2>1. CASE label = "namespace"
    <3>1. person'[p].pc = "read"
      BY <2>1 DEF Ensures
    <3>2. person'[p].pc \notin Holding
      BY <3>1 DEF Holding, InSystem, InRun, Keyed, Pointed, Ready
    <3>3. QED
      BY <1>4, <3>1, <3>2 DEF Secrets, Holding, InSystem, InRun
  <2>2. CASE label = "credentials"
    <3>1. /\ person'[p].pc = "storeCredentials" /\ person[p].pc = "credentials"
          /\ person'[p].token = person[p].token /\ kube'.token = kube.token /\ kube'.deploy = kube.deploy
      BY <2>2 DEF At, Ensures, OnlyNamespaces, KeptTokens, KeptDeploy
    <3>2. /\ person[p].pc \in InSystem \ {"done"} /\ person[p].pc \in InRun \ {"done"}
          /\ person'[p].pc # "writeSystem" /\ person'[p].pc \notin Keyed
      BY <3>1 DEF InSystem, InRun, Keyed, Pointed, Ready
    <3>3. QED
      BY <1>1, <1>4, <1>6, <3>1, <3>2 DEF Secrets
  <2>3. QED
    BY <2>1, <2>2
<1>7. QED
  BY <1>1, <1>2, <1>4, <1>5, <1>6, InstallDeeds DEF Ensures

\* EnsureNamespace and gatewayCredential's read.
LEMMA ReadDeeds ==
  ASSUME Inv, Deeds, NEW p \in People, mixed' = (mixed \/ Mixes), EnsureNamespace(p) \/ ReadToken(p)
  PROVE  Deeds'
<1>0. mixed' \in BOOLEAN
  OBVIOUS
<1>1. CASE Abort(p)
  BY <1>1, AbortDeeds
<1>2. CASE EnsureNamespace(p) /\ ~Abort(p)
  <2>1. At(p, "namespace") /\ Ensures(p, "read")
    BY <1>0, <1>2, EnsureStep DEF EnsureNamespace
  <2>2. QED
    BY <2>1, EnsuresDeeds
<1>3. CASE ReadToken(p) /\ ~Abort(p)
  <2>1. /\ At(p, "read") /\ kube' = kube /\ built' = built
        /\ person'[p].pc = "writeSystem" /\ person'[p].cmd = person[p].cmd
        /\ person'[p].opts = person[p].opts /\ person'[p].alone = person[p].alone
        /\ person'[p].fresh = person[p].fresh /\ person'[p].doomed = person[p].doomed
        /\ kube.token[System] \in {0, person'[p].token}
        /\ \A q \in People \ {p} : person'[q] = person[q]
    BY <1>0, <1>3, ReadStep
  <2>2. ~Idle(p) /\ person[p].cmd = "install"
    BY <2>1, AtWork DEF At, InstallLabels, Delivered
  <2>3. Pulled' /\ Keys'
    BY <2>1, KeptKeys DEF KeptDeploy, KeptPods, KeptTokens, Inv, Types
  <2>4. person[p].pc \in Middle /\ person'[p].pc \in Middle
    BY <2>1 DEF At, Middle, Delivered, Holding, Pointed, Ready
  <2>5. (Objects(p) => Objects(p)') /\ (Wide(p) => Wide(p)') /\ (Fresh(p) => Fresh(p)')
    BY <2>1, <2>4, ObjectsKept DEF KeptScoped, KeptService, KeptDeploy, KeptPods
  <2>6. ASSUME Secrets(p) PROVE Secrets(p)'
    <3>1. Opts(p)' = Opts(p) /\ (Safe(p, Opts(p).ns)' => Safe(p, Opts(p).ns))
      BY <2>1 DEF Opts, Safe
    <3>2. Safe(p, Opts(p).ns) => Creatable(Opts(p).ns)
      BY <2>1, <2>6 DEF Secrets, At
    <3>3. Safe(p, Opts(p).ns)' => Creatable(Opts(p).ns)'
      BY <2>1, <3>1, <3>2 DEF Creatable
    <3>4. person'[p].pc \notin InSystem /\ person'[p].pc \notin InRun /\ person'[p].pc \notin Keyed
      BY <2>1 DEF InSystem, InRun, Keyed, Pointed, Ready
    <3>5. QED
      BY <2>1, <3>3, <3>4 DEF Secrets
  <2>7. QED
    BY <2>1, <2>2, <2>3, <2>5, <2>6, InstallDeeds
<1>4. QED
  BY <1>1, <1>2, <1>3

\* UpsertSecret in the system namespace: without a mix-up it changes no token
\* that a pod has.
LEMMA WriteSystemDeeds ==
  ASSUME Inv, Deeds, NEW p \in People, mixed' = (mixed \/ Mixes), WriteSystemToken(p)
  PROVE  Deeds'
<1>0. mixed' \in BOOLEAN
  OBVIOUS
<1>1. CASE Abort(p)
  BY <1>1, AbortDeeds
<1>2. CASE ~Abort(p)
  <2>1. /\ At(p, "writeSystem") /\ Moves(p, "writeRun") /\ OnlyTokens /\ built' = built
        /\ person[p].token # 0 /\ kube'.token[System] = person[p].token
        /\ \A m \in Namespaces \ {System} : kube'.token[m] = kube.token[m]
    BY <1>0, <1>2, WriteSystemStep
  <2>2. ~Idle(p) /\ person[p].cmd = "install"
    BY <2>1, AtWork DEF At, InstallLabels, Delivered, Holding
  <2>3. Pulled'
    BY <2>1 DEF OnlyTokens, KeptPods, Deeds, Pulled
  <2>4. Keys'
    <3>1. ~mixed' => ~mixed /\ ~Rotates
      BY DEF Inv, Types, Mixes
    <3>2. ~mixed' => kube.token[System] \in {0, person[p].token}
      BY <2>1, <3>1 DEF Rotates
    <3>3. QED
      BY <2>1, <3>1, <3>2 DEF OnlyTokens, KeptPods, KeptDeploy, Deeds, Keys
  <2>5. person[p].pc \in Middle /\ person'[p].pc \in Middle
    BY <2>1 DEF At, Moves, Middle, Delivered, Holding, InSystem, Pointed, Ready
  <2>6. (Objects(p) => Objects(p)') /\ (Wide(p) => Wide(p)') /\ (Fresh(p) => Fresh(p)')
    BY <2>1, <2>5, ObjectsKept DEF Moves, OnlyTokens, KeptNamespaces
  <2>7. ASSUME Secrets(p) PROVE Secrets(p)'
    <3>1. /\ person'[p].pc = "writeRun" /\ person'[p].token = person[p].token
          /\ Opts(p)' = Opts(p) /\ (Safe(p, Opts(p).ns)' => Safe(p, Opts(p).ns))
      BY <2>1 DEF Moves, Opts, Safe
    <3>2. Safe(p, Opts(p).ns) => Creatable(Opts(p).ns)
      BY <2>1, <2>7 DEF Secrets, At, Holding
    <3>3. Safe(p, Opts(p).ns)' => Creatable(Opts(p).ns)'
      BY <2>1, <3>1, <3>2 DEF Creatable, OnlyTokens, KeptNamespaces
    <3>4. person'[p].pc # "writeSystem" /\ person'[p].pc \notin InRun /\ person'[p].pc \notin Keyed
      BY <3>1 DEF InRun, Keyed, Pointed, Ready
    <3>5. QED
      BY <2>1, <3>1, <3>3, <3>4 DEF Secrets
  <2>8. QED
    BY <2>1, <2>2, <2>3, <2>4, <2>6, <2>7, InstallDeeds DEF Moves
<1>3. QED
  BY <1>1, <1>2

\* UpsertSecret in the run namespace, and the credentials.
LEMMA WriteRunDeeds ==
  ASSUME Inv, Deeds, NEW p \in People, mixed' = (mixed \/ Mixes),
         WriteRunToken(p) \/ Credentials(p) \/ StoreCredentials(p)
  PROVE  Deeds'
<1>0. mixed' \in BOOLEAN
  OBVIOUS
<1>1. CASE Abort(p)
  BY <1>1, AbortDeeds
<1>2. CASE WriteRunToken(p) /\ ~Abort(p)
  <2>1. /\ At(p, "writeRun") /\ Moves(p, "credentials") /\ OnlyTokens /\ built' = built
        /\ kube'.token[Opts(p).ns] = person[p].token
        /\ kube'.token[System] = kube.token[System]
    BY <1>0, <1>2, WriteRunStep
  <2>2. ~Idle(p) /\ person[p].cmd = "install" /\ Opts(p)' = Opts(p)
    BY <2>1, AtWork DEF At, InstallLabels, Delivered, Holding, InSystem, Moves, Opts
  <2>3. Pulled' /\ Keys'
    <3>1. ~mixed' => ~mixed
      BY DEF Inv, Types
    <3>2. QED
      BY <2>1, <3>1 DEF OnlyTokens, KeptPods, KeptDeploy, Deeds, Keys, Pulled
  <2>4. person[p].pc \in Middle /\ person'[p].pc \in Middle
    BY <2>1 DEF At, Moves, Middle, Delivered, Holding, InSystem, InRun, Pointed, Ready
  <2>5. (Objects(p) => Objects(p)') /\ (Wide(p) => Wide(p)') /\ (Fresh(p) => Fresh(p)')
    BY <2>1, <2>4, ObjectsKept DEF Moves, OnlyTokens, KeptNamespaces
  <2>6. ASSUME Secrets(p) PROVE Secrets(p)'
    <3>1. /\ person'[p].pc = "credentials" /\ person'[p].token = person[p].token
          /\ person[p].pc = "writeRun" /\ (Safe(p, Opts(p).ns)' => Safe(p, Opts(p).ns))
      BY <2>1, <2>2 DEF At, Moves, Safe
    <3>2. person[p].pc \in InSystem \ {"done"} /\ person[p].pc \in ({"read"} \cup Holding) \ {"done"}
      BY <3>1 DEF Holding, InSystem
    <3>3. kube'.token[System] = person[p].token \/ kube'.deploy["apiserver"] = None
      BY <2>1, <2>6, <3>2 DEF Secrets, OnlyTokens, KeptDeploy
    <3>4. Safe(p, Opts(p).ns)' => Creatable(Opts(p).ns)'
      BY <2>1, <2>2, <2>6, <3>1, <3>2 DEF Secrets, OnlyTokens, KeptNamespaces, Creatable
    <3>5. person'[p].pc # "writeSystem" /\ person'[p].pc \notin Keyed
      BY <3>1 DEF Keyed, Pointed, Ready
    <3>6. QED
      BY <2>1, <2>2, <3>1, <3>3, <3>4, <3>5 DEF Secrets
  <2>7. QED
    BY <2>1, <2>2, <2>3, <2>5, <2>6, InstallDeeds DEF Moves
<1>3. CASE Credentials(p) /\ ~Abort(p)
  <2>1. CASE At(p, "credentials") /\ Ensures(p, "storeCredentials")
    BY <2>1, EnsuresDeeds
  <2>2. CASE /\ At(p, "credentials") /\ Moves(p, "runNamespace") /\ kube' = kube /\ built' = built
             /\ ~Opts(p).creds
    <3>1. ~Idle(p) /\ person[p].cmd = "install" /\ Opts(p)' = Opts(p)
      BY <2>2, AtWork DEF At, InstallLabels, Delivered, Holding, InSystem, InRun, Moves, Opts
    <3>2. Pulled' /\ Keys'
      BY <2>2, KeptKeys DEF KeptDeploy, KeptPods, KeptTokens, Inv, Types
    <3>3. person[p].pc \in Middle /\ person'[p].pc \in Middle
      BY <2>2 DEF At, Moves, Middle, Delivered, Holding, InSystem, InRun, Keyed, Pointed, Ready
    <3>4. (Objects(p) => Objects(p)') /\ (Wide(p) => Wide(p)') /\ (Fresh(p) => Fresh(p)')
      BY <2>2, <3>3, ObjectsKept DEF Moves, KeptScoped, KeptService, KeptDeploy, KeptPods
    <3>5. ASSUME Secrets(p) PROVE Secrets(p)'
      BY <2>2, <3>1, <3>5 DEF At, Moves, Secrets, Safe, Creatable, Holding, InSystem, InRun, Keyed,
         Pointed, Ready
    <3>6. QED
      BY <2>2, <3>1, <3>2, <3>4, <3>5, InstallDeeds DEF Moves
  <2>3. QED
    BY <1>0, <1>3, <2>1, <2>2, CredentialsStep
<1>4. CASE StoreCredentials(p) /\ ~Abort(p)
  <2>1. /\ At(p, "storeCredentials") /\ Moves(p, "runNamespace") /\ OnlyCreds /\ built' = built
        /\ Opts(p).ns \in kube'.creds
    BY <1>0, <1>4, StoreStep
  <2>2. ~Idle(p) /\ person[p].cmd = "install" /\ Opts(p)' = Opts(p)
    BY <2>1, AtWork DEF At, InstallLabels, Delivered, Holding, InSystem, InRun, Moves, Opts
  <2>3. Pulled' /\ Keys'
    BY <2>1, KeptKeys DEF OnlyCreds, Inv, Types
  <2>4. person[p].pc \in Middle /\ person'[p].pc \in Middle
    BY <2>1 DEF At, Moves, Middle, Delivered, Holding, InSystem, InRun, Keyed, Pointed, Ready
  <2>5. (Objects(p) => Objects(p)') /\ (Wide(p) => Wide(p)') /\ (Fresh(p) => Fresh(p)')
    BY <2>1, <2>4, ObjectsKept DEF Moves, OnlyCreds, KeptNamespaces
  <2>6. ASSUME Secrets(p) PROVE Secrets(p)'
    BY <2>1, <2>2, <2>6 DEF At, Moves, Secrets, Safe, OnlyCreds, KeptTokens, KeptDeploy, KeptNamespaces,
       Creatable, Holding, InSystem, InRun, Keyed, Pointed, Ready
  <2>7. QED
    BY <2>1, <2>2, <2>3, <2>5, <2>6, InstallDeeds DEF Moves
<1>5. QED
  BY <1>1, <1>2, <1>3, <1>4

\* The waits, after which only the label differs.
LEMMA WaitDeeds ==
  ASSUME Inv, Deeds, NEW p \in People, mixed' = (mixed \/ Mixes), WaitOperator(p) \/ WaitApiserver(p)
  PROVE  Deeds'
<1>1. /\ kube' = kube /\ built' = built
      /\ \/ person[p].pc = "waitOperator" /\ GoTo(p, "waitApiserver")
         \/ person[p].pc = "waitApiserver" /\ GoTo(p, "done")
  BY DEF WaitOperator, WaitApiserver, WaitDeployment, At
<1>2. ~Idle(p) /\ person[p].cmd = "install"
  BY <1>1, AtWork DEF InstallLabels, Delivered, Holding, InSystem, InRun, Keyed, Pointed, Ready
<1>3. /\ \A q \in People \ {p} : person'[q] = person[q]
      /\ person'[p].cmd = "install" /\ person'[p].opts = person[p].opts
      /\ person'[p].alone = person[p].alone /\ person'[p].fresh = person[p].fresh
      /\ person'[p].doomed = person[p].doomed
      /\ \/ person'[p].pc = "waitApiserver" /\ person'[p].token = person[p].token
         \/ person'[p].pc = "done"
  <2>1. "waitApiserver" \in Labels /\ "done" \in Labels
    BY DEF Labels, InstallLabels, Delivered, Holding, InSystem, InRun, Keyed, Pointed, Ready
  <2>2. QED
    BY <1>1, <1>2, <2>1, GoToEffect DEF Inv, Types
<1>4. Pulled' /\ Keys'
  BY <1>1, KeptKeys DEF KeptDeploy, KeptPods, KeptTokens, Inv, Types
<1>5. person[p].pc \in Ready /\ person'[p].pc \in Ready
  BY <1>1, <1>3 DEF Ready
<1>6. (Objects(p) => Objects(p)') /\ (Wide(p) => Wide(p)') /\ (Fresh(p) => Fresh(p)')
  BY <1>1, <1>3, <1>5, ObjectsKept DEF KeptScoped, KeptService, KeptDeploy, KeptPods
<1>7. ASSUME Secrets(p) PROVE Secrets(p)'
  BY <1>1, <1>3, <1>7 DEF Secrets, Safe, Opts, Creatable, Holding, InSystem, InRun, Keyed, Pointed, Ready
<1>8. QED
  BY <1>2, <1>3, <1>4, <1>6, <1>7, InstallDeeds

\* The labels of an uninstall, and whose they are.
LEMMA Uninstalling ==
  ASSUME Inv, NEW p \in People, person[p].pc \in UninstallLabels
  PROVE  ~Idle(p) /\ person[p].cmd = "uninstall"
BY AtWork

\* DeleteNamespace on either namespace: an absent one counts as removed.
LEMMA DeleteDeeds ==
  ASSUME Inv, Deeds, NEW p \in People, mixed' = (mixed \/ Mixes), DeleteSystem(p) \/ DeleteRunNs(p)
  PROVE  Deeds'
<1>0. mixed' \in BOOLEAN
  OBVIOUS
<1>1. CASE Abort(p)
  BY <1>1, AbortDeeds
<1>2. CASE DeleteSystem(p) /\ ~Abort(p)
  <2>1. /\ At(p, "begun") /\ OnlyNamespaces /\ built' = built /\ kube'.namespaces = kube.namespaces
        /\ \/ Moves(p, "goneSystem")
           \/ System \notin kube.namespaces /\ Moves(p, "deleteRun")
    BY <1>0, <1>2, DeleteSystemStep
  <2>2. ~Idle(p) /\ person[p].cmd = "uninstall"
    BY <1>2, <2>1 DEF At, Idle, DeleteSystem
  <2>3. Pulled' /\ Keys'
    BY <2>1, KeptKeys DEF OnlyNamespaces, Inv, Types
  <2>4. Removed(p)'
    BY <2>1 DEF Moves, Removed
  <2>5. QED
    BY <2>1, <2>2, <2>3, <2>4, UninstallDeeds DEF Moves
<1>3. CASE DeleteRunNs(p) /\ ~Abort(p)
  <2>1. /\ At(p, "deleteRun") /\ OnlyNamespaces /\ built' = built /\ kube'.namespaces = kube.namespaces
        /\ \/ Moves(p, "goneRun")
           \/ Opts(p).ns \notin kube.namespaces /\ Moves(p, "deleteScoped")
    BY <1>0, <1>3, DeleteRunStep
  <2>2. ~Idle(p) /\ person[p].cmd = "uninstall" /\ Opts(p)' = Opts(p)
    BY <2>1, Uninstalling DEF At, UninstallLabels, Moves, Opts
  <2>3. Pulled' /\ Keys'
    BY <2>1, KeptKeys DEF OnlyNamespaces, Inv, Types
  <2>4. Removed(p) => Removed(p)'
    BY <2>1, <2>2 DEF At, Moves, Removed
  <2>5. QED
    BY <2>1, <2>2, <2>3, <2>4, UninstallDeeds DEF Moves
<1>4. QED
  BY <1>1, <1>2, <1>3

\* The waits end once the namespace is no longer returned.
LEMMA GoneDeeds ==
  ASSUME Inv, Deeds, NEW p \in People, mixed' = (mixed \/ Mixes), SystemGone(p) \/ RunNsGone(p)
  PROVE  Deeds'
<1>1. /\ kube' = kube /\ UNCHANGED <<local, exists, granted, built, commands, nextToken>>
      /\ \/ GoTo(p, "failed")
         \/ person[p].pc = "goneSystem" /\ System \notin kube.namespaces /\ GoTo(p, "deleteRun")
         \/ person[p].pc = "goneRun" /\ Opts(p).ns \notin kube.namespaces /\ GoTo(p, "deleteScoped")
      /\ person[p].pc \in {"goneSystem", "goneRun"}
  BY DEF SystemGone, RunNsGone, WaitGone, Gone, At
<1>2. ~Idle(p) /\ person[p].cmd = "uninstall"
  BY <1>1, Uninstalling DEF UninstallLabels
<1>3. CASE GoTo(p, "failed")
  <2>1. Abort(p)
    BY <1>1, <1>2, <1>3 DEF Abort
  <2>2. QED
    BY <2>1, AbortDeeds
<1>4. CASE ~GoTo(p, "failed")
  <2>1. "deleteRun" \in Labels /\ "deleteScoped" \in Labels
    BY DEF Labels, UninstallLabels
  <2>2. /\ \A q \in People \ {p} : person'[q] = person[q]
        /\ person'[p].cmd = "uninstall" /\ person'[p].opts = person[p].opts
        /\ person'[p].alone = person[p].alone
        /\ \/ person[p].pc = "goneSystem" /\ System \notin kube.namespaces /\ person'[p].pc = "deleteRun"
           \/ /\ person[p].pc = "goneRun" /\ Opts(p).ns \notin kube.namespaces
              /\ person'[p].pc = "deleteScoped"
    BY <1>1, <1>2, <1>4, <2>1, GoToEffect DEF Inv, Types
  <2>3. Pulled' /\ Keys'
    BY <1>1, KeptKeys DEF KeptDeploy, KeptPods, KeptTokens, Inv, Types
  <2>4. Removed(p) => Removed(p)'
    BY <1>1, <2>2 DEF Removed, Opts
  <2>5. QED
    BY <1>2, <2>2, <2>3, <2>4, UninstallDeeds
<1>5. QED
  BY <1>3, <1>4

\* DeleteClusterScoped: the roles are gone at once, the CRD is told to go.
LEMMA ScopedDeeds ==
  ASSUME Inv, Deeds, NEW p \in People, mixed' = (mixed \/ Mixes), DeleteRBAC(p) \/ DeleteCRD(p)
  PROVE  Deeds'
<1>0. mixed' \in BOOLEAN
  OBVIOUS
<1>1. CASE Abort(p)
  BY <1>1, AbortDeeds
<1>2. CASE DeleteRBAC(p) /\ ~Abort(p)
  <2>1. /\ At(p, "deleteScoped") /\ Moves(p, "deleteCRD") /\ OnlyScoped /\ built' = built
        /\ kube'.scoped = kube.scoped \ {"RBAC"}
    BY <1>0, <1>2, DeleteRBACStep
  <2>2. ~Idle(p) /\ person[p].cmd = "uninstall" /\ Opts(p)' = Opts(p)
    BY <2>1, Uninstalling DEF At, UninstallLabels, Moves, Opts
  <2>3. Pulled' /\ Keys'
    BY <2>1, KeptKeys DEF OnlyScoped, Inv, Types
  <2>4. Removed(p) => Removed(p)'
    BY <2>1, <2>2 DEF At, Moves, Removed, OnlyScoped, KeptNamespaces
  <2>5. QED
    BY <2>1, <2>2, <2>3, <2>4, UninstallDeeds DEF Moves
<1>3. CASE DeleteCRD(p) /\ ~Abort(p)
  <2>1. /\ At(p, "deleteCRD") /\ OnlyNamespaces /\ built' = built
        /\ kube'.namespaces = kube.namespaces
        /\ kube'.dying = kube.dying \cup ({"CRD"} \cap kube.scoped)
        /\ Moves(p, "describe") \/ Moves(p, "done")
    BY <1>0, <1>3, DeleteCRDStep
  <2>2. ~Idle(p) /\ person[p].cmd = "uninstall" /\ Opts(p)' = Opts(p)
    BY <2>1, Uninstalling DEF At, UninstallLabels, Moves, Opts
  <2>3. Pulled' /\ Keys'
    BY <2>1, KeptKeys DEF OnlyNamespaces, Inv, Types
  <2>4. Removed(p) => Removed(p)'
    BY <2>1, <2>2 DEF At, Moves, Removed, OnlyNamespaces, KeptScoped
  <2>5. QED
    BY <2>1, <2>2, <2>3, <2>4, UninstallDeeds DEF Moves
<1>4. QED
  BY <1>1, <1>2, <1>3

\* deleteGKECluster removes what may be left, or leaves it as it is.
LEMMA DeleteClusterDeeds ==
  ASSUME Inv, Deeds, NEW p \in People, mixed' = (mixed \/ Mixes), DeleteGKECluster(p)
  PROVE  Deeds'
<1>0. mixed' \in BOOLEAN
  OBVIOUS
<1>1. /\ At(p, "describe") /\ built' = built
      /\ person'[p].pc = "done" /\ person'[p].alone = person[p].alone
      /\ person'[p].cmd = person[p].cmd /\ person'[p].opts = person[p].opts
      /\ \A q \in People \ {p} : person'[q] = person[q]
      /\ kube' = EmptyKube \/ kube' = kube
  BY <1>0, DeleteClusterStep
<1>2. ~Idle(p) /\ person[p].cmd = "uninstall" /\ Opts(p)' = Opts(p)
  BY <1>1, Uninstalling DEF At, UninstallLabels, Opts
<1>3. Pulled' /\ Keys'
  <2>1. CASE kube' = kube
    BY <1>1, <2>1, KeptKeys DEF KeptDeploy, KeptPods, KeptTokens, Inv, Types
  <2>2. CASE kube' = EmptyKube
    <3>1. /\ \A d \in Deployments : kube'.deploy[d] = None /\ kube'.pod[d].template = None
          /\ "apiserver" \in Deployments
      BY <2>2, EmptyKubeType DEF Deployments
    <3>2. QED
      BY <3>1 DEF Pulled, Keys
  <2>3. QED
    BY <1>1, <2>1, <2>2
<1>4. Removed(p) => Removed(p)'
  BY <1>1, <1>2, EmptyKubeType DEF At, Removed
<1>5. QED
  BY <1>1, <1>2, <1>3, <1>4, UninstallDeeds

\* A pod that starts has the image, the template and the token of the moment.
LEMMA StartDeeds ==
  ASSUME Inv, Deeds, NEW d \in Deployments, mixed' = (mixed \/ Mixes), StartPod(d)
  PROVE  Deeds'
<1>0. mixed' \in BOOLEAN
  OBVIOUS
<1>1. /\ OnlyPods /\ built' = built /\ person' = person
      /\ kube.deploy[d] # None /\ kube.deploy[d].tag \in built[d]
      /\ kube'.pod[d] = [template |-> kube.deploy[d], old |-> FALSE, token |-> kube.token[System]]
      /\ \A e \in Deployments \ {d} : kube'.pod[e] = kube.pod[e]
  BY <1>0, StartStep
<1>2. /\ kube'.pod[d].template = kube.deploy[d] /\ ~kube'.pod[d].old
      /\ kube'.pod[d].token = kube.token[System]
  BY <1>1
<1>3. Pulled'
  BY <1>1, <1>2 DEF Deeds, Pulled
<1>4. Keys'
  <2>1. ~mixed' => ~mixed
    BY DEF Inv, Types
  <2>2. "apiserver" \in Deployments
    BY DEF Deployments
  <2>3. QED
    BY <1>1, <1>2, <2>1, <2>2 DEF Deeds, Keys, OnlyPods, KeptDeploy, KeptTokens
<1>5. ASSUME NEW p \in People PROVE Mine(p)'
  <2>1. Mine(p)
    BY DEF Deeds
  <2>2. Opts(p)' = Opts(p) /\ Tag(p)' = Tag(p)
    BY <1>1 DEF Opts, Tag
  <2>3. Objects(p) => Objects(p)'
    BY <1>1, <2>2 DEF Objects, Safe, OnlyPods, KeptNamespaces, KeptService, KeptDeploy, Creatable
  <2>4. /\ Secrets(p) => Secrets(p)'
        /\ Wide(p) => Wide(p)'
    BY <1>1, <2>2 DEF Secrets, Wide, Past, Safe, OnlyPods, KeptNamespaces, KeptScoped, KeptDeploy, KeptTokens,
       KeptCreds, Creatable
  <2>5. Fresh(p) => Fresh(p)'
    <3>1. kube'.pod["apiserver"] = kube.pod["apiserver"] \/ ~kube'.pod["apiserver"].old
      BY <1>1, <1>2 DEF Deployments
    <3>2. QED
      BY <1>1, <2>2, <3>1 DEF Fresh
  <2>6. Removed(p) => Removed(p)'
    BY <1>1, <2>2 DEF Removed, OnlyPods, KeptNamespaces, KeptScoped
  <2>7. QED
    BY <1>1, <2>1, <2>3, <2>4, <2>5, <2>6 DEF Mine
<1>6. QED
  BY <1>3, <1>4, <1>5 DEF Deeds

\* A namespace that disappears was being deleted, so nothing is lost that an
\* install that runs alone could rely on.
LEMMA NamespaceGoneDeeds ==
  ASSUME Inv, Deeds, NEW n \in Namespaces, mixed' = (mixed \/ Mixes), NamespaceGone(n)
  PROVE  Deeds'
<1>1. person' = person /\ built' = built
  BY DEF NamespaceGone, Cluster
<1>2. /\ n \in kube.dying /\ KeptScoped
      /\ kube'.namespaces = kube.namespaces \ {n} /\ kube'.dying = kube.dying \ {n}
      /\ kube'.creds = kube.creds \ {n}
      /\ kube'.token[n] = 0 /\ \A m \in Namespaces \ {n} : kube'.token[m] = kube.token[m]
      /\ n # System => KeptService /\ KeptDeploy /\ KeptPods
      /\ n = System => /\ kube'.deploy = [d \in Deployments |-> None]
                       /\ kube'.pod = [d \in Deployments |-> NoPod]
  BY GoneEffect DEF Inv, Types
<1>3. /\ System \in Namespaces /\ "apiserver" \in Deployments
      /\ NoPod.template = None /\ NoPod.template.tag = Absent
  BY EmptyKubeType DEF Namespaces, Deployments, None
<1>4. Pulled'
  <2>1. CASE n = System
    BY <1>2, <1>3, <2>1 DEF Pulled
  <2>2. CASE n # System
    BY <1>1, <1>2, <2>2 DEF Deeds, Pulled, KeptPods
  <2>3. QED
    BY <2>1, <2>2
<1>5. Keys'
  <2>1. CASE n = System
    BY <1>2, <1>3, <2>1 DEF Keys
  <2>2. CASE n # System
    <3>1. ~mixed' => ~mixed
      BY DEF Inv, Types
    <3>2. kube'.token[System] = kube.token[System]
      BY <1>2, <1>3, <2>2
    <3>3. QED
      BY <1>2, <2>2, <3>1, <3>2 DEF Deeds, Keys, KeptDeploy, KeptPods
  <2>3. QED
    BY <2>1, <2>2
<1>6. ASSUME NEW p \in People PROVE Mine(p)'
  <2>0. Mine(p) /\ Role(p)
    BY DEF Deeds, Inv, Roles
  <2>1. Opts(p)' = Opts(p) /\ Tag(p)' = Tag(p)
    BY <1>1 DEF Opts, Tag
  <2>2. /\ Creatable(System) => System # n /\ Creatable(System)'
        /\ Creatable(Opts(p).ns) => Opts(p).ns # n /\ Creatable(Opts(p).ns)'
    BY <1>2, <2>1 DEF Creatable
  <2>3. Objects(p) => Objects(p)'
    <3> SUFFICES ASSUME Objects(p), Safe(p, System)' PROVE Objects(p)'
      BY DEF Objects
    <3>1. person[p].step \in 1 .. 6 /\ Safe(p, System)
      BY <1>1 DEF Inv, Types, PersonStates, Safe
    <3>2. CASE Creatable(System)
      BY <1>1, <1>2, <2>1, <2>2, <3>1, <3>2 DEF Objects, KeptService, KeptDeploy
    <3>3. CASE ~Creatable(System)
      <4>1. /\ person[p].pc \notin Applying \cup Delivered
            /\ person[p].pc = "apply" => ~(person[p].step > 1)
        BY <3>1, <3>3 DEF Objects
      <4>2. person[p].pc = "apply" => ~(person[p].step > 4) /\ ~(person[p].step > 5)
        BY <3>1, <4>1
      <4>3. QED
        BY <1>1, <4>1, <4>2 DEF Objects
    <3>4. QED
      BY <3>2, <3>3
  <2>4. Wide(p) => Wide(p)'
    BY <1>1, <1>2 DEF Wide, Past, Safe, KeptScoped
  <2>5. person[p].cmd = "install" /\ Secrets(p) => Secrets(p)'
    <3> SUFFICES ASSUME person[p].cmd = "install", Secrets(p) PROVE Secrets(p)'
      OBVIOUS
    <3>1. Opts(p).ns \in Namespaces /\ (Safe(p, Opts(p).ns)' => Safe(p, Opts(p).ns))
      BY <1>1, <2>0, <2>1, InstallValues DEF Role, Safe
    <3>2. person[p].pc = "writeSystem" => kube'.token[System] \in {0, person[p].token}
      BY <1>2, <1>3 DEF Secrets
    <3>3. person[p].pc \in InSystem \ {"done"} =>
            kube'.token[System] = person[p].token \/ kube'.deploy["apiserver"] = None
      <4>1. CASE n = System
        BY <1>2, <1>3, <4>1
      <4>2. CASE n # System
        BY <1>2, <1>3, <4>2 DEF Secrets, KeptDeploy
      <4>3. QED
        BY <4>1, <4>2
    <3>4. ASSUME Safe(p, Opts(p).ns)', person[p].pc \in ({"read"} \cup Holding) \ {"done"}
          PROVE  /\ Creatable(Opts(p).ns)' /\ Opts(p).ns # n
                 /\ kube'.token[Opts(p).ns] = kube.token[Opts(p).ns]
      <4>1. Creatable(Opts(p).ns)
        BY <3>1, <3>4 DEF Secrets
      <4>2. QED
        BY <1>2, <2>2, <3>1, <4>1
    <3>5. /\ InRun \ {"done"} \subseteq ({"read"} \cup Holding) \ {"done"}
          /\ Keyed \ {"done"} \subseteq ({"read"} \cup Holding) \ {"done"}
      BY DEF Holding, InSystem, InRun
    <3>6. ASSUME Safe(p, Opts(p).ns)', person[p].pc \in InRun \ {"done"}
          PROVE  kube'.token[Opts(p).ns] = person[p].token
      BY <3>1, <3>4, <3>5, <3>6 DEF Secrets
    <3>7. ASSUME Safe(p, Opts(p).ns)', person[p].pc \in Keyed \ {"done"}, Opts(p).creds
          PROVE  Opts(p).ns \in kube'.creds
      BY <1>2, <3>1, <3>4, <3>5, <3>7 DEF Secrets
    <3>8. QED
      BY <1>1, <2>1, <3>2, <3>3, <3>4, <3>6, <3>7 DEF Secrets
  <2>6. person[p].cmd = "install" /\ Fresh(p) => Fresh(p)'
    <3>1. person[p].cmd = "install" => Tag(p) # Absent
      BY <2>0, InstallValues, InstallerAssumption DEF Role
    <3>2. CASE n = System
      BY <1>2, <1>3, <2>1, <3>1, <3>2 DEF Fresh
    <3>3. CASE n # System
      BY <1>1, <1>2, <2>1, <3>3 DEF Fresh, KeptPods
    <3>4. QED
      BY <3>2, <3>3
  <2>7. Removed(p) => Removed(p)'
    <3>1. n # "CRD"
      BY InstallerAssumption DEF Namespaces, System, Scoped
    <3>2. QED
      BY <1>1, <1>2, <2>1, <3>1 DEF Removed, KeptScoped
  <2>8. QED
    BY <1>1, <2>0, <2>3, <2>4, <2>5, <2>6, <2>7 DEF Mine
<1>7. QED
  BY <1>4, <1>5, <1>6 DEF Deeds

\* The same for the CRD.
LEMMA CRDGoneDeeds ==
  ASSUME Inv, Deeds, mixed' = (mixed \/ Mixes), CRDGone
  PROVE  Deeds'
<1>0. mixed' \in BOOLEAN
  OBVIOUS
<1>1. /\ person' = person /\ built' = built /\ "CRD" \in kube.dying
      /\ kube'.namespaces = kube.namespaces /\ KeptService /\ KeptDeploy /\ KeptPods
      /\ KeptTokens /\ KeptCreds
      /\ kube'.scoped = kube.scoped \ {"CRD"} /\ kube'.dying = kube.dying \ {"CRD"}
  BY <1>0, CRDGoneStep
<1>2. Pulled' /\ Keys'
  BY <1>1, KeptKeys DEF Inv, Types
<1>3. ASSUME NEW p \in People PROVE Mine(p)'
  <2>1. Mine(p)
    BY DEF Deeds
  <2>2. Opts(p)' = Opts(p) /\ Tag(p)' = Tag(p)
    BY <1>1 DEF Opts, Tag
  <2>3. /\ Creatable(System) => Creatable(System)'
        /\ Creatable(Opts(p).ns) => Creatable(Opts(p).ns)'
    BY <1>1, <2>2 DEF Creatable
  <2>4. Objects(p) => Objects(p)'
    BY <1>1, <2>2, <2>3 DEF Objects, Safe, KeptService, KeptDeploy
  <2>5. Wide(p) => Wide(p)'
    BY <1>1 DEF Wide, Past, Safe
  <2>6. Secrets(p) => Secrets(p)'
    BY <1>1, <2>2, <2>3 DEF Secrets, Safe, KeptTokens, KeptCreds, KeptDeploy
  <2>7. Fresh(p) => Fresh(p)'
    BY <1>1, <2>2 DEF Fresh, KeptPods
  <2>8. Removed(p) => Removed(p)'
    BY <1>1, <2>2 DEF Removed
  <2>9. QED
    BY <1>1, <2>1, <2>4, <2>5, <2>6, <2>7, <2>8 DEF Mine
<1>4. QED
  BY <1>2, <1>3 DEF Deeds

\* Every step of a command keeps the deeds.
LEMMA StepDeeds ==
  ASSUME Inv, Deeds, NEW p \in People, mixed' = (mixed \/ Mixes), Steps(p) PROVE Deeds'
<1>1. CASE EnsureCluster(p) \/ GrantNodePull(p) \/ ApplyManifests(p)
  BY <1>1, EnsureDeeds, ApplyDeeds
<1>2. CASE KindImages(p) \/ RegistryImages(p) \/ OverrideOperator(p) \/ OverrideApiserver(p)
  BY <1>2, KindDeeds, RegistryDeeds, OverrideDeeds
<1>3. CASE \/ EnsureNamespace(p) \/ ReadToken(p) \/ WriteSystemToken(p) \/ WriteRunToken(p)
           \/ Credentials(p) \/ StoreCredentials(p)
  BY <1>3, ReadDeeds, WriteSystemDeeds, WriteRunDeeds
<1>4. CASE SetApiserverRunNamespace(p) \/ SetServiceType(p) \/ WaitOperator(p) \/ WaitApiserver(p)
  BY <1>4, RunNamespaceDeeds, ServiceDeeds, WaitDeeds
<1>5. CASE DeleteSystem(p) \/ DeleteRunNs(p) \/ SystemGone(p) \/ RunNsGone(p)
  BY <1>5, DeleteDeeds, GoneDeeds
<1>6. CASE DeleteRBAC(p) \/ DeleteCRD(p) \/ DeleteGKECluster(p)
  BY <1>6, ScopedDeeds, DeleteClusterDeeds
<1>7. QED
  BY <1>1, <1>2, <1>3, <1>4, <1>5, <1>6 DEF Steps

\* Every step of the system keeps the deeds.
LEMMA NextDeeds == ASSUME Inv, Deeds, [Next]_vars PROVE Deeds'
<1>1. CASE Next
  <2>1. mixed' = (mixed \/ Mixes)
    BY <1>1 DEF Next
  <2>2. QED
    BY <1>1, <2>1, NextCases, BeginDeeds, AbortDeeds, StepDeeds, StartDeeds, NamespaceGoneDeeds,
       CRDGoneDeeds
<1>2. CASE UNCHANGED vars
  BY <1>2 DEF vars, Deeds, Mine, Objects, Wide, Past, Secrets, Safe, Fresh, Removed, Pulled, Keys, Opts, Tag,
     Creatable
<1>3. QED
  BY <1>1, <1>2

\* What a command that runs alone has done stays done until it ends, whatever
\* the commands before it left behind; pods run delivered images; and unless
\* overlapping commands mixed up the token, the apiserver serves a run namespace
\* of one's own only with the system's token.
THEOREM DeedsInvariance == Spec => [](Inv /\ Deeds)
<1>1. Init => Deeds
  <2> SUFFICES ASSUME Init PROVE Deeds
    OBVIOUS
  <2>1. person = [p \in People |-> Nobody] /\ kube = EmptyKube
    BY DEF Init
  <2>2. /\ \A d \in Deployments : kube.deploy[d] = None /\ kube.pod[d].template = None
        /\ "apiserver" \in Deployments
    BY <2>1, EmptyKubeType DEF Deployments
  <2>3. \A p \in People : Mine(p)
    BY <2>1, NobodyType DEF Mine
  <2>4. QED
    BY <2>2, <2>3 DEF Deeds, Pulled, Keys
<1>2. (Inv /\ Deeds) /\ [Next]_vars => Deeds'
  BY NextDeeds
<1>3. QED
  BY <1>1, <1>2, Invariance, PTL DEF Spec

\* Once an install that ran alone has reported Ready and the apiserver is rolled
\* out, it serves what that install asked for, with the system's token.
THEOREM InstallServes == Spec => []InstalledIsServed
<1>1. Inv /\ Deeds => InstalledIsServed
  <2> SUFFICES ASSUME Inv, Deeds, NEW p \in People,
                      person[p].cmd = "install", At(p, "done"), person[p].alone,
                      Opts(p).ns # DefaultNs, ~mixed, Safe(p, System),
                      kube.pod["apiserver"].template = kube.deploy["apiserver"]
               PROVE  /\ kube.pod["apiserver"].template = [tag |-> Tag(p), arg |-> Opts(p).ns]
                      /\ kube.pod["apiserver"].token = kube.token[System]
                      /\ kube.pod["apiserver"].token # 0
                      /\ person[p].fresh => ~kube.pod["apiserver"].old
    BY DEF InstalledIsServed
  <2>1. person[p].pc = "done" /\ Objects(p) /\ Fresh(p)
    BY DEF At, Deeds, Mine
  <2>2. kube.deploy["apiserver"] = [tag |-> Tag(p), arg |-> Opts(p).ns]
    BY <2>1 DEF Objects, Applying, Delivered, Holding, InSystem, InRun, Keyed, Pointed, Ready
  <2>3. Opts(p) \in InstallOptions
    BY DEF Inv, Roles, Role
  <2>4. kube.deploy["apiserver"] # None
    BY <2>2, <2>3, InstallValues, TemplateTypes
  <2>5. kube.pod["apiserver"].token = kube.token[System] /\ kube.pod["apiserver"].token # 0
    BY <2>2, <2>4 DEF Deeds, Keys
  <2>6. person[p].fresh => ~kube.pod["apiserver"].old
    BY <2>1, <2>2 DEF Fresh, Applying, Delivered, Holding, InSystem, InRun, Keyed, Pointed, Ready
  <2>7. QED
    BY <2>2, <2>5, <2>6
<1>2. QED
  BY <1>1, DeedsInvariance, PTL

\* A step of a command changes the record of the person who runs it.
LEMMA OwnRecord ==
  ASSUME person \in [People -> PersonStates], NEW q \in People, Steps(q)
  PROVE  person' = [person EXCEPT ![q] = person'[q]]
BY DEF Steps, EnsureCluster, GrantNodePull, ApplyManifests, KindImages, RegistryImages,
   OverrideOperator, OverrideApiserver, EnsureNamespace, ReadToken, WriteSystemToken, WriteRunToken,
   Credentials, StoreCredentials, EnsureRunNs, SetApiserverRunNamespace, SetServiceType, WaitOperator,
   WaitApiserver, WaitDeployment, DeleteSystem, SystemGone, DeleteRunNs, RunNsGone, DeleteRBAC,
   DeleteCRD, DeleteGKECluster, DeleteNamespace, WaitGone, UpsertToken, Call, GoTo

\* Only its own steps complete a command, and only the last of them.
LEMMA Completion ==
  ASSUME Inv, Next, NEW p \in People, NEW cmd, Completes(p, cmd)
  PROVE  WaitApiserver(p) \/ DeleteCRD(p) \/ DeleteGKECluster(p)
<1>0. mixed' \in BOOLEAN /\ person \in [People -> PersonStates] /\ ~Idle(p) /\ person'[p].pc = "done"
  BY MixedType DEF Inv, Types, Completes
<1>1. person'[p] # person[p] /\ person'[p] # Nobody
  BY <1>0, NobodyType DEF Idle
<1>2. ASSUME NEW q \in People, BeginInstall(q) \/ BeginUninstall(q) PROVE FALSE
  <2>1. PICK cm, o : Begin(q, cm, o)
    BY <1>2 DEF BeginInstall, BeginUninstall
  <2> DEFINE others == {x \in People \ {q} : ~Idle(x)}
  <2>2. /\ Idle(q)
        /\ p \in others => person'[p] = [person[p] EXCEPT !.alone = FALSE]
    BY <2>1 DEF Begin
  <2>3. p \in others
    BY <1>0, <2>2
  <2>4. [person[p] EXCEPT !.alone = FALSE].pc = person[p].pc
    BY <1>0 DEF PersonStates
  <2>5. QED
    BY <1>0, <2>2, <2>3, <2>4 DEF Idle
<1>3. ASSUME NEW q \in People, Abort(q) PROVE FALSE
  <2>1. \A x \in People : person'[x] = person[x] \/ person'[x] = Nobody
    BY <1>0, <1>3, GoToEffect DEF Abort
  <2>2. QED
    BY <1>1, <2>1
<1>4. ASSUME NEW q \in People, Steps(q), q # p PROVE FALSE
  <2>1. person' = [person EXCEPT ![q] = person'[q]]
    BY <1>0, <1>4, OwnRecord
  <2>2. QED
    BY <1>0, <1>1, <1>4, <2>1
<1>5. ASSUME Steps(p)
      PROVE  WaitApiserver(p) \/ DeleteCRD(p) \/ DeleteGKECluster(p)
  <2>1. ASSUME EnsureCluster(p) \/ GrantNodePull(p) \/ SystemGone(p) \/ RunNsGone(p) \/ WaitOperator(p)
        PROVE  FALSE
    <3>1. PICK label \in {"failed", "grant", "apply", "deleteRun", "deleteScoped", "waitApiserver"} :
            GoTo(p, label)
      BY <2>1 DEF EnsureCluster, GrantNodePull, CheckServer, SystemGone, RunNsGone, WaitGone,
         WaitOperator, WaitDeployment
    <3>2. label \in Labels \cup {"failed"} /\ label # "done"
      BY DEF Labels, InstallLabels, UninstallLabels, Delivered, Holding, InSystem, InRun, Keyed,
         Pointed, Ready
    <3>3. QED
      BY <1>0, <1>1, <3>1, <3>2, GoToEffect
  <2>2. ASSUME ApplyManifests(p) PROVE FALSE
    <3>1. CASE GoTo(p, "failed")
      BY <1>0, <1>1, <3>1, GoToEffect
    <3>2. CASE ~GoTo(p, "failed")
      <4>1. PICK r \in PersonStates : person' = [person EXCEPT ![p] = r] /\ r.pc \in {"images", "apply"}
        BY <2>2, <3>2, ApplyEffect
      <4>2. QED
        BY <1>0, <4>1
    <3>3. QED
      BY <3>1, <3>2
  <2>3. ASSUME KindImages(p) \/ RegistryImages(p) PROVE FALSE
    BY <1>0, <2>3, KindStep, RegistryStep
  <2>4. Abort(p) => FALSE
    BY <1>3
  <2>5. ASSUME OverrideOperator(p) \/ OverrideApiserver(p) \/ SetApiserverRunNamespace(p) \/ SetServiceType(p)
        PROVE  FALSE
    BY <1>0, <2>4, <2>5, OverrideOperatorStep, OverrideApiserverStep, RunNamespaceStep, ServiceStep DEF Moves
  <2>6. ASSUME \/ EnsureNamespace(p) \/ ReadToken(p) \/ WriteSystemToken(p) \/ WriteRunToken(p)
               \/ Credentials(p) \/ StoreCredentials(p)
        PROVE  FALSE
    BY <1>0, <2>4, <2>6, EnsureStep, ReadStep, WriteSystemStep, WriteRunStep, CredentialsStep, StoreStep
       DEF EnsureNamespace, Ensures, Moves
  <2>7. ASSUME DeleteSystem(p) \/ DeleteRunNs(p) \/ DeleteRBAC(p) PROVE FALSE
    BY <1>0, <2>4, <2>7, DeleteSystemStep, DeleteRunStep, DeleteRBACStep DEF Moves
  <2>8. QED
    BY <1>5, <2>1, <2>2, <2>3, <2>5, <2>6, <2>7 DEF Steps
<1>6. ASSUME NEW d \in Deployments, StartPod(d) PROVE FALSE
  BY <1>1, <1>6 DEF StartPod, Cluster
<1>7. ASSUME NEW n \in Namespaces, NamespaceGone(n) PROVE FALSE
  BY <1>1, <1>7 DEF NamespaceGone, Cluster
<1>8. ASSUME CRDGone PROVE FALSE
  BY <1>1, <1>8 DEF CRDGone, Cluster
<1>9. QED
  BY <1>2, <1>3, <1>4, <1>5, <1>6, <1>7, <1>8, NextCases

\* What an install that ran alone leaves when it reports Ready.
LEMMA InstallCompletion ==
  ASSUME Inv, Deeds, Next, NEW p \in People, Completes(p, "install")
  PROVE  /\ Safe(p, System) =>
              /\ kube.deploy["operator"] = [tag |-> Tag(p), arg |-> Tag(p)]
              /\ kube.deploy["apiserver"] = [tag |-> Tag(p), arg |-> Opts(p).ns]
              /\ kube.service = IF Opts(p).expose THEN "LoadBalancer" ELSE "ClusterIP"
              /\ kube.token[System] # 0 /\ Creatable(System)
         /\ Safe(p, Opts(p).ns) =>
              /\ kube.token[Opts(p).ns] # 0 /\ Creatable(Opts(p).ns)
              /\ Safe(p, System) => kube.token[Opts(p).ns] = kube.token[System]
              /\ Opts(p).creds => Opts(p).ns \in kube.creds
         /\ Safe(p, "CRD") => "CRD" \in kube.scoped \ kube.dying
         /\ "RBAC" \in kube.scoped
<1>1. person[p].cmd = "install" /\ person[p].alone
  BY DEF Completes
<1>2. WaitApiserver(p)
  <2>1. ~DeleteCRD(p) /\ ~DeleteGKECluster(p)
    BY <1>1, Uninstalling DEF DeleteCRD, Call, DeleteGKECluster, At, UninstallLabels
  <2>2. QED
    BY <2>1, Completion
<1>3. person[p].pc = "waitApiserver"
  BY <1>2 DEF WaitApiserver, WaitDeployment, At
<1>4. Objects(p) /\ Wide(p) /\ Secrets(p) /\ person[p].token # 0 /\ Opts(p) \in InstallOptions
  BY <1>1, <1>3 DEF Deeds, Mine, Inv, Roles, Role, Holding, InSystem, InRun, Keyed, Pointed, Ready
<1>5. /\ person[p].pc \in Delivered /\ person[p].pc \in InSystem \ {"done"}
      /\ person[p].pc \in Holding \ {"done"} /\ person[p].pc \in InRun \ {"done"}
      /\ person[p].pc \in Keyed \ {"done"}
      /\ person[p].pc \in Ready /\ person[p].pc \in Pointed /\ person[p].pc \notin Applying
      /\ person[p].pc \notin {"images", "overrideOperator"}
  BY <1>3 DEF Applying, Delivered, Holding, InSystem, InRun, Keyed, Pointed, Ready
<1>6. Safe(p, System) =>
        /\ kube.deploy["operator"] = [tag |-> Tag(p), arg |-> Tag(p)]
        /\ kube.deploy["apiserver"] = [tag |-> Tag(p), arg |-> Opts(p).ns]
        /\ kube.service = IF Opts(p).expose THEN "LoadBalancer" ELSE "ClusterIP"
        /\ Creatable(System)
  BY <1>4, <1>5 DEF Objects
<1>7. Safe(p, System) => kube.token[System] = person[p].token
  <2>1. [tag |-> Tag(p), arg |-> Opts(p).ns] # None
    BY <1>4, InstallValues, TemplateTypes
  <2>2. kube.token[System] = person[p].token \/ kube.deploy["apiserver"] = None
    BY <1>4, <1>5 DEF Secrets
  <2>3. QED
    BY <1>6, <2>1, <2>2
<1>8. Safe(p, Opts(p).ns) =>
        /\ kube.token[Opts(p).ns] = person[p].token /\ Creatable(Opts(p).ns)
        /\ Opts(p).creds => Opts(p).ns \in kube.creds
  BY <1>4, <1>5 DEF Secrets
<1>9. /\ Safe(p, "CRD") => "CRD" \in kube.scoped \ kube.dying
      /\ "RBAC" \in kube.scoped
  BY <1>4, <1>5 DEF Wide, Past
<1>10. QED
  BY <1>4, <1>6, <1>7, <1>8, <1>9

\* However earlier commands ended, an install that ran alone and reports Ready
\* leaves what its own options ask for, and leaves it for good, but for what was
\* being deleted when it took it for existing.
THEOREM InstallsConverge == Spec => InstallConverges
<1>1. (Inv /\ Deeds) /\ [Next]_vars =>
        [\A p \in People : Completes(p, "install") =>
         /\ Safe(p, System) =>
              /\ kube.deploy["operator"] = [tag |-> Tag(p), arg |-> Tag(p)]
              /\ kube.deploy["apiserver"] = [tag |-> Tag(p), arg |-> Opts(p).ns]
              /\ kube.service = IF Opts(p).expose THEN "LoadBalancer" ELSE "ClusterIP"
              /\ kube.token[System] # 0 /\ Creatable(System)
         /\ Safe(p, Opts(p).ns) =>
              /\ kube.token[Opts(p).ns] # 0 /\ Creatable(Opts(p).ns)
              /\ Safe(p, System) => kube.token[Opts(p).ns] = kube.token[System]
              /\ Opts(p).creds => Opts(p).ns \in kube.creds
         /\ Safe(p, "CRD") => "CRD" \in kube.scoped \ kube.dying
         /\ "RBAC" \in kube.scoped]_vars
  BY InstallCompletion
<1>2. QED
  BY <1>1, DeedsInvariance, PTL DEF Spec, InstallConverges

\* The system's token changes only when an install writes its own.
LEMMA Rotation ==
  ASSUME Inv, Next, Rotates
  PROVE  \E p \in People : At(p, "writeSystem") /\ kube'.token[System] = person[p].token
<1>0. mixed' \in BOOLEAN /\ kube \in KubeStates /\ System \in Namespaces
  BY MixedType DEF Inv, Types, Namespaces
<1>1. kube.token[System] # 0 /\ kube'.token[System] # 0 /\ kube'.token[System] # kube.token[System]
  BY DEF Rotates
<1>2. kube' # kube
  BY <1>1
<1>3. ASSUME NEW p \in People, BeginInstall(p) \/ BeginUninstall(p) PROVE FALSE
  BY <1>2, <1>3 DEF BeginInstall, BeginUninstall, Begin
<1>4. ASSUME NEW p \in People, Abort(p) PROVE FALSE
  BY <1>2, <1>4 DEF Abort
<1>5. ASSUME NEW p \in People, Steps(p)
      PROVE  At(p, "writeSystem") /\ kube'.token[System] = person[p].token
  <2>0. ~KeptTokens
    BY <1>1 DEF KeptTokens
  <2>1. ASSUME \/ EnsureCluster(p) \/ GrantNodePull(p) \/ WaitOperator(p) \/ WaitApiserver(p)
               \/ SystemGone(p) \/ RunNsGone(p)
        PROVE  FALSE
    BY <1>2, <2>1 DEF EnsureCluster, GrantNodePull, WaitOperator, WaitApiserver, WaitDeployment,
       SystemGone, RunNsGone, WaitGone
  <2>2. ASSUME ApplyManifests(p) PROVE FALSE
    <3>1. person[p].step \in 1 .. 6 /\ kube' = Applied(Manifests[person[p].step])
      BY <1>2, <2>2, ApplyEffect DEF Inv, Types, PersonStates
    <3>2. QED
      BY <1>0, <2>0, <3>1, ManifestTypes, AppliedEffect
  <2>3. ASSUME KindImages(p) \/ RegistryImages(p) PROVE FALSE
    BY <1>0, <2>0, <2>3, KindStep, RegistryStep DEF Aged, OnlyPods
  <2>4. Abort(p) => FALSE
    BY <1>4
  <2>5. ASSUME OverrideOperator(p) \/ OverrideApiserver(p) \/ SetApiserverRunNamespace(p) \/ SetServiceType(p)
        PROVE  FALSE
    BY <1>0, <2>0, <2>4, <2>5, OverrideOperatorStep, OverrideApiserverStep, RunNamespaceStep, ServiceStep
       DEF OnlyDeploy, OnlyService
  <2>6. ASSUME EnsureNamespace(p) \/ ReadToken(p) \/ Credentials(p) \/ StoreCredentials(p) PROVE FALSE
    BY <1>0, <1>2, <2>0, <2>4, <2>6, EnsureStep, ReadStep, CredentialsStep, StoreStep
       DEF EnsureNamespace, Ensures, OnlyNamespaces, OnlyCreds
  <2>7. ASSUME WriteRunToken(p) PROVE FALSE
    BY <1>0, <1>1, <2>4, <2>7, WriteRunStep
  <2>8. ASSUME DeleteSystem(p) \/ DeleteRunNs(p) \/ DeleteRBAC(p) \/ DeleteCRD(p) PROVE FALSE
    BY <1>0, <2>0, <2>4, <2>8, DeleteSystemStep, DeleteRunStep, DeleteRBACStep, DeleteCRDStep
       DEF OnlyNamespaces, OnlyScoped
  <2>9. ASSUME DeleteGKECluster(p) PROVE FALSE
    BY <1>0, <1>1, <1>2, <2>9, DeleteClusterStep, EmptyKubeType
  <2>10. ASSUME WriteSystemToken(p) PROVE At(p, "writeSystem") /\ kube'.token[System] = person[p].token
    BY <1>0, <2>4, <2>10, WriteSystemStep
  <2>11. QED
    BY <1>5, <2>1, <2>2, <2>3, <2>5, <2>6, <2>7, <2>8, <2>9, <2>10 DEF Steps
<1>6. ASSUME NEW d \in Deployments, StartPod(d) PROVE FALSE
  BY <1>0, <1>1, <1>6, StartStep DEF OnlyPods, KeptTokens
<1>7. ASSUME NEW n \in Namespaces, NamespaceGone(n) PROVE FALSE
  BY <1>0, <1>1, <1>7, GoneEffect
<1>8. ASSUME CRDGone PROVE FALSE
  BY <1>0, <1>1, <1>8, CRDGoneStep DEF KeptTokens
<1>9. QED
  BY <1>3, <1>4, <1>5, <1>6, <1>7, <1>8, NextCases

\* An install goes on to expose the Service only if the apiserver's Deployment is
\* there to be pointed at its run namespace.
LEMMA Pointing ==
  ASSUME Inv, Next, NEW p \in People, At(p, "runNamespace"), person'[p].pc = "expose"
  PROVE  kube.deploy["apiserver"] # None
<1>0. /\ mixed' \in BOOLEAN /\ person \in [People -> PersonStates] /\ ~Idle(p)
      /\ person[p].pc = "runNamespace"
  BY MixedType DEF Inv, Types, At, Idle
<1>1. person'[p] # person[p] /\ person'[p] # Nobody
  BY <1>0, NobodyType
<1>2. ASSUME NEW q \in People, BeginInstall(q) \/ BeginUninstall(q) PROVE FALSE
  <2>1. PICK cm, o : Begin(q, cm, o)
    BY <1>2 DEF BeginInstall, BeginUninstall
  <2> DEFINE others == {x \in People \ {q} : ~Idle(x)}
  <2>2. Idle(q) /\ (p \in others => person'[p] = [person[p] EXCEPT !.alone = FALSE])
    BY <2>1 DEF Begin
  <2>3. p \in others
    BY <1>0, <2>2
  <2>4. [person[p] EXCEPT !.alone = FALSE].pc = person[p].pc
    BY <1>0 DEF PersonStates
  <2>5. QED
    BY <1>0, <2>2, <2>3, <2>4
<1>3. ASSUME NEW q \in People, Abort(q) PROVE FALSE
  <2>1. \A x \in People : person'[x] = person[x] \/ person'[x] = Nobody
    BY <1>0, <1>3, GoToEffect DEF Abort
  <2>2. QED
    BY <1>1, <2>1
<1>4. ASSUME NEW q \in People, Steps(q), q # p PROVE FALSE
  <2>1. person' = [person EXCEPT ![q] = person'[q]]
    BY <1>0, <1>4, OwnRecord
  <2>2. QED
    BY <1>0, <1>1, <1>4, <2>1
<1>5. ASSUME Steps(p) PROVE SetApiserverRunNamespace(p)
  BY <1>0, <1>5 DEF Steps, EnsureCluster, GrantNodePull, ApplyManifests, KindImages, RegistryImages,
     OverrideOperator, OverrideApiserver, EnsureNamespace, EnsureRunNs, ReadToken, WriteSystemToken,
     WriteRunToken, Credentials, StoreCredentials, SetServiceType, WaitOperator, WaitApiserver,
     WaitDeployment, DeleteSystem, SystemGone, DeleteRunNs, RunNsGone, DeleteRBAC, DeleteCRD,
     DeleteGKECluster, DeleteNamespace, WaitGone, UpsertToken, Call, At
<1>6. ASSUME SetApiserverRunNamespace(p) PROVE kube.deploy["apiserver"] # None
  BY <1>0, <1>3, <1>6, RunNamespaceStep
<1>7. ASSUME NEW d \in Deployments, StartPod(d) PROVE FALSE
  BY <1>1, <1>7 DEF StartPod, Cluster
<1>8. ASSUME NEW n \in Namespaces, NamespaceGone(n) PROVE FALSE
  BY <1>1, <1>8 DEF NamespaceGone, Cluster
<1>9. ASSUME CRDGone PROVE FALSE
  BY <1>1, <1>9 DEF CRDGone, Cluster
<1>10. QED
  BY <1>2, <1>3, <1>4, <1>5, <1>6, <1>7, <1>8, <1>9, NextCases

\* No install replaces the token that running pods hold, or rolls the apiserver
\* out without its own token in place, unless commands overlapped.
THEOREM TokenKept == Spec => TokenIsKept
<1>1. (Inv /\ Deeds) /\ [Next]_vars => [Mixes => \E p \in People : ~Idle(p) /\ ~person[p].alone]_vars
  <2> SUFFICES ASSUME Inv, Deeds, Next, Mixes PROVE \E p \in People : ~Idle(p) /\ ~person[p].alone
    OBVIOUS
  <2>1. CASE Rotates
    <3>1. PICK p \in People : At(p, "writeSystem") /\ kube'.token[System] = person[p].token
      BY <2>1, Rotation
    <3>2. person[p].cmd = "install" /\ ~Idle(p)
      BY <3>1, AtWork DEF At, InstallLabels, Delivered, Holding
    <3>3. ~person[p].alone
      BY <2>1, <3>1, <3>2 DEF Rotates, Deeds, Mine, Secrets, At
    <3>4. QED
      BY <3>2, <3>3
  <2>2. CASE \E p \in People : Overtaken(p)
    <3>1. PICK p \in People : /\ At(p, "runNamespace") /\ person'[p].pc = "expose"
                              /\ person[p].token # kube.token[System]
      BY <2>2 DEF Overtaken
    <3>2. person[p].cmd = "install" /\ ~Idle(p)
      BY <3>1, AtWork DEF At, InstallLabels, Delivered, Holding, InSystem, InRun, Keyed
    <3>3. kube.deploy["apiserver"] # None
      BY <3>1, Pointing
    <3>4. ~person[p].alone
      BY <3>1, <3>2, <3>3 DEF Deeds, Mine, Secrets, At, InSystem, InRun, Keyed
    <3>5. QED
      BY <3>2, <3>4
  <2>3. QED
    BY <2>1, <2>2 DEF Mixes
<1>2. QED
  BY <1>1, DeedsInvariance, PTL DEF Spec, TokenIsKept

\* What an uninstall that ran alone leaves when it reports success.
LEMMA UninstallCompletion ==
  ASSUME Inv, Deeds, Next, NEW p \in People, Completes(p, "uninstall")
  PROVE  /\ kube'.namespaces \cap {System, Opts(p).ns} = {}
         /\ kube'.scoped \subseteq {"CRD"} \cap kube'.dying
         /\ Opts(p).delete /\ ~person'[p].blind => ~exists'
<1>0. mixed' \in BOOLEAN
  BY MixedType
<1>1. person[p].cmd = "uninstall" /\ person[p].alone /\ person'[p].pc = "done"
  BY DEF Completes
<1>2. Removed(p)
  BY <1>1 DEF Deeds, Mine
<1>3. ~WaitApiserver(p)
  BY <1>1, AtWork DEF WaitApiserver, WaitDeployment, At, InstallLabels, Delivered, Holding, InSystem,
     InRun, Keyed, Pointed, Ready
<1>4. kube.scoped \subseteq {"CRD", "RBAC"}
  BY DEF Inv, Types, KubeStates, Scoped
<1>5. CASE DeleteCRD(p)
  <2>1. ~Abort(p)
    <3>1. Abort(p) => person'[p] = Nobody
      BY GoToEffect DEF Abort, Inv, Types
    <3>2. QED
      BY <1>1, <3>1, NobodyType
  <2>2. /\ At(p, "deleteCRD") /\ kube'.namespaces = kube.namespaces /\ kube'.scoped = kube.scoped
        /\ kube'.dying = kube.dying \cup ({"CRD"} \cap kube.scoped) /\ ~Opts(p).delete
    BY <1>0, <1>1, <1>5, <2>1, DeleteCRDStep DEF Moves, OnlyNamespaces, KeptScoped
  <2>3. /\ System \notin kube.namespaces /\ Opts(p).ns \notin kube.namespaces
        /\ "RBAC" \notin kube.scoped
    BY <1>2, <2>2 DEF Removed, At
  <2>4. QED
    BY <1>4, <2>2, <2>3
<1>6. CASE DeleteGKECluster(p)
  <2>1. /\ At(p, "describe")
        /\ \/ ~exists' /\ kube' = EmptyKube
           \/ person'[p].blind /\ kube' = kube
    BY <1>0, <1>6, DeleteClusterStep
  <2>2. /\ System \notin kube.namespaces /\ Opts(p).ns \notin kube.namespaces
        /\ "RBAC" \notin kube.scoped /\ ("CRD" \in kube.scoped => "CRD" \in kube.dying)
    BY <1>2, <2>1 DEF Removed, At
  <2>3. QED
    BY <1>4, <2>1, <2>2, EmptyKubeType
<1>7. QED
  BY <1>3, <1>5, <1>6, Completion

\* An uninstall that ran alone and reports success leaves neither namespace, no
\* cluster-scoped object but a CRD that is being deleted and, if asked, no cluster
\* that could be described.
THEOREM UninstallRemoves == Spec => UninstallLeavesNothing
<1>1. (Inv /\ Deeds) /\ [Next]_vars =>
        [\A p \in People : Completes(p, "uninstall") =>
           /\ kube'.namespaces \cap {System, Opts(p).ns} = {}
           /\ kube'.scoped \subseteq {"CRD"} \cap kube'.dying
           /\ Opts(p).delete /\ ~person'[p].blind => ~exists']_vars
  BY UninstallCompletion
<1>2. QED
  BY <1>1, DeedsInvariance, PTL DEF Spec, UninstallLeavesNothing

=============================================================================
