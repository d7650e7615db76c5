------------------------------ MODULE Admission ------------------------------
(***************************************************************************)
(* The webhook's rules for apps and clusters, together with what they rely *)
(* on: the settings in memory, the clusters noted as using an app, and the *)
(* cluster status that the reconciler writes.                              *)
(*                                                                         *)
(* Clusters are of one namespace, and there is an app of one name in it    *)
(* ("local") and another in KubeDirector's ("system").  Names, quantities  *)
(* and lists are kept as far as the rules tell them apart.  Status UIDs    *)
(* and the finalizer of a cluster are ClusterObject's subject, the label   *)
(* of a restored cluster is Restore's.                                     *)
(***************************************************************************)
EXTENDS Settings, FiniteSets, SequencesExt

CONSTANTS
  Clusters, RoleNames,
  NodeApps,    \* the app documents users submit
  FirstApp,    \* the one installed at the beginning, an element of NodeApps
  Requests,    \* the cluster specs users submit
  Nil,         \* a property left out
  MaxMembers,  \* maxKDMembers
  IntMax,      \* the largest int32
  MaxChanges   \* bounds what users do to apps and clusters

ASSUME LimitsAssumption ==
  MaxMembers \in Nat /\ IntMax \in Nat /\ MaxMembers < IntMax /\ MaxChanges \in Nat

\* The documents, as far as the rules look at them.
Packages == STRING \cup {"none", Nil}
AppRole == [name : RoleNames, min : Nat, scaleOut : BOOLEAN, resources : Nat, storage : Nat,
            ephemeral : BOOLEAN, package : Packages]
NodeApp == [roles : Seq(AppRole), selected : SUBSET RoleNames, services : SUBSET STRING,
            roleServices : Seq([name : RoleNames, services : SUBSET STRING]),
            package : Packages, logSize : BOOLEAN]
AskedRole == [name : RoleNames, members : Nat \cup {Nil},
              cfg : [resources : Nat, storage : Nat, class : Values \cup {Nil},
                     claim : BOOLEAN, secret : {"none", "value", "kept"}]]

ASSUME DocumentsAssumption ==
  /\ Nil # "none" /\ FirstApp \in NodeApps
  /\ \A app \in NodeApps : app \in NodeApp
  /\ \A request \in Requests : request.roles \in Seq(AskedRole)
                             /\ request.service \in Values \cup {Nil}

VARIABLES
  apps,       \* the app of each catalog
  clusters,   \* the cluster resources
  refs,       \* clustersUsingApp: the clusters noted for each catalog's app
  known,      \* the clusters with an entry in ClusterStatusGens
  working,    \* the spec that a pass over a cluster works from
  sameApp,    \* the clusters whose app is the one they were last admitted for
  changes

admissionVars == <<apps, clusters, refs, known, working, sameApp, changes>>
allVars == <<vars, admissionVars>>

Catalogs == {"local", "system"}
NoApp == <<>>
NoRole == [resources |-> -1]
NoCluster == [state |-> "absent", catalog |-> Nil, service |-> Nil, roles |-> <<>>,
              made |-> [r \in RoleNames |-> NoRole], pending |-> FALSE]

Names(list) == {list[i].name : i \in DOMAIN list}
Named(list, name) == {list[i] : i \in {j \in DOMAIN list : list[j].name = name}}
TheOne(list, name) == CHOOSE x \in Named(list, name) : TRUE

-----------------------------------------------------------------------------
(* Apps. *)

Unique(list) == Cardinality(Names(list)) = Len(list)

RefsUnique_Unchecked(app) == TRUE

\* A role has at most one entry in roleServices.
RefsUnique(app) == Unique(app.roleServices)

AppValid(app) ==
  /\ Unique(app.roles) /\ RefsUnique(app)
  /\ \A rs \in ToSet(app.roleServices) :
       rs.name \in Names(app.roles) /\ rs.services \subseteq app.services
  /\ app.selected \subseteq Names(app.roles)

ASSUME FirstAppAssumption == AppValid(FirstApp)

\* A role without a setup package of its own takes the default one, or "none".
SetupPackage(role, app) ==
  IF role.package # Nil THEN role.package
  ELSE IF app.package = Nil THEN "none" ELSE app.package

RolesDefaulted(app) ==
  [i \in DOMAIN app.roles |->
     [app.roles[i] EXCEPT !.package = SetupPackage(app.roles[i], app)]]

Defaulted_Again(app) ==
  [app EXCEPT !.package = Nil, !.roles = RolesDefaulted(app)]

\* The defaults for all roles are filled into each and not stored.
Defaulted(app) ==
  [app EXCEPT !.package = Nil, !.logSize = FALSE, !.roles = RolesDefaulted(app)]

\* The default log size is taken out of what is stored but not out of what is
\* compared with it.
Compared(app) == [Defaulted(app) EXCEPT !.logSize = app.logSize]

\* The ports that services of a role get: those of its first entry.
PortsForRole(app, role) ==
  LET list == app.roleServices
      entries == {i \in DOMAIN list : list[i].name = role}
  IN  UNION {list[i].services : i \in {j \in entries : \A k \in entries : j <= k}}

FindApp(catalog) ==
  IF catalog = "system" \/ (catalog = Nil /\ apps["local"] = NoApp) THEN "system"
  ELSE "local"

-----------------------------------------------------------------------------
(* A cluster's spec against the app: the checks, and what they fill in. *)

CardinalityOk_OneMore(role, app) ==
  role.members # Nil =>
    IF app.scaleOut THEN role.members >= app.min - 1 ELSE role.members = app.min

CardinalityOk(role, app) ==
  role.members # Nil =>
    IF app.scaleOut THEN role.members >= app.min ELSE role.members = app.min

\* A sum of int32 numbers wraps around.
Wrapped(n) == ((n + IntMax + 1) % (2 * (IntMax + 1))) - (IntMax + 1)

\* What the first counts of a list add up to.
Sums(counts) ==
  LET sum[n \in 0 .. Len(counts)] == IF n = 0 THEN 0 ELSE Wrapped(sum[n - 1] + counts[n])
  IN  sum

Counts(roles) == [i \in DOMAIN roles |-> roles[i].members]

WithinLimit(roles) == \A n \in DOMAIN roles : Sums(Counts(roles))[n] <= MaxMembers

MinimumsOk(role, app) ==
  /\ role.cfg.resources >= app.resources
  /\ IF role.cfg.storage = 0 THEN app.storage = 0 \/ app.ephemeral
     ELSE role.cfg.storage >= app.storage

RolesOk(roles, app) ==
  /\ Names(roles) \subseteq Names(app.roles) /\ Unique(roles)
  /\ \A r \in app.selected \ Names(roles) : TheOne(app.roles, r).min = 0
  /\ \A role \in ToSet(roles) :
       LET appRole == TheOne(app.roles, role.name)
       IN  CardinalityOk(role, appRole) /\ MinimumsOk(role, appRole)

ClaimsOk_ByRole(roles) == \A role \in ToSet(roles) : role.cfg.claim => role.members <= 1

Claimants(roles) == [i \in DOMAIN roles |-> IF roles[i].cfg.claim THEN roles[i].members ELSE 0]

\* A claim that is not shared is for one member.
ClaimsOk(roles) == Sums(Claimants(roles))[Len(roles)] <= 1

\* A secret sent back as it is stored stays.
KeptSecret(prev, name) ==
  IF Named(prev, name) = {} THEN NoKey ELSE TheOne(prev, name).cfg.secret

\* The default storage class, and secret keys encrypted with the key in memory.
FilledCfg(cfg, kept) ==
  [cfg EXCEPT
     !.class = IF @ = Nil /\ cfg.storage > 0 THEN globalConfig.setting ELSE @,
     !.secret = CASE @ = "none" -> NoKey [] @ = "value" -> globalConfig.key
                  [] @ = "kept" -> kept]

Filled(roles, app, prev) ==
  [i \in DOMAIN roles |->
     LET role == roles[i]
     IN  [role EXCEPT
            !.members = IF @ = Nil THEN TheOne(app.roles, role.name).min ELSE @,
            !.cfg = FilledCfg(@, KeptSecret(prev, role.name))]]

SecretsOk(roles) ==
  \A role \in ToSet(roles) : role.cfg.secret = "value" => globalConfig.key # NoKey

\* Nothing but the member count of a role that has members may change, and a role
\* on its way out may not come back.  A secret key given by its value counts as a
\* change, encrypted or not.
RoleChangesOk(roles, filled, cluster) ==
  \A i \in DOMAIN roles :
    LET name == roles[i].name
    IN  cluster.made[name] # NoRole =>
          /\ name \in Names(cluster.roles)
          /\ filled[i].cfg = TheOne(cluster.roles, name).cfg
          /\ roles[i].cfg.secret # "value"

\* A spec may change once there is a status stanza, and with no notification
\* queued in it.  (The state that the webhook patches in is not stored: status is
\* a subresource.)
SpecChangeOk(cluster) == cluster.state # "new" /\ ~cluster.pending

Admits(request, app, prev, filled) ==
  /\ app # NoApp
  /\ RolesOk(request.roles, app)
  /\ SecretsOk(request.roles)
  /\ filled = Filled(request.roles, app, prev)
  /\ WithinLimit(filled) /\ ClaimsOk(filled)

-----------------------------------------------------------------------------
(* Users. *)

\* ClustersUsingApp.
InUse_Several(catalog) == Cardinality(refs[catalog]) > 1

InUse(catalog) == refs[catalog] # {}

AnyClusters == \E catalog \in Catalogs : refs[catalog] # {}

Changes ==
  /\ changes < MaxChanges /\ changes' = changes + 1
  /\ UNCHANGED <<vars, refs, known>>

PutApp(catalog, app) ==
  /\ AppValid(app)
  /\ apps[catalog] # NoApp /\ InUse(catalog) =>
       Compared(app) = [apps[catalog] EXCEPT !.package = Nil]
  /\ apps' = [apps EXCEPT ![catalog] = Defaulted(app)]
  /\ sameApp' = IF apps' = apps THEN sameApp
                ELSE {c \in sameApp : clusters[c].catalog # catalog}
  /\ Changes /\ UNCHANGED <<clusters, working>>

DeleteApp(catalog) ==
  /\ apps[catalog] # NoApp /\ ~InUse(catalog)
  /\ apps' = [apps EXCEPT ![catalog] = NoApp]
  /\ sameApp' = {c \in sameApp : clusters[c].catalog # catalog}
  /\ Changes /\ UNCHANGED <<clusters, working>>

Service(request) == IF request.service = Nil THEN globalConfig.setting ELSE request.service

CreateCluster(c, request) ==
  LET catalog == FindApp(request.catalog)
      filled == Filled(request.roles, apps[catalog], <<>>)
  IN  /\ clusters[c].state = "absent"
      /\ Admits(request, apps[catalog], <<>>, filled)
      /\ clusters' = [clusters EXCEPT ![c] =
           [NoCluster EXCEPT !.state = "new", !.catalog = catalog, !.roles = filled,
                             !.service = Service(request)]]
      /\ sameApp' = sameApp \cup {c}
      /\ Changes /\ UNCHANGED <<apps, working>>

\* The app and its catalog are not changed.
EditCluster(c, request) ==
  LET cluster == clusters[c]
      app == apps[cluster.catalog]
      filled == Filled(request.roles, app, cluster.roles)
  IN  /\ cluster.state \in {"new", "live"} /\ request.catalog = cluster.catalog
      /\ SpecChangeOk(cluster)
      /\ Admits(request, app, cluster.roles, filled)
      /\ RoleChangesOk(request.roles, filled, cluster)
      /\ clusters' = [clusters EXCEPT ![c].roles = filled, ![c].service = Service(request)]
      /\ sameApp' = sameApp \cup {c}
      /\ Changes /\ UNCHANGED <<apps, working>>

DeleteCluster(c) ==
  /\ clusters[c].state \in {"new", "live"}
  /\ clusters' = IF clusters[c].state = "live"
                   THEN [clusters EXCEPT ![c].state = "deleting"]
                   ELSE [clusters EXCEPT ![c] = NoCluster]
  /\ Changes /\ UNCHANGED <<apps, working, sameApp>>

-----------------------------------------------------------------------------
(* The cluster reconciler, as far as the rules depend on it. *)

ReconcilerKeeps == UNCHANGED <<vars, apps, sameApp, changes>>

\* handleNewCluster: a cluster without an entry is noted as using its app.
Registers(c) ==
  /\ known' = known \cup {c}
  /\ refs' = IF c \in known THEN refs
             ELSE [refs EXCEPT ![clusters[c].catalog] = @ \cup {c}]

FirstPass(c) ==
  /\ clusters[c].state = "new" /\ working[c] = Nil
  /\ Registers(c)
  /\ clusters' = [clusters EXCEPT ![c].state = "live"]
  /\ UNCHANGED working /\ ReconcilerKeeps

BeginPass(c) ==
  /\ clusters[c].state = "live" /\ working[c] = Nil
  /\ Registers(c)
  /\ working' = [working EXCEPT ![c] = clusters[c].roles]
  /\ UNCHANGED clusters /\ ReconcilerKeeps

\* Members are made after the spec of the beginning; the status is put on the
\* resource as it is at the end.
EndPass(c) ==
  /\ working[c] # Nil
  /\ working' = [working EXCEPT ![c] = Nil]
  /\ IF clusters[c].state = "live"
       THEN \E leaving \in SUBSET RoleNames, pending \in BOOLEAN :
              LET wanted == {role.name : role \in {x \in ToSet(working[c]) : x.members > 0}}
                  made(r) == IF r \in wanted
                               THEN IF clusters[c].made[r] # NoRole THEN clusters[c].made[r]
                                    ELSE TheOne(working[c], r).cfg
                             ELSE IF r \in leaving THEN clusters[c].made[r] ELSE NoRole
              IN  clusters' = [clusters EXCEPT ![c].made = [r \in RoleNames |-> made(r)],
                                               ![c].pending = pending]
       ELSE UNCHANGED clusters
  /\ UNCHANGED <<refs, known>> /\ ReconcilerKeeps

\* RemoveClusterAppReference.
Unreferenced_Bucket(catalog, c) == [refs EXCEPT ![catalog] = {}]

Unreferenced(catalog, c) == [refs EXCEPT ![catalog] = @ \ {c}]

FinalPass(c) ==
  /\ clusters[c].state = "deleting" /\ working[c] = Nil
  /\ clusters' = [clusters EXCEPT ![c] = NoCluster]
  /\ refs' = Unreferenced(clusters[c].catalog, c)
  /\ known' = known \ {c}
  /\ UNCHANGED working /\ ReconcilerKeeps

Restart ==
  /\ RestartSettings
  /\ refs' = [catalog \in Catalogs |-> {}] /\ known' = {}
  /\ working' = [c \in Clusters |-> Nil]
  /\ UNCHANGED <<apps, clusters, sameApp, changes>>

-----------------------------------------------------------------------------

Init ==
  /\ SettingsInit
  /\ apps = [catalog \in Catalogs |-> IF catalog = "system" THEN Defaulted(FirstApp)
                                      ELSE NoApp]
  /\ clusters = [c \in Clusters |-> NoCluster]
  /\ refs = [catalog \in Catalogs |-> {}] /\ known = {}
  /\ working = [c \in Clusters |-> Nil]
  /\ sameApp = {} /\ changes = 0

Next ==
  \/ /\ \/ Pass \/ CacheMoves
        \/ CreateConfig \/ EditConfig(AnyClusters) \/ DeleteConfig(AnyClusters)
     /\ UNCHANGED admissionVars
  \/ Restart
  \/ \E catalog \in Catalogs : DeleteApp(catalog) \/ \E app \in NodeApps : PutApp(catalog, app)
  \/ \E c \in Clusters :
       \/ \E request \in Requests : CreateCluster(c, request) \/ EditCluster(c, request)
       \/ DeleteCluster(c) \/ FirstPass(c) \/ BeginPass(c) \/ EndPass(c) \/ FinalPass(c)

Spec == Init /\ [][Next]_allVars

-----------------------------------------------------------------------------
(* Properties. *)

RoleCfg == [resources : Nat, storage : Nat, class : Values \cup {Nil}, claim : BOOLEAN,
            secret : Nat]
Role == [name : RoleNames, members : Nat, cfg : RoleCfg]

TypeOK ==
  /\ SettingsTypeOK
  /\ \A catalog \in Catalogs :
       apps[catalog] # NoApp =>
         /\ ~apps[catalog].logSize /\ apps[catalog].package = Nil
         /\ \A role \in ToSet(apps[catalog].roles) : role.package # Nil
  /\ \A c \in Clusters :
       /\ clusters[c].state \in {"absent", "new", "live", "deleting"}
       /\ clusters[c].catalog \in Catalogs \cup {Nil} /\ clusters[c].service \in Values \cup {Nil}
       /\ ToSet(clusters[c].roles) \subseteq Role /\ clusters[c].pending \in BOOLEAN
  /\ refs \in [Catalogs -> SUBSET Clusters] /\ known \subseteq Clusters
  /\ sameApp \subseteq Clusters /\ changes \in 0 .. MaxChanges

\* The clusters whose app is the one they were last admitted for.
Admitted(c) == c \in sameApp /\ clusters[c].state # "absent"

\* One entry for a role, none for a role unknown to the app and one for each selected
\* role that has to have members; each role has as many members and as much of
\* everything as the app asks for.
Fits(roles, app) ==
  \A r \in RoleNames :
    LET asked == Named(app.roles, r)
        given == Named(roles, r)
    IN  /\ Cardinality({i \in DOMAIN roles : roles[i].name = r}) <= Cardinality(asked)
        /\ given = {} /\ r \in app.selected => \A x \in asked : x.min = 0
        /\ \A x \in asked, y \in given :
             /\ y.members >= x.min /\ (x.scaleOut \/ y.members = x.min)
             /\ y.cfg.resources >= x.resources
             /\ y.cfg.storage >= x.storage \/ (x.ephemeral /\ y.cfg.storage = 0)

\* A stored cluster is one that its app can run.  The webhook comes to it by filling in
\* defaults and checking changes one by one, against a stored spec that passes and
\* other edits replace.
Conforms ==
  \A c \in Clusters : Admitted(c) => Fits(clusters[c].roles, apps[clusters[c].catalog])

\* It is within the limit of members, and a claim that cannot be shared has one pod,
\* although the sums the webhook goes by are of numbers that wrap around.
Pods(role) == {role.name} \X (1 .. role.members)

WithinLimits ==
  \A c \in Clusters : Admitted(c) =>
    LET roles == ToSet(clusters[c].roles)
    IN  /\ Cardinality(UNION {Pods(role) : role \in roles}) <= MaxMembers
        /\ Cardinality(UNION {Pods(role) : role \in {x \in roles : x.cfg.claim}}) <= 1

\* Each role gets the ports of every service that an entry of roleServices gives
\* it, although the catalog stops at the first entry for the role.
PortsComplete ==
  \A catalog \in Catalogs, r \in RoleNames :
    apps[catalog] # NoApp =>
      PortsForRole(apps[catalog], r)
        = UNION {rs.services : rs \in Named(apps[catalog].roleServices, r)}

\* A cluster that a pass has been at since KubeDirector came up.
Processed(c) == c \in known /\ clusters[c].state \in {"live", "deleting"}

\* The key is not changed under a processed cluster ("masterEncryptionKey value
\* cannot be changed while kdclusters exist"), whichever other clusters of the
\* same app have come and gone.
KeyKept ==
  [][config.live /\ config'.live /\ config.spec.key \notin {NoKey, config'.spec.key} =>
       \A c \in Clusters : ~Processed(c)]_allVars

\* No app is deleted or changed under a processed cluster that was admitted for
\* it, also after a restart.
AppUnchanged ==
  [][\A c \in sameApp : Processed(c) => c \in sameApp']_allVars

\* The members of a role and its spec go together: "Restricting change to when all
\* role members are gone is good because: We won't show misleading configuration
\* for existing members."
NotMisled ==
  \A c \in Clusters : \A role \in ToSet(clusters[c].roles) :
    clusters[c].made[role.name] \in {NoRole, role.cfg}

=============================================================================
