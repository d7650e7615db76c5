-------------------------- MODULE ClusterReconciler --------------------------
(***************************************************************************)
(* The reconciler of one virtual cluster.  A pass reads the cluster        *)
(* resource and the pods, adjusts the member lists of the roles, moves the *)
(* members through their lifecycle, sends queued notifications and writes  *)
(* the status back.  Users, Kubernetes, the scripts in the guests and      *)
(* faults interleave with the steps of a pass.                             *)
(*                                                                         *)
(* Left to other modules: how clusters are told of a connection's change   *)
(* and --reconnect, the status-generation protocol, finalizers, restore.   *)
(* The StatefulSet controller is taken to create and count pod objects at  *)
(* once and to start and stop containers later.                            *)
(***************************************************************************)
EXTENDS MemberStatus

CONSTANTS
  InitialSpec,  \* the member counts the cluster is created with
  SpecMoves,    \* pairs <<old, new>> of member counts a user may ask for
  MaxChanges,   \* bounds the spec changes
  MaxConnects,  \* bounds the changes of what the cluster is connected to
  FaultKinds,   \* subset of the fault kinds below
  MaxFaults     \* bounds the faults

AllFaults == {"restart", "crash", "exec", "script", "api", "ssetDelete"}

\* A member count; -1 when the spec does not have the role.
Want == -1 .. MaxMembers

ASSUME SpecAssumption ==
  /\ InitialSpec \in [Roles -> Want]
  /\ SpecMoves \subseteq Want \X Want
ASSUME BoundsAssumption ==
  /\ MaxChanges \in Nat /\ MaxConnects \in Nat /\ MaxFaults \in Nat
  /\ FaultKinds \subseteq AllFaults

VARIABLES
  spec,    \* the member counts in the cluster resource
  conns,   \* the version of the resources the cluster is connected to
  stat,    \* the status stanza in the cluster resource
  admitted, \* whether the webhook has admitted an update since the status was written
  sset,    \* the StatefulSet of each role
  orphans, \* the StatefulSets with no role status that a newer one took over from
  pod, guest,
  phase,   \* where the reconciler is in its pass
  cr,      \* the reconciler's working copy of the status
  want,    \* the reconciler's copy of the spec
  seen,    \* the roles whose StatefulSet the pass found or created
  snap,    \* membersByState: the member states the pass goes by
  configmeta, \* configmetaGenerator: the nodes that the pass hands out
  todo,    \* the roles the member pass has yet to handle
  mail,    \* the members with notifications yet to be sent in this pass
  changes, faults

passVars == <<want, seen, snap, configmeta, todo, mail>>
vars == <<spec, conns, stat, admitted, sset, orphans, pod, guest, phase, cr, want, seen, snap,
          configmeta, todo, mail, changes, faults>>

Status == [state : {"new", "creating", "updating", "configured"},
           gen   : Nat,               \* specGenerationToProcess
           hash  : Nat,               \* lastConnectionHash, 0 for the empty string
           name  : [Roles -> Nat],    \* the StatefulSet name, 0 for no role status
           mem   : [Roles -> [Ords -> Member]]]

StatefulSet == [name : Nat, replicas : Nat, live : BOOLEAN]

Phases == {"idle", "update", "members", "blocked", "notify", "deliver", "write"}

NoStates == [r \in Roles |-> [o \in Ords |-> "none"]]
NoSpec   == [r \in Roles |-> -1]

TypeOK ==
  /\ spec \in [Roles -> Want]
  /\ conns \in Nat
  /\ stat \in Status
  /\ admitted \in BOOLEAN
  /\ sset \in [Roles -> StatefulSet]
  /\ orphans \subseteq Roles \X Nat
  /\ pod \in [Roles -> [Ords -> Pod]]
  /\ guest \in [Roles -> [Ords -> Guest]]
  /\ phase \in Phases
  /\ cr \in Status
  /\ want \in [Roles -> Want]
  /\ seen \subseteq Roles
  /\ snap \in [Roles -> [Ords -> MemberState]]
  /\ configmeta \subseteq Node
  /\ todo \subseteq Roles
  /\ mail \subseteq Roles \X Ords
  /\ changes \in Nat
  /\ faults \in Nat

Init ==
  /\ spec = InitialSpec
  /\ conns = 1
  /\ stat = [state |-> "new", gen |-> 0, hash |-> 0, name |-> [r \in Roles |-> 0],
             mem |-> [r \in Roles |-> [o \in Ords |-> NoMember]]]
  /\ admitted = FALSE
  /\ sset = [r \in Roles |-> [name |-> 0, replicas |-> 0, live |-> FALSE]]
  /\ orphans = {}
  /\ pod = [r \in Roles |-> [o \in Ords |-> [phase |-> "absent", cid |-> 0]]]
  /\ guest = [r \in Roles |-> [o \in Ords |-> BlankGuest]]
  /\ phase = "idle"
  /\ cr = stat
  /\ want = NoSpec /\ seen = {} /\ snap = NoStates /\ configmeta = {}
  /\ todo = {} /\ mail = {}
  /\ changes = 0 /\ faults = 0

\* n more faults of this kind.
Fault(kind, n) ==
  /\ n > 0 => kind \in FaultKinds /\ faults + n <= MaxFaults
  /\ faults' = faults + n

\* The nodes the configmeta of this pass lists: those of roles in the spec.
Listed(st, wanted) ==
  UNION {{<<r, st.name[r], o>> : o \in With(st.mem[r], Requested)} :
           r \in {q \in Roles : wanted[q] >= 0}}

\* The in-memory state of a pass is gone.
PassOver ==
  /\ phase' = "idle"
  /\ want' = NoSpec /\ seen' = {} /\ snap' = NoStates /\ configmeta' = {}
  /\ todo' = {} /\ mail' = {}

\* The process dies.  For the next one, the status it finds is an admitted one.
ProcessDies ==
  /\ cr' = stat /\ admitted' = TRUE
  /\ PassOver
  /\ UNCHANGED <<spec, conns, stat, orphans, pod, guest, changes>>

-----------------------------------------------------------------------------
(* The start of a pass: containers, then roles. *)

Checked(r) == [o \in Ords |-> ContainerChecked(stat.mem[r][o], r, pod[r][o])]

Postponed == \E r \in Roles : With(Checked(r), {"creating"}) # {}

Found(r) == /\ stat.name[r] # 0
            /\ sset[r].live
            /\ sset[r].name = stat.name[r]

Desired(r) == IF spec[r] > 0 THEN spec[r] ELSE 0

\* The part each role is in for.
Creates(r) == /\ Desired(r) > 0
              /\ ~Found(r)
              /\ Pop(Checked(r)) = 0
Retires(r) == /\ stat.name[r] # 0
              /\ Desired(r) = 0
              /\ Pop(Checked(r)) = 0
Restores(r) == stat.name[r] # 0 /\ ~Found(r) /\ Pop(Checked(r)) > 0
Resizes(r) == Found(r) /\ ~Retires(r)

RoleMembers(r) ==
  CASE Creates(r)  -> Grown(Checked(r), Desired(r))
    [] Restores(r) -> AllStranded(Checked(r))
    [] Resizes(r)  -> Resized(Checked(r), Desired(r))
    [] OTHER       -> Checked(r)

RoleChanged_GrowOnly(r) ==
  Creates(r) \/ Restores(r) \/ (Resizes(r) /\ MustGrow(Checked(r), Desired(r)))

RoleChanged(r) ==
  \/ Creates(r)
  \/ Restores(r) /\ AllStranded(Checked(r)) # Checked(r)
  \/ Resizes(r) /\ \/ MustGrow(Checked(r), Desired(r))
                   \/ MustShrink(Checked(r), Desired(r))

RoleName(r) == IF Creates(r) THEN sset[r].name + 1
               ELSE IF Retires(r) THEN 0 ELSE stat.name[r]

RoleSset_Retained(r) == IF Creates(r)
                          THEN [name |-> sset[r].name + 1, replicas |-> 0, live |-> TRUE]
                        ELSE sset[r]

RoleSset(r) == IF Creates(r)
                 THEN [name |-> sset[r].name + 1, replicas |-> 0, live |-> TRUE]
               ELSE IF Retires(r) /\ Found(r) THEN [sset[r] EXCEPT !.live = FALSE]
               ELSE sset[r]

\* The status, with the roles of R synced.
Synced(R) ==
  [stat EXCEPT !.name = [r \in Roles |-> IF r \in R THEN RoleName(r) ELSE @[r]],
               !.mem  = [r \in Roles |-> IF r \in R THEN RoleMembers(r)
                                         ELSE Checked(r)]]

SyncedRoles == IF Postponed THEN {} ELSE Roles

Changed == \E r \in SyncedRoles : RoleChanged(r)

AllStable_Before == \A r \in Roles, o \in Ords : Stable(stat.mem[r][o], stat.gen)

AllStable == /\ ~Postponed /\ ~Changed
             /\ \A r \in Roles, o \in Ords : Stable(RoleMembers(r)[o], stat.gen)

\* The generation moves with the member lists and with the connections.
NextGen == IF Changed \/ conns # stat.hash THEN stat.gen + 1 ELSE stat.gen

\* The pods of a new StatefulSet are not those of the one before it.
Created   == {r \in Roles : Creates(r)}
NoPods(r) == [o \in Ords |-> [pod[r][o] EXCEPT !.phase = "absent"]]
NoGuests  == [o \in Ords |-> BlankGuest]

States(st) == [r \in Roles |-> [o \in Ords |-> st.mem[r][o].state]]

\* What the pass goes by from here on is what the sync of the roles has found.
StartPass(R) ==
  /\ want' = spec
  /\ snap' = States(Synced(R))
  /\ configmeta' = Listed(Synced(R), spec)
  /\ sset' = [r \in Roles |-> IF r \in R THEN RoleSset(r) ELSE sset[r]]
  /\ seen' = {r \in Roles : Found(r) \/ r \in R \cap Created}
  /\ orphans' = orphans \cup {<<r, sset[r].name>> : r \in {q \in R \cap Created : sset[q].live}}
  /\ pod' = [r \in Roles |-> IF r \in R \cap Created THEN NoPods(r) ELSE pod[r]]
  /\ guest' = [r \in Roles |-> IF r \in R \cap Created THEN NoGuests ELSE guest[r]]
  /\ UNCHANGED <<spec, conns, stat, todo, mail, changes>>

\* The first pass over a new cluster only marks it as being created.
FirstPass ==
  /\ phase = "idle" /\ stat.state = "new"
  /\ cr' = [stat EXCEPT !.state = "creating"]
  /\ phase' = "notify"
  /\ want' = spec
  /\ UNCHANGED <<spec, conns, stat, admitted, sset, orphans, pod, guest, seen, snap, configmeta,
                 todo, mail, changes, faults>>

\* The annotation that counts the connections' changes is updated on the way, but
\* the update is refused or brings back nothing else.
BeginPass ==
  /\ phase = "idle" /\ stat.state # "new"
  /\ StartPass(SyncedRoles)
  /\ cr' = [Synced(SyncedRoles) EXCEPT
              !.gen = NextGen, !.hash = conns,
              !.state = IF AllStable THEN "configured"
                        ELSE IF @ = "creating" THEN @ ELSE "updating"]
  /\ phase' = IF AllStable THEN "notify" ELSE "update"
  /\ UNCHANGED <<admitted, faults>>

\* That update is accepted, and its reply puts the stored status in place of the
\* one in memory: what was synced remains only in what the pass goes by.  The
\* webhook sees the changed status in the update, and so refuses a second one.
BeginPassOverwritten ==
  /\ phase = "idle" /\ stat.state # "new" /\ ~admitted /\ conns # stat.hash
  /\ Synced(SyncedRoles) # stat
  /\ StartPass(SyncedRoles)
  /\ admitted' = TRUE
  /\ \/ /\ cr' = [stat EXCEPT !.gen = NextGen, !.hash = conns,
                     !.state = IF AllStable THEN "configured"
                               ELSE IF @ = "creating" THEN @ ELSE "updating"]
        /\ phase' = IF AllStable THEN "notify" ELSE "update"
        /\ UNCHANGED faults
     \/ /\ cr' = [stat EXCEPT !.gen = NextGen, !.hash = conns]
        /\ phase' = "notify"
        /\ Fault("api", 1)

\* The cluster service cannot be had, or a StatefulSet not be looked up: the pass
\* ends with nothing but the containers checked.
BeginPassNoCluster ==
  /\ phase = "idle" /\ stat.state # "new"
  /\ StartPass({})
  /\ cr' = Synced({})
  /\ phase' = "notify"
  /\ Fault("api", 1)
  /\ UNCHANGED admitted

\* A StatefulSet cannot be created: the pass ends with some of the other roles
\* synced and without reaching the generation change.
BeginPassNoSset ==
  /\ phase = "idle" /\ stat.state # "new" /\ ~Postponed
  /\ \E f \in Roles : \E R \in SUBSET (Roles \ {f}) :
       /\ Creates(f)
       /\ StartPass(R)
       /\ cr' = Synced(R)
  /\ phase' = "notify"
  /\ Fault("api", 1)
  /\ UNCHANGED admitted

\* A member service cannot be created: the pass ends after the generation
\* change, before the members are looked at.
BeginPassNoService ==
  /\ phase = "idle" /\ stat.state # "new"
  /\ StartPass(SyncedRoles)
  /\ cr' = [Synced(SyncedRoles) EXCEPT !.gen = NextGen, !.hash = conns]
  /\ phase' = "notify"
  /\ Fault("api", 1)
  /\ UNCHANGED admitted

-----------------------------------------------------------------------------
(* The member pass. *)

\* The ready members whose configmeta is out of date.
Outdated == {i \in Roles \X Ords :
               /\ snap[i[1]][i[2]] = "ready"
               /\ cr.mem[i[1]][i[2]].cfg \notin {0, cr.gen}}

In(r, S) == {o \in Ords : snap[r][o] \in S}

Busy(states) == {r \in Roles : In(r, states) # {}}

\* handleReadyMembers for every role (a late failure is that of the reconnect
\* script, with the new configmeta in place), and the decision whether the pass may go
\* on or only checks on configurations that are under way.
UpdateReadyMembers ==
  /\ phase = "update"
  /\ LET reachable == {i \in Outdated :
                        Reaches(pod[i[1]][i[2]], cr.mem[i[1]][i[2]].conf)}
     IN  \E failing \in SUBSET reachable : \E late \in SUBSET failing :
       LET updated == reachable \ failing
           mem == [r \in Roles |-> [o \in Ords |->
                     IF <<r, o>> \in updated
                       THEN [cr.mem[r][o] EXCEPT !.cfg = cr.gen]
                       ELSE cr.mem[r][o]]]
           onward == \A r \in Roles, o \in Ords : GenOk(snap[r][o], mem[r][o], cr.gen)
           rest == IF onward
                     THEN Busy({"createPending", "creating", "deletePending", "deleting"})
                     ELSE Busy({"creating"})
       IN  /\ Fault("exec", Cardinality(failing))
           /\ cr' = [cr EXCEPT !.mem = mem]
           /\ guest' = [r \in Roles |-> [o \in Ords |->
                          IF <<r, o>> \in updated \cup late
                            THEN [guest[r][o] EXCEPT !.meta = configmeta]
                            ELSE guest[r][o]]]
           /\ todo' = rest
           /\ phase' = IF rest = {} THEN "notify"
                       ELSE IF onward THEN "members" ELSE "blocked"
  /\ UNCHANGED <<spec, conns, stat, admitted, sset, orphans, pod, want, seen, snap, configmeta,
                 mail, changes>>

\* checkMemberCount, for the handlers of members that come and go.
NeedsCount(r) ==
  phase = "members" /\ (In(r, {"createPending"}) # {} \/
                        (r \in seen /\ In(r, {"deletePending", "deleting"}) # {}))
CountOk(r) == sset[r].replicas = Cardinality(In(r, Requested))
Recounted_Ready(r) ==
  IF NeedsCount(r) /\ sset[r].live
    THEN [sset EXCEPT ![r].replicas = Cardinality(In(r, {"ready", "createPending"}))]
    ELSE sset

Recounted_Wanted(r) ==
  IF NeedsCount(r) /\ sset[r].live THEN [sset EXCEPT ![r].replicas = want[r]] ELSE sset

Recounted(r) ==
  IF NeedsCount(r) /\ ~CountOk(r) /\ sset[r].live
    THEN [sset EXCEPT ![r].replicas = Cardinality(In(r, Requested))] ELSE sset

ReplicasSynced(r) ==
  \A o \in Ords : o >= sset[r].replicas => pod[r][o].phase = "absent"

\* handleCreatePendingMembers: a running container lets the member go on.
Launched(r, o) ==
  IF /\ CountOk(r) /\ ReplicasSynced(r) /\ pod[r][o].phase = "up"
     /\ cr.mem[r][o].state # "none"
    THEN [cr.mem[r][o] EXCEPT !.state = "creating", !.cing = pod[r][o].cid]
    ELSE cr.mem[r][o]

\* handleCreatingMembers up to the notifications, with a fault per member.
Setup(r, o, fault) ==
  IF r \in Packaged
    THEN Configured(cr.mem[r][o], r, pod[r][o], guest[r][o], cr.gen,
                    phase = "members", fault)
    ELSE Unpackaged(cr.mem[r][o], fault)

\* The pod is gone, as far as handleDeletingMembers can tell.
PodGone(r, o) ==
  pod[r][o].phase = "absent" /\ ~(sset[r].live /\ o < sset[r].replicas)

Removed_Early(r, o, cleaned) ==
  [cr.mem[r][o] EXCEPT !.state = IF PodGone(r, o) THEN "gone"
                                 ELSE IF snap[r][o] = "deletePending" THEN "deleting"
                                 ELSE @]

\* handleDeletePendingMembers and handleDeletingMembers; cleaned are those
\* whose service and volume claim could be deleted.
Removed(r, o, cleaned) ==
  [cr.mem[r][o] EXCEPT !.state = IF o \in cleaned THEN "gone"
                                 ELSE IF snap[r][o] = "deletePending" THEN "deleting"
                                 ELSE @]

\* A count put right for the sake of the pending members is not seen to be wrong
\* by the handler of the deleting ones.
Cleanable(r) ==
  IF r \in seen /\ ~CountOk(r) /\ In(r, {"createPending"}) = {} THEN {}
  ELSE {o \in In(r, {"deletePending", "deleting"}) : PodGone(r, o)}

\* The members that role r's handling has news about.
Arrived(r, new) ==
  {o \in In(r, {"creating"}) : new[o].state # "creating" /\ new[o].conf = 0}

\* The members on their way out that fqdnsList has in its list.
Departed(r) ==
  {o \in In(r, {"deletePending"}) :
     cr.mem[r][o].state = "deletePending" \/ cr.mem[r][o].conf = 0}

\* generateNotifies and queueNotify: who gets the command, and how it is
\* queued.  A role with creating members only ever reports additions.
Informs(q, m, listedAs) ==
  /\ q \in Packaged
  /\ listedAs \in {"ready", "createPending", "creating"}
  /\ m.setup \notin {0, cr.gen}

Queued(q, m, listedAs, op, nodes) ==
  IF nodes # {} /\ Informs(q, m, listedAs) /\ op \in EventList[q]
    THEN [m EXCEPT !.pend = Append(@, [op |-> op, nodes |-> nodes])] ELSE m

Named(r, S) == {<<r, cr.name[r], o>> : o \in S}

\* A nil StatefulSet is dereferenced by the pass itself, a nil role spec by the
\* goroutine of a member.
Panics(r) == phase = "members" /\ In(r, {"createPending"}) # {} /\ r \notin seen
Dies(r) == In(r, {"creating"}) # {} /\ want[r] = -1 /\ ~Panics(r)

FaultChoices(r) ==
  {f \in [Ords -> {"none", "early", "late"}] :
     \A o \in Ords : f[o] # "none" => o \in In(r, {"creating"})}

HandleRole(r) ==
  /\ phase \in {"members", "blocked"} /\ r \in todo /\ ~Panics(r) /\ ~Dies(r)
  /\ \E f \in FaultChoices(r), cleaned \in SUBSET Cleanable(r) :
     LET creating == In(r, {"creating"})
         set == [o \in Ords |->
                   IF o \in creating THEN Setup(r, o, f[o])
                   ELSE IF phase = "blocked" THEN cr.mem[r][o]
                   ELSE IF snap[r][o] = "createPending" THEN Launched(r, o)
                   ELSE IF snap[r][o] \in {"deletePending", "deleting"}
                     THEN Removed(r, o, cleaned)
                   ELSE cr.mem[r][o]]
         added   == Named(r, Arrived(r, set))
         dropped == IF phase = "members" /\ creating = {} THEN Named(r, Departed(r)) ELSE {}
         op      == IF creating # {} THEN "addnodes" ELSE "delnodes"
         upload(o) == /\ o \in creating /\ r \in Packaged
                      /\ Uploads(cr.mem[r][o], pod[r][o], guest[r][o],
                                 phase = "members", f[o])
     IN  /\ phase = "blocked" => cleaned = {}
         /\ Fault("exec", Cardinality({o \in Ords : f[o] # "none"})
                          + Cardinality(Cleanable(r) \ cleaned))
         /\ cr' = [cr EXCEPT !.mem = [q \in Roles |-> [o \in Ords |->
                LET m == IF q = r THEN set[o] ELSE cr.mem[q][o]
                    told == Queued(q, m, snap[q][o], op, added \cup dropped)
                IN  IF q = r /\ o \in creating THEN Concluded(told) ELSE told]]]
         /\ guest' = [guest EXCEPT ![r] = [o \in Ords |->
                IF upload(o)
                  THEN AfterUpload(@[o], cr.mem[r][o], configmeta,
                                   f[o] = "none" /\ r \in Scripted)
                ELSE IF o \in cleaned THEN BlankGuest ELSE @[o]]]
  /\ sset' = Recounted(r)
  /\ todo' = todo \ {r}
  /\ phase' = IF todo = {r} THEN "notify" ELSE phase
  /\ UNCHANGED <<spec, conns, stat, admitted, orphans, pod, want, seen, snap, configmeta, mail,
                 changes>>

\* The pass panics, which still runs its deferred function before the process dies.
PanicInRole(r) ==
  /\ phase \in {"members", "blocked"} /\ r \in todo /\ Panics(r)
  /\ phase' = "notify"
  /\ UNCHANGED <<spec, conns, stat, admitted, sset, orphans, pod, guest, cr, passVars, changes,
                 faults>>

\* A goroutine panics and the process dies at once; the replicas may have been
\* adjusted before.
DiesInRole(r) ==
  /\ phase \in {"members", "blocked"} /\ r \in todo /\ Dies(r)
  /\ sset' = IF r \in seen THEN Recounted(r) ELSE sset
  /\ ProcessDies
  /\ UNCHANGED faults

-----------------------------------------------------------------------------
(* The end of a pass: notifications, then the status write. *)

Transitional_Leaving ==
  \E r \in Roles : With(cr.mem[r], {"deletePending", "deleting"}) # {}

Transitional ==
  \E r \in Roles : With(cr.mem[r], MemberState \ {"none", "ready", "configError"}) # {}

\* Ready members with nothing queued are brought up to date unless some other
\* member may still give rise to a notification.
StartNotify ==
  /\ phase = "notify"
  /\ cr' = [cr EXCEPT !.mem = [r \in Roles |-> [o \in Ords |->
              LET m == cr.mem[r][o]
              IN  IF m.state = "ready" /\ m.pend = NoNotify /\ m.setup # 0 /\ ~Transitional
                    THEN [m EXCEPT !.setup = m.cfg] ELSE m]]]
  /\ mail' = {i \in Roles \X Ords :
                LET m == cr.mem[i[1]][i[2]] IN m.state = "ready" /\ m.pend # NoNotify}
  /\ phase' = IF mail' = {} THEN "write" ELSE "deliver"
  /\ UNCHANGED <<spec, conns, stat, admitted, sset, orphans, pod, guest, want, seen, snap,
                 configmeta, todo, changes, faults>>

\* The goroutine of one member: every command is tried, the failed ones are
\* kept in order.
Deliver(r, o) ==
  LET m == cr.mem[r][o]
      all == DOMAIN m.pend
  IN
  /\ phase = "deliver" /\ <<r, o>> \in mail
  /\ \E kept \in SUBSET all : \E s \in [1 .. Cardinality(kept) -> kept] :
       /\ \A i, j \in DOMAIN s : i < j => s[i] < s[j]
       /\ IF Reaches(pod[r][o], m.conf)
            THEN Fault("exec", Cardinality(kept))
            ELSE kept = all /\ UNCHANGED faults
       /\ cr' = [cr EXCEPT !.mem[r][o] =
                   [m EXCEPT !.pend = [i \in DOMAIN s |-> m.pend[s[i]]],
                             !.setup = IF kept # all /\ ~Transitional THEN m.cfg ELSE @]]
       /\ guest' = [guest EXCEPT ![r][o].view = Told(@, m.pend, all \ kept)]
  /\ mail' = mail \ {<<r, o>>}
  /\ phase' = IF mail' = {} THEN "write" ELSE phase
  /\ UNCHANGED <<spec, conns, stat, admitted, sset, orphans, pod, want, seen, snap, configmeta,
                 todo, changes>>

\* Members and roles marked for removal are dropped from the status.  The first
\* write is followed by that of the finalizer, which the webhook admits, and a pass
\* that panicked (with roles left to handle) by a restart.  A write may also be due
\* to the status backup alone.
WriteStatus ==
  /\ phase = "write"
  /\ stat' = [cr EXCEPT !.mem = [r \in Roles |->
                IF cr.name[r] = 0 THEN [o \in Ords |-> NoMember]
                                  ELSE Compacted(cr.mem[r])]]
  /\ admitted' = (stat.state = "new" \/ todo # {})
  /\ cr' = stat'
  /\ PassOver
  /\ UNCHANGED <<spec, conns, sset, orphans, pod, guest, changes, faults>>

\* KubeDirector restarts in the middle of a pass.
Crash ==
  /\ phase # "idle"
  /\ Fault("crash", 1)
  /\ ProcessDies
  /\ UNCHANGED sset

-----------------------------------------------------------------------------
(* Users, Kubernetes and guests. *)

NoPendingNotifies == \A r \in Roles, o \in Ords : stat.mem[r][o].pend = NoNotify

\* An admitted change of one role's member count.  A role taken out of the
\* spec may come back only when its status is gone.
ChangeSpec(r, n) ==
  /\ changes < MaxChanges
  /\ <<spec[r], n>> \in SpecMoves
  /\ stat.state # "new"
  /\ NoPendingNotifies
  /\ spec[r] = -1 => stat.name[r] = 0
  /\ spec' = [spec EXCEPT ![r] = n]
  /\ changes' = changes + 1
  /\ admitted' = TRUE
  /\ UNCHANGED <<conns, stat, sset, orphans, pod, guest, phase, cr, passVars, faults>>

\* A connected cluster, config map or secret changes, or the list of them.
ChangeConnections ==
  /\ conns <= MaxConnects
  /\ conns' = conns + 1
  /\ UNCHANGED <<spec, stat, admitted, sset, orphans, pod, guest, phase, cr, passVars,
                 changes, faults>>

EnvStep == UNCHANGED <<spec, conns, stat, admitted, orphans, phase, cr, passVars, changes>>

Kept(r, o) == IF r \in Persistent THEN guest
              ELSE [guest EXCEPT ![r][o] = BlankGuest]

PodStart(r, o) ==
  /\ sset[r].live /\ o < sset[r].replicas /\ pod[r][o].phase # "up"
  /\ pod' = [pod EXCEPT ![r][o] = [phase |-> "up", cid |-> @.cid + 1]]
  /\ UNCHANGED <<sset, guest, faults>> /\ EnvStep

PodStop(r, o) ==
  /\ ~(sset[r].live /\ o < sset[r].replicas) /\ pod[r][o].phase # "absent"
  /\ pod' = [pod EXCEPT ![r][o].phase = "absent"]
  /\ guest' = Kept(r, o)
  /\ UNCHANGED <<sset, faults>> /\ EnvStep

\* The pod is deleted or its container dies.
PodRestart(r, o, how) ==
  /\ pod[r][o].phase = "up"
  /\ Fault("restart", 1)
  /\ pod' = [pod EXCEPT ![r][o].phase = how]
  /\ guest' = Kept(r, o)
  /\ UNCHANGED sset /\ EnvStep

SsetDelete(r) ==
  /\ sset[r].live
  /\ Fault("ssetDelete", 1)
  /\ sset' = [sset EXCEPT ![r].live = FALSE]
  /\ UNCHANGED <<pod, guest>> /\ EnvStep

\* The configure script ends.
ScriptEnds(r, o, ok) ==
  /\ pod[r][o].phase = "up"
  /\ guest[r][o].file = "running" /\ guest[r][o].fcid = pod[r][o].cid
  /\ Fault("script", IF ok THEN 0 ELSE 1)
  /\ guest' = [guest EXCEPT ![r][o] = Ended(@, ok)]
  /\ UNCHANGED <<sset, pod>> /\ EnvStep

-----------------------------------------------------------------------------

Reconcile ==
  \/ FirstPass \/ BeginPass \/ BeginPassOverwritten
  \/ BeginPassNoCluster \/ BeginPassNoSset \/ BeginPassNoService
  \/ UpdateReadyMembers
  \/ \E r \in Roles : HandleRole(r) \/ PanicInRole(r) \/ DiesInRole(r)
  \/ StartNotify
  \/ \E r \in Roles, o \in Ords : Deliver(r, o)
  \/ WriteStatus \/ Crash

Environment ==
  \/ \E r \in Roles, n \in Want : ChangeSpec(r, n)
  \/ ChangeConnections
  \/ \E r \in Roles, o \in Ords :
       \/ PodStart(r, o) \/ PodStop(r, o)
       \/ \E how \in {"absent", "down"} : PodRestart(r, o, how)
       \/ \E ok \in BOOLEAN : ScriptEnds(r, o, ok)
  \/ \E r \in Roles : SsetDelete(r)

Next == Reconcile \/ Environment

Spec == Init /\ [][Next]_vars

(***************************************************************************)
(* Fairness: a pass is run every reconcilePeriod and each of its steps     *)
(* returns; Kubernetes starts and stops the pods it is asked to; a         *)
(* configure script ends.  Nothing forces users to act or faults to occur. *)
(***************************************************************************)
Fairness ==
  /\ WF_vars(FirstPass) /\ WF_vars(BeginPass) /\ WF_vars(UpdateReadyMembers)
  /\ \A r \in Roles : WF_vars(HandleRole(r) \/ PanicInRole(r) \/ DiesInRole(r))
  /\ WF_vars(StartNotify) /\ WF_vars(WriteStatus)
  /\ \A r \in Roles, o \in Ords :
       /\ WF_vars(Deliver(r, o))
       /\ WF_vars(PodStart(r, o)) /\ WF_vars(PodStop(r, o))
       /\ WF_vars(ScriptEnds(r, o, TRUE))

FairSpec == Spec /\ Fairness

=============================================================================
