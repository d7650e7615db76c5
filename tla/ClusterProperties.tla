-------------------------- MODULE ClusterProperties --------------------------
(***************************************************************************)
(* What the reconciler of ClusterReconciler.tla should keep: the status    *)
(* bookkeeping, the pods and disks, what the app instances are told, and   *)
(* that it gets there.                                                     *)
(***************************************************************************)
EXTENDS ClusterReconciler

-----------------------------------------------------------------------------
(* Bookkeeping in the status. *)

\* The generations a member has been taken to never run ahead: its setup script
\* has processed at most the configmeta it was given, which is at most that of
\* the generation to process.  The tests for equality in checkGenOk,
\* handleReadyMembers and generateNotifies mean "up to date" only because of it.
Ordered(m, gen) == m.setup <= m.cfg /\ m.cfg <= gen

GenerationsOrdered ==
  \A st \in {stat, cr} : \A r \in Roles, o \in Ords : Ordered(st.mem[r][o], st.gen)

\* The members a role keeps are the first ones of its StatefulSet: replicas can
\* only cut or grow the end of the pod list, so that a gap in the list left by
\* deleteMemberStatuses or compactMembers would cost a member its pod.
RequestedPrefix ==
  \A st \in {stat, cr} : \A r \in Roles :
    \A o \in With(st.mem[r], Requested) : \A p \in Ords :
      p < o => p \in With(st.mem[r], Requested)

\* A status write that adds members or takes some out of service raises the
\* generation, without which nobody would be told (syncCluster says why it
\* raises it at once).
Joined(r) == {o \in Present(stat'.mem[r]) : stat.mem[r][o].state = "none"}
Left(r)   == With(stat.mem[r], Requested) \ With(stat'.mem[r], Requested)

GenMovesWithMembers ==
  [][(\E r \in Roles : Joined(r) \cup Left(r) # {}) => stat'.gen > stat.gen]_stat

\* The status turns to configured only when no member has anything left to
\* process.
ConfiguredMeansDone ==
  [][stat'.state = "configured" /\ stat.state # "configured" =>
       \A r \in Roles, o \in Ords : Stable(stat'.mem[r][o], stat'.gen)]_stat

\* The member lists act as MemberList has it: whatever users ask for in the meantime
\* and whichever pods or StatefulSets go, a member on its way out is not brought back
\* (handleRoleResize: "we can't use expand to rescue a member that is currently being
\* deleted"), and its successor of the same name waits for all of them to be gone.
Lists == INSTANCE MemberList WITH
  inService <- [r \in Roles |-> With(stat.mem[r], Requested)],
  leaving   <- [r \in Roles |-> With(stat.mem[r], {"deletePending", "deleting", "gone"})]

ActsAsMemberList == Lists!ListSpec

\* Every configured member of a role with a setup package is given new configmeta,
\* and those whose script is run are the ones that notifications are meant for.
ReadyIsTracked ==
  \A r \in Packaged, o \in Ords :
    stat.mem[r][o].state = "ready" =>
      /\ stat.mem[r][o].cfg # 0
      /\ stat.mem[r][o].setup # 0 <=> "configure" \in EventList[r]

-----------------------------------------------------------------------------
(* Pods and volumes. *)

\* Setting the replicas of a StatefulSet takes no pod from a member that the
\* status still counts on.
ScaleDownSparesMembers ==
  [][\A r \in Roles :
       sset'[r].name = sset[r].name =>
         \A o \in Ords : sset'[r].replicas <= o /\ o < sset[r].replicas =>
           cr'.mem[r][o].state \notin Requested]_sset

\* The configure script is started at most once in a container.
StartsScript(r, o) ==
  /\ phase = "members" /\ phase' # "idle" /\ r \in todo \ todo' /\ faults' = faults
  /\ r \in Scripted /\ snap[r][o] = "creating"
  /\ Uploads(cr.mem[r][o], pod[r][o], guest[r][o], TRUE, "none")

ConfigureOncePerContainer ==
  [][\A r \in Roles, o \in Ords :
       StartsScript(r, o) => guest[r][o].file = "none"
                             \/ guest[r][o].fcid # cr.mem[r][o].cing]_todo

\* A member that never completed its setup is not judged by what an earlier
\* container left on the volume: the setup script is run again.
RetryFromScratch ==
  [][\A r \in Scripted, o \in Ords :
       /\ cr.mem[r][o].state = "creating" /\ cr.mem[r][o].setup = 0
       /\ cr'.mem[r][o].state \in {"ready", "configError"}
       /\ Reaches(pod[r][o], cr.mem[r][o].cing) /\ faults' = faults
       => guest[r][o].fcid = cr.mem[r][o].cing]_cr

\* A member that starts from nothing finds nothing of a predecessor of the same
\* name on its volume.
FreshMemberFreshDisk ==
  \A r \in Roles, o \in Ords :
    stat.mem[r][o].state = "createPending" /\ stat.mem[r][o].conf = 0 =>
      guest[r][o].file = "none"

-----------------------------------------------------------------------------
(* A cluster at rest. *)

\* The status says configured and matches the spec and the connections, and the
\* containers are those the status knows.
Settled ==
  /\ stat.state = "configured" /\ stat.hash = conns
  /\ \A r \in Roles :
       LET ms == stat.mem[r]
           n  == IF spec[r] > 0 THEN spec[r] ELSE 0
       IN  /\ Present(ms) = With(ms, {"ready", "configError"})
           /\ Present(ms) = 0 .. (n - 1)
           /\ (n = 0) <=> (stat.name[r] = 0)
           /\ \A o \in Present(ms) :
                /\ Stable(ms[o], stat.gen)
                /\ pod[r][o] = [phase |-> "up", cid |-> ms[o].conf]

AtRest == phase = "idle" /\ Settled

Instances == {i \in Packaged \X Ords : stat.mem[i[1]][i[2]].state = "ready"}

\* At rest the StatefulSets there are are those the status names.
RestingSsets ==
  AtRest => /\ orphans = {}
            /\ \A r \in Roles : sset[r].live => sset[r].name = stat.name[r]

\* At rest the configmeta of every ready member lists exactly the members.
RestingMeta ==
  AtRest => \A i \in Instances : guest[i[1]][i[2]].meta = Listed(stat, spec)

\* At rest a ready app instance that is set up and asks to be told of new members
\* has been told of all of them ...
RestingViewsComplete ==
  AtRest => \A i \in Instances :
    {"configure", "addnodes"} \subseteq EventList[i[1]] =>
      Listed(stat, spec) \subseteq guest[i[1]][i[2]].view

\* ... and if it asks to be told of departures as well, knows of no others.
RestingViews ==
  AtRest => \A i \in Instances :
    EventList[i[1]] = Events => Listed(stat, spec) = guest[i[1]][i[2]].view

-----------------------------------------------------------------------------
(* Progress. *)

\* When users and faults stop interfering, the cluster comes to rest.
Converges == <>[]Settled

=============================================================================
