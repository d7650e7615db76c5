---------------------------- MODULE MemberStatus ----------------------------
(***************************************************************************)
(* The member-level vocabulary of the cluster reconciler: what the status  *)
(* stanza records of one member, what Kubernetes and the guest file system *)
(* hold for its pod, and the pure functions the reconciler applies to one  *)
(* member or to the member list of one role.  ClusterReconciler.tla builds *)
(* the reconciler's passes from them.                                      *)
(*                                                                         *)
(* A role's member list is a function on ordinals.  The list index of a    *)
(* member is the number of members with a smaller ordinal: the list is     *)
(* only appended to (addMemberStatuses) and compacted in order             *)
(* (compactMembers).  Container IDs are numbers, 0 standing for the empty  *)
(* string; generation numbers are positive once a member has been given    *)
(* one, 0 standing for a nil pointer.                                      *)
(*                                                                         *)
(* A definition named X_Y is a mutant of X: the slip Y in the code that it *)
(* stands for must make a property fail.                                   *)
(***************************************************************************)
EXTENDS Integers, Sequences, FiniteSets

CONSTANTS
  Roles,        \* the role names of the app definition
  MaxMembers,   \* the largest member count a role may be given
  Packaged,     \* the roles whose app definition has a setup package
  EventList,    \* the events each role asks its setup script to be run for
  Persistent    \* the roles whose spec asks for persistent storage

ASSUME RolesAssumption == IsFiniteSet(Roles)
ASSUME MaxMembersAssumption == MaxMembers \in Nat \ {0}
ASSUME RoleKindsAssumption == Packaged \subseteq Roles /\ Persistent \subseteq Roles

\* An app role without an event list asks for all of them.
Events == {"configure", "addnodes", "delnodes"}
ASSUME EventListAssumption == EventList \in [Roles -> SUBSET Events]

Scripted_Unlisted == Packaged

\* The roles whose members run the configure script.
Scripted == {r \in Packaged : "configure" \in EventList[r]}

Ords == 0 .. (MaxMembers - 1)

(***************************************************************************)
(* A node is what an FQDN names: the pod with this ordinal of the          *)
(* StatefulSet with this (generated, hence never reused) name.             *)
(***************************************************************************)
Node == Roles \X Nat \X Ords

MemberState == {"none", "createPending", "creating", "ready", "configError",
                "deletePending", "deleting", "gone"}

\* The members that count toward the replicas of the role's StatefulSet.
Requested == {"createPending", "creating", "ready", "configError"}

\* A queued lifecycle event for the startscript of one member.
Notify == [op : {"addnodes", "delnodes"}, nodes : SUBSET Node]
NoNotify == << >>

\* "none": no such element in the list; "gone": Pod is the empty string, to be
\* dropped when the status is compacted.
Member == [state : MemberState,
           conf  : Nat,      \* lastConfiguredContainer
           cing  : Nat,      \* configuringContainer
           cfg   : Nat,      \* lastConfigDataGeneration
           setup : Nat,      \* lastSetupGeneration
           err   : BOOLEAN,  \* configErrorDetail is not nil
           pend  : Seq(Notify)]

NoMember == [state |-> "none", conf |-> 0, cing |-> 0, cfg |-> 0, setup |-> 0,
             err |-> FALSE, pend |-> NoNotify]

NewMember == [NoMember EXCEPT !.state = "createPending"]

(***************************************************************************)
(* A pod as Kubernetes shows it: "down" is a container that terminated and *)
(* still shows its old ID; cid is the ID of the latest container.          *)
(***************************************************************************)
Pod == [phase : {"absent", "down", "up"}, cid : Nat]

ContainerID(p) == IF p.phase = "absent" THEN 0 ELSE p.cid

\* Commands run in the pod only if it still has the expected container.
Reaches(p, expected) == p.phase = "up" /\ p.cid = expected

(***************************************************************************)
(* What a member's file system and app hold: the configure.status file     *)
(* (the container that ran the script and how the script ended), the nodes *)
(* listed in configmeta.json, and the nodes the app has been set up with.  *)
(***************************************************************************)
Guest == [file : {"none", "running", "ok", "fail"}, fcid : Nat,
          meta : SUBSET Node, view : SUBSET Node]

BlankGuest == [file |-> "none", fcid |-> 0, meta |-> {}, view |-> {}]

-----------------------------------------------------------------------------
(* One member. *)

ContainerChecked_KeepsGens(m, r, p) ==
  IF m.state \in {"ready", "configError"} /\ ContainerID(p) # m.conf
    THEN [m EXCEPT !.state = "createPending"] ELSE m

ContainerChecked_KeepsSetup(m, r, p) ==
  IF m.state \in {"ready", "configError"} /\ ContainerID(p) # m.conf
    THEN [m EXCEPT !.state = "createPending", !.cfg = 0] ELSE m

ContainerChecked_AnyState(m, r, p) ==
  IF m.conf # 0 /\ ContainerID(p) # m.conf
    THEN [m EXCEPT !.state = "createPending", !.cfg = 0, !.setup = 0] ELSE m

\* The container check: a member whose container was replaced starts over,
\* and without persistent storage everything uploaded to it is forgotten.
ContainerChecked(m, r, p) ==
  IF m.state \in {"ready", "configError"} /\ ContainerID(p) # m.conf
    THEN IF r \in Persistent
           THEN [m EXCEPT !.state = "createPending"]
           ELSE [m EXCEPT !.state = "createPending", !.cfg = 0, !.setup = 0,
                          !.pend = NoNotify]
    ELSE m

\* Shrinking a role: the fate of a member beyond the desired count.
Dropped(m) ==
  [m EXCEPT !.state = CASE @ = "createPending" -> "deleting"
                        [] @ \in {"ready", "configError"} -> "deletePending"
                        [] OTHER -> @]

\* A StatefulSet that went missing: the fate of each member it had.
Stranded(m) ==
  [m EXCEPT !.state = CASE @ = "none" -> "none"
                        [] @ \in {"ready", "configError", "deletePending"}
                             -> "deletePending"
                        [] OTHER -> "deleting"]

\* Whether a member lets the cluster be called stable.
Stable(m, gen) ==
  \/ m.state \in {"none", "configError"}
  \/ m.state = "ready" /\ m.setup \in {0, gen} /\ m.pend = NoNotify

\* Whether a member's configmeta is that of this generation, if it has any.
GenOk(listedAs, m, gen) ==
  listedAs \in {"ready", "createPending", "creating"} => m.cfg \in {0, gen}

Failed(m) == [m EXCEPT !.state = "configError", !.err = TRUE]

\* Setup retried after a config error forgets what the failed one left.
Retried(m) == IF m.err THEN [m EXCEPT !.err = FALSE, !.setup = 0, !.pend = NoNotify]
                       ELSE m

Settles_OnRetry(m, g) == g.file # "none" /\ ~(g.file = "running" /\ g.fcid # m.cing)

Settles_WhenOver(m, g) == ~m.err /\ g.file \in {"ok", "fail"}

\* The status file in the guest settles the matter: there is one, a retry
\* does not skip it, and it is not that of an interrupted run.
Settles(m, g) ==
  ~m.err /\ g.file # "none" /\ ~(g.file = "running" /\ g.fcid # m.cing)

CaughtUp_PendOnly(m, g) == IF g.fcid = m.cing THEN [m EXCEPT !.pend = NoNotify] ELSE m

\* A script run in this very container has processed the configmeta there, which
\* makes the queued notifications moot.
CaughtUp(m, g) ==
  IF g.fcid = m.cing THEN [m EXCEPT !.setup = m.cfg, !.pend = NoNotify] ELSE m

\* The outcome the status file tells of.  After a script run in an earlier
\* container the links are redone, which may fail.
Reread(m, g, fault) ==
  CASE g.file = "running" -> m
    [] g.file = "ok" /\ (g.fcid = m.cing \/ fault = "none") ->
         [CaughtUp(m, g) EXCEPT !.state = "ready"]
    [] OTHER -> Failed(CaughtUp(m, g))

\* Whether this pass uploads configmeta to the member: only while the new
\* configmeta may be handed out (push).  A fault is an exec that fails before
\* the upload ("early") or after it ("late").
Uploads(m, p, g, push, fault) ==
  push /\ Reaches(p, m.cing) /\ fault # "early" /\ ~Settles(m, g)

\* The initial configuration of a creating member of a role with a package.  If
\* the role does not list "configure" the upload is all there is to it, and the
\* setup generation stays nil.
Configured(m, r, p, g, gen, push, fault) ==
  LET pushed == [Retried(m) EXCEPT !.cfg = gen]
      reached == Reaches(p, m.cing) /\ fault # "early"
  IN  CASE reached /\ Settles(m, g) -> Reread(m, g, fault)
        [] Uploads(m, p, g, push, fault) ->
             IF fault = "late" THEN Failed(pushed)
             ELSE IF r \in Scripted THEN pushed
             ELSE [pushed EXCEPT !.state = "ready"]
        [] ~reached /\ (push \/ ~m.err) -> Failed(Retried(m))
        [] OTHER -> Retried(m)

\* ... and of a role without one, where only file injection can fail.
Unpackaged(m, fault) ==
  IF fault # "none" THEN Failed(m)
  ELSE [m EXCEPT !.state = "ready", !.err = FALSE]

\* After a member left the creating state its container is the configured one.
Concluded(m) == IF m.state = "creating" THEN m
                ELSE [m EXCEPT !.conf = m.cing, !.cing = 0]

\* What the configure script finds and leaves in the guest.
AfterUpload(g, m, listed, launched) ==
  IF launched
    THEN [g EXCEPT !.meta = listed, !.file = "running", !.fcid = m.cing]
    ELSE [g EXCEPT !.meta = listed]

\* How the configure script leaves the guest: on success the app knows the nodes
\* listed.
Ended(g, ok) == IF ok THEN [g EXCEPT !.file = "ok", !.view = g.meta]
                      ELSE [g EXCEPT !.file = "fail"]

\* Running the queued commands at the given indexes, in queue order: the last
\* of them that names a node decides whether the app knows it.
Told(view, pend, done) ==
  LET names(n) == {i \in done : n \in pend[i].nodes}
      ops      == UNION {pend[i].nodes : i \in done}
      last(n)  == CHOOSE i \in names(n) : \A j \in names(n) : j <= i
  IN  {n \in view \cup ops :
         IF names(n) = {} THEN n \in view ELSE pend[last(n)].op = "addnodes"}

-----------------------------------------------------------------------------
(* The member list ms of one role. *)

With(ms, S)  == {o \in Ords : ms[o].state \in S}
Present(ms)  == {o \in Ords : ms[o].state # "none"}
Pop(ms)      == Cardinality(Present(ms))
Index(ms, o) == Cardinality({p \in Present(ms) : p < o})
Count(ms)    == Cardinality(With(ms, Requested))

\* addMemberStatuses: new members are named by list index.
Grown(ms, want) ==
  [o \in Ords |-> IF Pop(ms) <= o /\ o < want THEN NewMember ELSE ms[o]]

Shrunk_FromFront(ms, want) ==
  [o \in Ords |-> IF Index(ms, o) < Pop(ms) - want THEN Dropped(ms[o]) ELSE ms[o]]

\* deleteMemberStatuses: the members beyond the desired count.
Shrunk(ms, want) ==
  [o \in Ords |-> IF Index(ms, o) >= want THEN Dropped(ms[o]) ELSE ms[o]]

\* handleRoleResize: expand only once nothing is on its way out.
MustGrow(ms, want)   == want > Count(ms) /\ Pop(ms) = Count(ms)
MustShrink(ms, want) == want < Count(ms)
Resized(ms, want) == IF MustGrow(ms, want) THEN Grown(ms, want)
                     ELSE IF MustShrink(ms, want) THEN Shrunk(ms, want) ELSE ms

\* handleRoleReCreate for a role that still has members.
AllStranded(ms) == [o \in Ords |-> Stranded(ms[o])]

\* Compaction of the member list at the write of the status.
Compacted(ms) ==
  [o \in Ords |-> IF ms[o].state = "gone" THEN NoMember ELSE ms[o]]

=============================================================================
