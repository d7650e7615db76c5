---------------------------- MODULE ClusterProofs ----------------------------
(***************************************************************************)
(* ClusterReconciler.tla keeps its types and the order of the generations, *)
(* for any roles, member counts, spec moves and bounds.  Neither invariant *)
(* stands alone: types need nothing else, but a member is only known to be *)
(* behind the generation to process because both copies of the status (the *)
(* one stored and the one a pass works on) are.                            *)
(*                                                                         *)
(* First comes what the functions of MemberStatus.tla keep of one member   *)
(* and of one member list, and then the two invariants, one action after   *)
(* the other.  The second part is about the lists as a whole: what the     *)
(* reconciler does to them is what MemberList.tla allows.                  *)
(***************************************************************************)
EXTENDS ClusterProperties, SequenceTheorems, FiniteSetTheorems, TLAPS

Members == [Ords -> Member]

\* A list of members none of which is ahead of the generation gen.
ListOrdered(ms, gen) == \A o \in Ords : Ordered(ms[o], gen)

-----------------------------------------------------------------------------
(* One member. *)

LEMMA NoNotifyType == NoNotify \in Seq(Notify)
BY DEF NoNotify

LEMMA NoMemberSafe ==
  /\ NoMember \in Member /\ NewMember \in Member
  /\ \A gen \in Nat : Ordered(NoMember, gen) /\ Ordered(NewMember, gen)
<1>1. NoMember \in Member /\ \A gen \in Nat : Ordered(NoMember, gen)
  BY NoNotifyType DEF NoMember, Member, MemberState, Ordered
<1>2. \A m \in Member : /\ [m EXCEPT !.state = "createPending"] \in Member
                        /\ \A gen \in Nat : Ordered(m, gen) =>
                             Ordered([m EXCEPT !.state = "createPending"], gen)
  BY DEF Member, MemberState, Ordered
<1> QED  BY <1>1, <1>2 DEF NewMember

\* The checks that a container is still there only ever lower the generations.
LEMMA ContainerCheckedSafe ==
  ASSUME NEW m \in Member, NEW r, NEW p, NEW gen \in Nat
  PROVE  /\ ContainerChecked(m, r, p) \in Member
         /\ Ordered(m, gen) => Ordered(ContainerChecked(m, r, p), gen)
<1> DEFINE again == [m EXCEPT !.state = "createPending"]
           blank == [m EXCEPT !.state = "createPending", !.cfg = 0, !.setup = 0,
                              !.pend = NoNotify]
<1>1. again \in Member /\ (Ordered(m, gen) => Ordered(again, gen))
  BY DEF Member, MemberState, Ordered
<1>2. blank \in Member
  BY NoNotifyType DEF Member, MemberState
<1>3. Ordered(blank, gen)
  BY SMT DEF Member, Ordered
<1>4. ContainerChecked(m, r, p) \in {again, blank, m}
  BY Zenon DEF ContainerChecked
<1> QED  BY <1>1, <1>2, <1>3, <1>4

LEMMA DroppedSafe ==
  ASSUME NEW m \in Member, NEW gen \in Nat
  PROVE  /\ Dropped(m) \in Member
         /\ Ordered(m, gen) => Ordered(Dropped(m), gen)
BY DEF Dropped, Member, MemberState, Ordered

LEMMA StrandedSafe ==
  ASSUME NEW m \in Member, NEW gen \in Nat
  PROVE  /\ Stranded(m) \in Member
         /\ Ordered(m, gen) => Ordered(Stranded(m), gen)
BY DEF Stranded, Member, MemberState, Ordered

LEMMA FailedSafe ==
  ASSUME NEW m \in Member, NEW gen \in Nat
  PROVE  /\ Failed(m) \in Member
         /\ Ordered(m, gen) => Ordered(Failed(m), gen)
BY DEF Failed, Member, MemberState, Ordered

LEMMA RetriedSafe ==
  ASSUME NEW m \in Member, NEW gen \in Nat
  PROVE  /\ Retried(m) \in Member
         /\ Ordered(m, gen) => Ordered(Retried(m), gen)
<1> DEFINE wiped == [m EXCEPT !.err = FALSE, !.setup = 0, !.pend = NoNotify]
<1>1. wiped \in Member
  BY NoNotifyType DEF Member
<1>2. Ordered(m, gen) => Ordered(wiped, gen)
  BY SMT DEF Member, Ordered
<1>3. Retried(m) \in {wiped, m}
  BY Zenon DEF Retried
<1> QED  BY <1>1, <1>2, <1>3

LEMMA CaughtUpSafe ==
  ASSUME NEW m \in Member, NEW g, NEW gen \in Nat
  PROVE  /\ CaughtUp(m, g) \in Member
         /\ Ordered(m, gen) => Ordered(CaughtUp(m, g), gen)
<1> DEFINE caught == [m EXCEPT !.setup = m.cfg, !.pend = NoNotify]
<1>1. caught \in Member
  BY NoNotifyType DEF Member
<1>2. Ordered(m, gen) => Ordered(caught, gen)
  BY SMT DEF Member, Ordered
<1>3. CaughtUp(m, g) \in {caught, m}
  BY Zenon DEF CaughtUp
<1> QED  BY <1>1, <1>2, <1>3

LEMMA ReadySafe ==
  ASSUME NEW m \in Member, NEW gen \in Nat
  PROVE  /\ [m EXCEPT !.state = "ready"] \in Member
         /\ Ordered(m, gen) => Ordered([m EXCEPT !.state = "ready"], gen)
BY DEF Member, MemberState, Ordered

LEMMA RereadSafe ==
  ASSUME NEW m \in Member, NEW g, NEW fault, NEW gen \in Nat
  PROVE  /\ Reread(m, g, fault) \in Member
         /\ Ordered(m, gen) => Ordered(Reread(m, g, fault), gen)
<1>1. /\ CaughtUp(m, g) \in Member
      /\ Ordered(m, gen) => Ordered(CaughtUp(m, g), gen)
  BY CaughtUpSafe
<1>2. /\ Failed(CaughtUp(m, g)) \in Member
      /\ Ordered(m, gen) => Ordered(Failed(CaughtUp(m, g)), gen)
  BY <1>1, FailedSafe
<1>3. /\ [CaughtUp(m, g) EXCEPT !.state = "ready"] \in Member
      /\ Ordered(m, gen) => Ordered([CaughtUp(m, g) EXCEPT !.state = "ready"], gen)
  BY <1>1, ReadySafe
<1> QED  BY <1>2, <1>3 DEF Reread

\* A configmeta upload brings a member to the generation it was made for, which
\* no member is ahead of.
LEMMA PushedSafe ==
  ASSUME NEW m \in Member, NEW gen \in Nat, Ordered(m, gen)
  PROVE  /\ [m EXCEPT !.cfg = gen] \in Member
         /\ Ordered([m EXCEPT !.cfg = gen], gen)
BY DEF Member, Ordered

LEMMA ConfiguredSafe ==
  ASSUME NEW m \in Member, NEW r, NEW p, NEW g, NEW gen \in Nat, NEW push, NEW fault,
         Ordered(m, gen)
  PROVE  /\ Configured(m, r, p, g, gen, push, fault) \in Member
         /\ Ordered(Configured(m, r, p, g, gen, push, fault), gen)
<1>1. Retried(m) \in Member /\ Ordered(Retried(m), gen)
  BY RetriedSafe
<1>2. LET pushed == [Retried(m) EXCEPT !.cfg = gen]
      IN  /\ pushed \in Member /\ Ordered(pushed, gen)
          /\ Failed(pushed) \in Member /\ Ordered(Failed(pushed), gen)
          /\ [pushed EXCEPT !.state = "ready"] \in Member
          /\ Ordered([pushed EXCEPT !.state = "ready"], gen)
  BY <1>1, PushedSafe, FailedSafe, ReadySafe
<1>3. Failed(Retried(m)) \in Member /\ Ordered(Failed(Retried(m)), gen)
  BY <1>1, FailedSafe
<1>4. Reread(m, g, fault) \in Member /\ Ordered(Reread(m, g, fault), gen)
  BY RereadSafe
<1> QED  BY <1>1, <1>2, <1>3, <1>4 DEF Configured

LEMMA UnpackagedSafe ==
  ASSUME NEW m \in Member, NEW fault, NEW gen \in Nat
  PROVE  /\ Unpackaged(m, fault) \in Member
         /\ Ordered(m, gen) => Ordered(Unpackaged(m, fault), gen)
BY FailedSafe DEF Unpackaged, Member, MemberState, Ordered

LEMMA ConcludedSafe ==
  ASSUME NEW m \in Member, NEW gen \in Nat
  PROVE  /\ Concluded(m) \in Member
         /\ Ordered(m, gen) => Ordered(Concluded(m), gen)
BY DEF Concluded, Member, MemberState, Ordered

-----------------------------------------------------------------------------
(* A member list. *)

LEMMA GrownSafe ==
  ASSUME NEW ms \in Members, NEW n, NEW gen \in Nat
  PROVE  /\ Grown(ms, n) \in Members
         /\ ListOrdered(ms, gen) => ListOrdered(Grown(ms, n), gen)
BY NoMemberSafe DEF Grown, Members, ListOrdered

LEMMA ShrunkSafe ==
  ASSUME NEW ms \in Members, NEW n, NEW gen \in Nat
  PROVE  /\ Shrunk(ms, n) \in Members
         /\ ListOrdered(ms, gen) => ListOrdered(Shrunk(ms, n), gen)
BY DroppedSafe DEF Shrunk, Members, ListOrdered

LEMMA ResizedSafe ==
  ASSUME NEW ms \in Members, NEW n, NEW gen \in Nat
  PROVE  /\ Resized(ms, n) \in Members
         /\ ListOrdered(ms, gen) => ListOrdered(Resized(ms, n), gen)
BY GrownSafe, ShrunkSafe DEF Resized

LEMMA AllStrandedSafe ==
  ASSUME NEW ms \in Members, NEW gen \in Nat
  PROVE  /\ AllStranded(ms) \in Members
         /\ ListOrdered(ms, gen) => ListOrdered(AllStranded(ms), gen)
BY StrandedSafe DEF AllStranded, Members, ListOrdered

LEMMA CompactedSafe ==
  ASSUME NEW ms \in Members, NEW gen \in Nat
  PROVE  /\ Compacted(ms) \in Members
         /\ ListOrdered(ms, gen) => ListOrdered(Compacted(ms), gen)
BY NoMemberSafe DEF Compacted, Members, ListOrdered

-----------------------------------------------------------------------------
(* What a member's guest holds. *)

LEMMA AfterUploadType ==
  ASSUME NEW g \in Guest, NEW m \in Member, NEW listed \in SUBSET Node,
         NEW launched \in BOOLEAN
  PROVE  AfterUpload(g, m, listed, launched) \in Guest
BY DEF AfterUpload, Guest, Member

LEMMA EndedType ==
  ASSUME NEW g \in Guest, NEW ok
  PROVE  Ended(g, ok) \in Guest
<1>1. /\ [g EXCEPT !.file = "ok", !.view = g.meta] \in Guest
      /\ [g EXCEPT !.file = "fail"] \in Guest
  BY DEF Guest
<1> QED  BY <1>1 DEF Ended

LEMMA ToldType ==
  ASSUME NEW view \in SUBSET Node, NEW pend \in Seq(Notify),
         NEW done \in SUBSET DOMAIN pend
  PROVE  Told(view, pend, done) \subseteq Node
<1>1. \A i \in done : pend[i].nodes \subseteq Node
  <2>1. \A i \in done : pend[i] \in Notify
    BY ElementOfSeq, LenProperties
  <2> QED  BY <2>1 DEF Notify
<1> QED  BY <1>1 DEF Told

-----------------------------------------------------------------------------
(* What both copies of the status are. *)

\* A copy of the status with its types and its generations in order.
Sound(st) == /\ st \in Status
             /\ \A r \in Roles : ListOrdered(st.mem[r], st.gen)

Inv == TypeOK /\ Sound(stat) /\ Sound(cr)

-----------------------------------------------------------------------------
(* Sets of members are finite, and what is read off a status is typed. *)

LEMMA CountsAreNats ==
  /\ \A S \in SUBSET (Roles \X Ords) : Cardinality(S) \in Nat
  /\ \A S \in SUBSET Ords : Cardinality(S) \in Nat
<1>1. IsFiniteSet(Ords)
  BY MaxMembersAssumption, FS_Interval DEF Ords
<1>2. IsFiniteSet(Roles \X Ords)
  BY <1>1, RolesAssumption, FS_Product
<1> QED  BY <1>1, <1>2, FS_Subset, FS_CardinalityType

LEMMA MemberOfStatus ==
  ASSUME NEW st \in Status, NEW r \in Roles
  PROVE  st.mem[r] \in Members /\ \A o \in Ords : st.mem[r][o] \in Member
BY DEF Status, Members

LEMMA ListedType ==
  ASSUME NEW st \in Status, NEW w
  PROVE  Listed(st, w) \subseteq Node
<1>1. \A r \in Roles : {<<r, st.name[r], o>> : o \in With(st.mem[r], Requested)}
                         \subseteq Node
  BY DEF Status, Node, With
<1> QED  BY <1>1 DEF Listed

LEMMA FaultType ==
  ASSUME faults \in Nat, NEW k, NEW n \in Nat, Fault(k, n)
  PROVE  faults' \in Nat
BY DEF Fault

LEMMA PassOverType == PassOver => /\ phase' \in Phases
                                  /\ want' \in [Roles -> Want]
                                  /\ seen' \subseteq Roles
                                  /\ snap' \in [Roles -> [Ords -> MemberState]]
                                  /\ configmeta' \subseteq Node
                                  /\ todo' \subseteq Roles
                                  /\ mail' \subseteq Roles \X Ords
BY MaxMembersAssumption DEF PassOver, Phases, NoSpec, NoStates, Want, MemberState

-----------------------------------------------------------------------------
(* The start of a pass. *)

LEMMA CheckedSafe ==
  ASSUME Inv, NEW r \in Roles
  PROVE  Checked(r) \in Members /\ ListOrdered(Checked(r), stat.gen)
<1>1. stat.gen \in Nat /\ \A o \in Ords : stat.mem[r][o] \in Member
  BY DEF Inv, TypeOK, Status
<1>2. \A o \in Ords : Ordered(stat.mem[r][o], stat.gen)
  BY DEF Inv, Sound, ListOrdered
<1>3. \A o \in Ords : /\ Checked(r)[o] \in Member
                      /\ Ordered(Checked(r)[o], stat.gen)
  BY <1>1, <1>2, ContainerCheckedSafe DEF Checked
<1> QED  BY <1>3 DEF Checked, Members, ListOrdered

LEMMA RoleMembersSafe ==
  ASSUME Inv, NEW r \in Roles
  PROVE  RoleMembers(r) \in Members /\ ListOrdered(RoleMembers(r), stat.gen)
<1>1. stat.gen \in Nat
  BY DEF Inv, TypeOK, Status
<1>2. Checked(r) \in Members /\ ListOrdered(Checked(r), stat.gen)
  BY CheckedSafe
<1> QED  BY <1>1, <1>2, GrownSafe, AllStrandedSafe, ResizedSafe DEF RoleMembers

LEMMA SyncedSafe ==
  ASSUME Inv, NEW R
  PROVE  /\ Synced(R) \in Status
         /\ Synced(R).gen = stat.gen
         /\ \A r \in Roles : ListOrdered(Synced(R).mem[r], stat.gen)
<1> DEFINE name == [r \in Roles |-> IF r \in R THEN RoleName(r) ELSE stat.name[r]]
           mem  == [r \in Roles |-> IF r \in R THEN RoleMembers(r) ELSE Checked(r)]
<1>1. stat \in Status
  BY DEF Inv, TypeOK
<1>2. name \in [Roles -> Nat]
  BY DEF RoleName, Inv, TypeOK, Status, StatefulSet
<1>3. mem \in [Roles -> Members] /\ \A r \in Roles : ListOrdered(mem[r], stat.gen)
  BY CheckedSafe, RoleMembersSafe
<1>4. Synced(R) = [stat EXCEPT !.name = name, !.mem = mem]
  BY DEF Synced
<1>5. Synced(R) \in Status /\ Synced(R).gen = stat.gen /\ Synced(R).mem = mem
  <2> HIDE DEF name, mem
  <2> QED  BY <1>1, <1>2, <1>3, <1>4 DEF Status, Members
<1> QED  BY <1>3, <1>5

LEMMA StatesType ==
  ASSUME NEW st \in Status PROVE States(st) \in [Roles -> [Ords -> MemberState]]
BY DEF States, Status, Member

\* Raising the generation leaves every member where it was, or further behind.
LEMMA RaisedSafe ==
  ASSUME NEW st \in Status, NEW gen \in Nat, NEW g \in Nat, g >= gen,
         \A r \in Roles : ListOrdered(st.mem[r], gen)
  PROVE  \A r \in Roles : ListOrdered(st.mem[r], g)
BY DEF Status, Member, ListOrdered, Ordered

LEMMA NextGenType == ASSUME Inv PROVE NextGen \in Nat /\ NextGen >= stat.gen
BY DEF NextGen, Inv, TypeOK, Status

LEMMA StartPassType ==
  ASSUME Inv, NEW R, StartPass(R)
  PROVE  /\ spec' \in [Roles -> Want] /\ conns' \in Nat
         /\ stat' \in Status /\ Sound(stat')
         /\ sset' \in [Roles -> StatefulSet]
         /\ orphans' \subseteq Roles \X Nat
         /\ pod' \in [Roles -> [Ords -> Pod]]
         /\ guest' \in [Roles -> [Ords -> Guest]]
         /\ want' \in [Roles -> Want]
         /\ seen' \subseteq Roles
         /\ snap' \in [Roles -> [Ords -> MemberState]]
         /\ configmeta' \subseteq Node
         /\ todo' \subseteq Roles
         /\ mail' \subseteq Roles \X Ords
         /\ changes' \in Nat
<1>1. \A r \in Roles : RoleSset(r) \in StatefulSet
  <2>1. \A x \in StatefulSet : [x EXCEPT !.live = FALSE] \in StatefulSet
    BY DEF StatefulSet
  <2>2. \A r \in Roles : sset[r] \in StatefulSet
    BY DEF Inv, TypeOK
  <2>3. \A r \in Roles : [name |-> sset[r].name + 1, replicas |-> 0, live |-> TRUE]
                           \in StatefulSet
    BY <2>2 DEF StatefulSet
  <2> QED  BY <2>1, <2>2, <2>3 DEF RoleSset
<1>2. \A r \in Roles : NoPods(r) \in [Ords -> Pod]
  <2>1. \A p \in Pod : [p EXCEPT !.phase = "absent"] \in Pod
    BY DEF Pod
  <2> QED  BY <2>1 DEF NoPods, Inv, TypeOK
<1>3. NoGuests \in [Ords -> Guest]
  BY DEF NoGuests, BlankGuest, Guest
<1>4. sset' \in [Roles -> StatefulSet]
  BY <1>1 DEF StartPass, Inv, TypeOK
<1>5. pod' \in [Roles -> [Ords -> Pod]]
  BY <1>2 DEF StartPass, Inv, TypeOK
<1>6. guest' \in [Roles -> [Ords -> Guest]]
  BY <1>3 DEF StartPass, Inv, TypeOK
<1>7. orphans' \subseteq Roles \X Nat
  BY DEF StartPass, Inv, TypeOK, Created, StatefulSet
<1>8. seen' \subseteq Roles
  BY DEF StartPass
<1>9. snap' \in [Roles -> [Ords -> MemberState]] /\ configmeta' \subseteq Node
  BY SyncedSafe, StatesType, ListedType DEF StartPass
<1> QED  BY <1>4, <1>5, <1>6, <1>7, <1>8, <1>9 DEF StartPass, Inv, TypeOK

\* How the working copy comes out of a pass that reached the generation change.
LEMMA BegunSafe ==
  ASSUME Inv, NEW R, NEW s \in {"new", "creating", "updating", "configured"}
  PROVE  Sound([Synced(R) EXCEPT !.gen = NextGen, !.hash = conns, !.state = s])
<1>1. Synced(R) \in Status /\ \A r \in Roles : ListOrdered(Synced(R).mem[r], NextGen)
  BY SyncedSafe, NextGenType, RaisedSafe DEF Inv, TypeOK, Status
<1>2. NextGen \in Nat /\ conns \in Nat
  BY NextGenType DEF Inv, TypeOK
<1> QED  BY <1>1, <1>2 DEF Sound, Status

LEMMA FirstPassInv == Inv /\ FirstPass => Inv'
<1> SUFFICES ASSUME Inv, FirstPass PROVE Inv'
  OBVIOUS
<1>1. cr' \in Status /\ Sound(cr')
  BY DEF FirstPass, Inv, TypeOK, Sound, Status
<1> QED  BY <1>1 DEF FirstPass, Inv, TypeOK, Phases, Sound

LEMMA BeginPassInv == Inv /\ BeginPass => Inv'
<1> SUFFICES ASSUME Inv, BeginPass PROVE Inv'
  OBVIOUS
<1> DEFINE s == IF AllStable THEN "configured"
                ELSE IF Synced(SyncedRoles).state = "creating" THEN "creating"
                ELSE "updating"
<1>1. cr' = [Synced(SyncedRoles) EXCEPT !.gen = NextGen, !.hash = conns, !.state = s]
  BY DEF BeginPass
<1>2. Sound(cr')
  BY <1>1, BegunSafe
<1>3. phase' \in Phases /\ faults' \in Nat
  BY DEF BeginPass, Phases, Inv, TypeOK
<1> QED  BY <1>2, <1>3, StartPassType DEF BeginPass, Inv, TypeOK, Sound

\* An overwritten copy is the stored one, which nothing in it is ahead of either.
LEMMA BeginPassOverwrittenInv == Inv /\ BeginPassOverwritten => Inv'
<1> SUFFICES ASSUME Inv, BeginPassOverwritten PROVE Inv'
  OBVIOUS
<1>1. \E s \in {"new", "creating", "updating", "configured"} :
        cr' = [stat EXCEPT !.gen = NextGen, !.hash = conns, !.state = s]
  BY DEF BeginPassOverwritten, Inv, TypeOK, Status
<1>2. NextGen \in Nat /\ conns \in Nat /\ stat \in Status
  BY NextGenType DEF Inv, TypeOK
<1>3. \A r \in Roles : ListOrdered(stat.mem[r], NextGen)
  BY <1>2, NextGenType, RaisedSafe DEF Inv, Sound, Status
<1>4. Sound(cr')
  BY <1>1, <1>2, <1>3 DEF Sound, Status
<1>5. phase' \in Phases /\ faults' \in Nat
  BY FaultType DEF BeginPassOverwritten, Phases, Inv, TypeOK
<1>6. StartPass(SyncedRoles) /\ admitted' \in BOOLEAN
  BY DEF BeginPassOverwritten
<1> QED  BY <1>4, <1>5, <1>6, StartPassType DEF Inv, TypeOK, Sound

LEMMA BeginPassNoClusterInv == Inv /\ BeginPassNoCluster => Inv'
<1> SUFFICES ASSUME Inv, BeginPassNoCluster PROVE Inv'
  OBVIOUS
<1>1. Sound(cr')
  BY SyncedSafe DEF BeginPassNoCluster, Sound
<1>2. phase' \in Phases /\ faults' \in Nat
  BY FaultType DEF BeginPassNoCluster, Phases, Inv, TypeOK
<1> QED  BY <1>1, <1>2, StartPassType DEF BeginPassNoCluster, Inv, TypeOK, Sound

LEMMA BeginPassNoSsetInv == Inv /\ BeginPassNoSset => Inv'
<1> SUFFICES ASSUME Inv, BeginPassNoSset PROVE Inv'
  OBVIOUS
<1> PICK R : StartPass(R) /\ cr' = Synced(R)
  BY DEF BeginPassNoSset
<1>1. Sound(cr')
  BY SyncedSafe DEF Sound
<1>2. phase' \in Phases /\ faults' \in Nat /\ admitted' = admitted
  BY FaultType DEF BeginPassNoSset, Phases, Inv, TypeOK
<1> QED  BY <1>1, <1>2, StartPassType DEF Inv, TypeOK, Sound

LEMMA BeginPassNoServiceInv == Inv /\ BeginPassNoService => Inv'
<1> SUFFICES ASSUME Inv, BeginPassNoService PROVE Inv'
  OBVIOUS
<1>1. Synced(SyncedRoles) \in Status
  BY SyncedSafe
<1>2. cr' = [Synced(SyncedRoles) EXCEPT !.gen = NextGen, !.hash = conns,
                                          !.state = Synced(SyncedRoles).state]
  BY <1>1 DEF BeginPassNoService, Status
<1>3. Sound(cr')
  BY <1>1, <1>2, BegunSafe DEF Status
<1>4. phase' \in Phases /\ faults' \in Nat
  BY FaultType DEF BeginPassNoService, Phases, Inv, TypeOK
<1> QED  BY <1>3, <1>4, StartPassType DEF BeginPassNoService, Inv, TypeOK, Sound

-----------------------------------------------------------------------------
(* The member pass. *)

LEMMA UpdateReadyMembersInv == Inv /\ UpdateReadyMembers => Inv'
<1> SUFFICES ASSUME Inv, UpdateReadyMembers PROVE Inv'
  OBVIOUS
<1> DEFINE new(upd) == [r \in Roles |-> [o \in Ords |->
                          IF <<r, o>> \in upd
                            THEN [cr.mem[r][o] EXCEPT !.cfg = cr.gen]
                            ELSE cr.mem[r][o]]]
           files(up) == [r \in Roles |-> [o \in Ords |->
                          IF <<r, o>> \in up
                            THEN [guest[r][o] EXCEPT !.meta = configmeta]
                            ELSE guest[r][o]]]
           reachable == {i \in Outdated :
                           Reaches(pod[i[1]][i[2]], cr.mem[i[1]][i[2]].conf)}
<1> PICK failing \in SUBSET reachable : \E late \in SUBSET failing :
      /\ Fault("exec", Cardinality(failing))
      /\ cr' = [cr EXCEPT !.mem = new(reachable \ failing)]
      /\ guest' = files((reachable \ failing) \cup late)
      /\ todo' \in {Busy({"createPending", "creating", "deletePending", "deleting"}),
                    Busy({"creating"})}
      /\ phase' \in {"notify", "members", "blocked"}
  BY Zenon DEF UpdateReadyMembers
<1> PICK late \in SUBSET failing :
      /\ Fault("exec", Cardinality(failing))
      /\ cr' = [cr EXCEPT !.mem = new(reachable \ failing)]
      /\ guest' = files((reachable \ failing) \cup late)
      /\ todo' \in {Busy({"createPending", "creating", "deletePending", "deleting"}),
                    Busy({"creating"})}
      /\ phase' \in {"notify", "members", "blocked"}
  OBVIOUS
<1> DEFINE upd == reachable \ failing
           up  == upd \cup late
<1>1. /\ failing \in SUBSET (Roles \X Ords)
      /\ Fault("exec", Cardinality(failing))
      /\ cr' = [cr EXCEPT !.mem = new(upd)]
      /\ guest' = files(up)
      /\ todo' \subseteq Roles
      /\ phase' \in Phases
  BY DEF Outdated, Busy, Phases
<1> HIDE DEF upd, up, reachable
<1>2. /\ cr \in Status /\ cr.gen \in Nat
      /\ \A r \in Roles, o \in Ords : /\ cr.mem[r][o] \in Member
                                      /\ Ordered(cr.mem[r][o], cr.gen)
  BY DEF Inv, TypeOK, Sound, Status, ListOrdered
<1>3. \A r \in Roles, o \in Ords : /\ new(upd)[r][o] \in Member
                                   /\ Ordered(new(upd)[r][o], cr.gen)
  BY <1>2, PushedSafe
<1>4. Sound(cr')
  <2>1. new(upd) \in [Roles -> [Ords -> Member]]
    BY <1>3
  <2> HIDE DEF new
  <2>2. cr' \in Status /\ cr'.gen = cr.gen /\ cr'.mem = new(upd)
    BY <1>1, <1>2, <2>1 DEF Status
  <2> QED  BY <1>3, <2>2 DEF Sound, ListOrdered
<1>5. guest' \in [Roles -> [Ords -> Guest]]
  <2>1. configmeta \subseteq Node
    BY DEF Inv, TypeOK
  <2>2. \A g \in Guest : [g EXCEPT !.meta = configmeta] \in Guest
    BY <2>1 DEF Guest
  <2> QED  BY <1>1, <2>2 DEF Inv, TypeOK
<1>6. faults' \in Nat
  BY <1>1, CountsAreNats, FaultType DEF Inv, TypeOK
<1> QED  BY <1>1, <1>4, <1>5, <1>6 DEF UpdateReadyMembers, Inv, TypeOK, Sound

LEMMA RecountedType ==
  ASSUME Inv, NEW r \in Roles
  PROVE  Recounted(r) \in [Roles -> StatefulSet]
<1>1. Cardinality(In(r, Requested)) \in Nat
  BY CountsAreNats DEF In
<1>2. \A x \in StatefulSet, n \in Nat : [x EXCEPT !.replicas = n] \in StatefulSet
  BY DEF StatefulSet
<1> QED  BY <1>1, <1>2 DEF Recounted, Inv, TypeOK

LEMMA LaunchedSafe ==
  ASSUME Inv, NEW r \in Roles, NEW o \in Ords
  PROVE  Launched(r, o) \in Member /\ Ordered(Launched(r, o), cr.gen)
<1>1. \A m \in Member, c \in Nat :
        LET n == [m EXCEPT !.state = "creating", !.cing = c]
        IN  n \in Member /\ n.cfg = m.cfg /\ n.setup = m.setup
  BY DEF Member, MemberState
<1>2. /\ cr.mem[r][o] \in Member /\ Ordered(cr.mem[r][o], cr.gen)
      /\ pod[r][o].cid \in Nat
  BY DEF Inv, TypeOK, Sound, Status, ListOrdered, Pod
<1> QED  BY <1>1, <1>2 DEF Launched, Ordered

LEMMA RemovedSafe ==
  ASSUME Inv, NEW r \in Roles, NEW o \in Ords, NEW cleaned
  PROVE  Removed(r, o, cleaned) \in Member /\ Ordered(Removed(r, o, cleaned), cr.gen)
<1> DEFINE m == cr.mem[r][o]
           s == IF o \in cleaned THEN "gone"
                ELSE IF snap[r][o] = "deletePending" THEN "deleting" ELSE m.state
<1>1. \A x \in Member, st \in MemberState :
        LET n == [x EXCEPT !.state = st]
        IN  n \in Member /\ n.cfg = x.cfg /\ n.setup = x.setup
  BY DEF Member
<1>2. m \in Member /\ Ordered(m, cr.gen)
  BY DEF Inv, TypeOK, Sound, Status, ListOrdered
<1>3. s \in MemberState /\ Removed(r, o, cleaned) = [m EXCEPT !.state = s]
  BY <1>2 DEF Removed, Member, MemberState
<1> HIDE DEF m, s
<1> QED  BY <1>1, <1>2, <1>3 DEF Ordered

LEMMA SetupSafe ==
  ASSUME Inv, NEW r \in Roles, NEW o \in Ords, NEW fault
  PROVE  Setup(r, o, fault) \in Member /\ Ordered(Setup(r, o, fault), cr.gen)
<1>1. /\ cr.mem[r][o] \in Member /\ Ordered(cr.mem[r][o], cr.gen)
      /\ cr.gen \in Nat
  BY DEF Inv, TypeOK, Sound, Status, ListOrdered
<1> QED  BY <1>1, ConfiguredSafe, UnpackagedSafe DEF Setup

LEMMA QueuedSafe ==
  ASSUME Inv, NEW m \in Member, NEW q, NEW s,
         NEW op \in {"addnodes", "delnodes"}, NEW nodes \in SUBSET Node
  PROVE  /\ Queued(q, m, s, op, nodes) \in Member
         /\ Ordered(m, cr.gen) => Ordered(Queued(q, m, s, op, nodes), cr.gen)
<1> DEFINE cmd == [op |-> op, nodes |-> nodes]
           n == [m EXCEPT !.pend = Append(m.pend, cmd)]
<1>1. Append(m.pend, cmd) \in Seq(Notify)
  BY AppendProperties DEF Member, Notify
<1>2. n \in Member
  <2> HIDE DEF cmd
  <2> QED  BY <1>1 DEF Member
<1>3. n.cfg = m.cfg /\ n.setup = m.setup
  BY SMT DEF Member
<1>4. Queued(q, m, s, op, nodes) \in {n, m}
  BY Zenon DEF Queued
<1> QED  BY <1>2, <1>3, <1>4 DEF Ordered

LEMMA HandleRoleInv ==
  ASSUME Inv, NEW r \in Roles, HandleRole(r)
  PROVE  Inv'
<1> DEFINE creating == In(r, {"creating"})
           set(f, cleaned) ==
             [o \in Ords |->
               IF o \in creating THEN Setup(r, o, f[o])
               ELSE IF phase = "blocked" THEN cr.mem[r][o]
               ELSE IF snap[r][o] = "createPending" THEN Launched(r, o)
               ELSE IF snap[r][o] \in {"deletePending", "deleting"}
                 THEN Removed(r, o, cleaned)
               ELSE cr.mem[r][o]]
           named(f, cleaned) ==
             Named(r, Arrived(r, set(f, cleaned))) \cup
             (IF phase = "members" /\ creating = {} THEN Named(r, Departed(r)) ELSE {})
           op == IF creating # {} THEN "addnodes" ELSE "delnodes"
           new(f, cleaned) ==
             [q \in Roles |-> [o \in Ords |->
               LET m == IF q = r THEN set(f, cleaned)[o] ELSE cr.mem[q][o]
                   told == Queued(q, m, snap[q][o], op, named(f, cleaned))
               IN  IF q = r /\ o \in creating THEN Concluded(told) ELSE told]]
           upload(f, o) == /\ o \in creating /\ r \in Packaged
                           /\ Uploads(cr.mem[r][o], pod[r][o], guest[r][o],
                                      phase = "members", f[o])
           files(f, cleaned) ==
             [o \in Ords |->
               IF upload(f, o)
                 THEN AfterUpload(guest[r][o], cr.mem[r][o], configmeta,
                                  f[o] = "none" /\ r \in Scripted)
               ELSE IF o \in cleaned THEN BlankGuest ELSE guest[r][o]]
           n(f, cleaned) == Cardinality({o \in Ords : f[o] # "none"})
                              + Cardinality(Cleanable(r) \ cleaned)
<1>1. PICK f \in FaultChoices(r), cleaned \in SUBSET Cleanable(r) :
        /\ Fault("exec", n(f, cleaned))
        /\ cr' = [cr EXCEPT !.mem = new(f, cleaned)]
        /\ guest' = [guest EXCEPT ![r] = files(f, cleaned)]
  BY DEF HandleRole
<1>2. /\ cr \in Status /\ cr.gen \in Nat /\ cr.name \in [Roles -> Nat]
      /\ \A q \in Roles, o \in Ords : /\ cr.mem[q][o] \in Member
                                      /\ Ordered(cr.mem[q][o], cr.gen)
  BY DEF Inv, TypeOK, Sound, Status, ListOrdered
<1>3. faults' \in Nat
  <2>1. Cleanable(r) \subseteq Ords
    BY DEF Cleanable, In
  <2>2. n(f, cleaned) \in Nat
    BY <2>1, CountsAreNats
  <2> QED  BY <1>1, <2>2, FaultType DEF Inv, TypeOK
<1>4. \A o \in Ords : /\ set(f, cleaned)[o] \in Member
                      /\ Ordered(set(f, cleaned)[o], cr.gen)
  BY <1>2, SetupSafe, LaunchedSafe, RemovedSafe
<1>5. named(f, cleaned) \in SUBSET Node
  <2>1. \A S \in SUBSET Ords : Named(r, S) \subseteq Node
    BY <1>2 DEF Named, Node
  <2>2. Arrived(r, set(f, cleaned)) \subseteq Ords /\ Departed(r) \subseteq Ords
    BY DEF Arrived, Departed, In
  <2> QED  BY <2>1, <2>2
<1>6. op \in {"addnodes", "delnodes"}
  OBVIOUS
<1>7. \A q \in Roles, o \in Ords : /\ new(f, cleaned)[q][o] \in Member
                                   /\ Ordered(new(f, cleaned)[q][o], cr.gen)
  <2> SUFFICES ASSUME NEW q \in Roles, NEW o \in Ords
               PROVE  /\ new(f, cleaned)[q][o] \in Member
                      /\ Ordered(new(f, cleaned)[q][o], cr.gen)
    OBVIOUS
  <2> DEFINE m == IF q = r THEN set(f, cleaned)[o] ELSE cr.mem[q][o]
             told == Queued(q, m, snap[q][o], op, named(f, cleaned))
  <2>1. m \in Member /\ Ordered(m, cr.gen)
    BY <1>2, <1>4
  <2>2. new(f, cleaned)[q][o] = IF q = r /\ o \in creating THEN Concluded(told) ELSE told
    BY Zenon
  <2> HIDE DEF m, op, named, new, creating
  <2>3. told \in Member /\ Ordered(told, cr.gen)
    BY <2>1, <1>5, <1>6, QueuedSafe
  <2> HIDE DEF told
  <2> QED  BY <1>2, <2>2, <2>3, ConcludedSafe
<1>8. Sound(cr')
  <2>1. new(f, cleaned) \in [Roles -> [Ords -> Member]]
    BY <1>7
  <2> HIDE DEF new
  <2>2. cr' \in Status /\ cr'.gen = cr.gen /\ cr'.mem = new(f, cleaned)
    BY <1>1, <1>2, <2>1 DEF Status
  <2> QED  BY <1>7, <2>2 DEF Sound, ListOrdered
<1>9. guest' \in [Roles -> [Ords -> Guest]]
  <2>1. BlankGuest \in Guest /\ configmeta \in SUBSET Node
    BY DEF BlankGuest, Guest, Inv, TypeOK
  <2>2. \A o \in Ords : AfterUpload(guest[r][o], cr.mem[r][o], configmeta,
                                    f[o] = "none" /\ r \in Scripted) \in Guest
    BY <1>2, <2>1, AfterUploadType DEF Inv, TypeOK
  <2>3. files(f, cleaned) \in [Ords -> Guest]
    <3> HIDE DEF upload
    <3> QED  BY <2>1, <2>2 DEF Inv, TypeOK
  <2> HIDE DEF files
  <2> QED  BY <1>1, <2>3 DEF Inv, TypeOK
<1>10. sset' \in [Roles -> StatefulSet] /\ todo' \subseteq Roles /\ phase' \in Phases
  BY RecountedType DEF HandleRole, Inv, TypeOK, Phases
<1> QED  BY <1>3, <1>8, <1>9, <1>10 DEF HandleRole, Inv, TypeOK, Sound

LEMMA PanicInRoleInv ==
  ASSUME Inv, NEW r \in Roles, PanicInRole(r)
  PROVE  Inv'
BY DEF PanicInRole, passVars, Phases, Inv, TypeOK, Sound

LEMMA ProcessDiesInv ==
  ASSUME Inv, ProcessDies, sset' \in [Roles -> StatefulSet], faults' \in Nat
  PROVE  Inv'
BY PassOverType DEF ProcessDies, Inv, TypeOK, Sound

LEMMA DiesInRoleInv ==
  ASSUME Inv, NEW r \in Roles, DiesInRole(r)
  PROVE  Inv'
<1>1. sset' \in [Roles -> StatefulSet]
  BY RecountedType DEF DiesInRole, Inv, TypeOK
<1> QED  BY <1>1, ProcessDiesInv DEF DiesInRole, Inv, TypeOK

-----------------------------------------------------------------------------
(* The end of a pass. *)

LEMMA StartNotifyInv == Inv /\ StartNotify => Inv'
<1> SUFFICES ASSUME Inv, StartNotify PROVE Inv'
  OBVIOUS
<1> DEFINE new == [r \in Roles |-> [o \in Ords |->
                    LET m == cr.mem[r][o]
                    IN  IF m.state = "ready" /\ m.pend = NoNotify /\ m.setup # 0
                           /\ ~Transitional
                          THEN [m EXCEPT !.setup = m.cfg] ELSE m]]
<1>1. /\ cr \in Status /\ cr.gen \in Nat
      /\ \A r \in Roles, o \in Ords : /\ cr.mem[r][o] \in Member
                                      /\ Ordered(cr.mem[r][o], cr.gen)
  BY DEF Inv, TypeOK, Sound, Status, ListOrdered
<1>2. \A m \in Member : Ordered(m, cr.gen) => /\ [m EXCEPT !.setup = m.cfg] \in Member
                                              /\ Ordered([m EXCEPT !.setup = m.cfg], cr.gen)
  BY <1>1 DEF Member, Ordered
<1>3. \A r \in Roles, o \in Ords : new[r][o] \in Member /\ Ordered(new[r][o], cr.gen)
  BY <1>1, <1>2
<1>4. cr' = [cr EXCEPT !.mem = new]
  BY DEF StartNotify
<1>5. Sound(cr')
  <2>1. new \in [Roles -> [Ords -> Member]]
    BY <1>3
  <2> HIDE DEF new
  <2>2. cr' \in Status /\ cr'.gen = cr.gen /\ cr'.mem = new
    BY <1>1, <1>4, <2>1 DEF Status
  <2> QED  BY <1>3, <2>2 DEF Sound, ListOrdered
<1>6. mail' \subseteq Roles \X Ords /\ phase' \in Phases
  BY DEF StartNotify, Phases
<1> QED  BY <1>5, <1>6 DEF StartNotify, Inv, TypeOK, Sound

LEMMA DeliverInv ==
  ASSUME Inv, NEW r \in Roles, NEW o \in Ords, Deliver(r, o)
  PROVE  Inv'
<1> DEFINE m == cr.mem[r][o]
           all == DOMAIN m.pend
           left(s) == [i \in DOMAIN s |-> m.pend[s[i]]]
           kept_setup(kept) == IF kept # all /\ ~Transitional THEN m.cfg ELSE m.setup
           new(kept, s) == [m EXCEPT !.pend = left(s), !.setup = kept_setup(kept)]
<1> PICK kept \in SUBSET all : \E s \in [1 .. Cardinality(kept) -> kept] :
      /\ IF Reaches(pod[r][o], m.conf) THEN Fault("exec", Cardinality(kept))
                                       ELSE UNCHANGED faults
      /\ cr' = [cr EXCEPT !.mem[r][o] = new(kept, s)]
      /\ guest' = [guest EXCEPT ![r][o].view = Told(guest[r][o].view, m.pend, all \ kept)]
  BY DEF Deliver
<1>1. PICK s \in [1 .. Cardinality(kept) -> kept] :
        /\ IF Reaches(pod[r][o], m.conf) THEN Fault("exec", Cardinality(kept))
                                         ELSE UNCHANGED faults
        /\ cr' = [cr EXCEPT !.mem[r][o] = new(kept, s)]
        /\ guest' = [guest EXCEPT ![r][o].view = Told(guest[r][o].view, m.pend, all \ kept)]
  OBVIOUS
<1>2. /\ cr \in Status /\ cr.gen \in Nat /\ m \in Member /\ Ordered(m, cr.gen)
      /\ m.pend \in Seq(Notify) /\ m.cfg \in Nat /\ m.setup \in Nat
  <2>1. /\ cr \in Status /\ cr.gen \in Nat /\ m \in Member /\ Ordered(m, cr.gen)
    BY DEF Inv, TypeOK, Sound, Status, ListOrdered
  <2> HIDE DEF m
  <2> QED  BY <2>1 DEF Member
<1>3. Cardinality(kept) \in Nat
  <2>1. all = 1 .. Len(m.pend) /\ Len(m.pend) \in Nat
    <3> HIDE DEF m
    <3> QED  BY <1>2, LenProperties
  <2>2. 1 \in Int /\ Len(m.pend) \in Int
    BY <2>1
  <2>3. IsFiniteSet(1 .. Len(m.pend))
    BY <2>2, FS_Interval
  <2> QED  BY <2>1, <2>3, FS_Subset, FS_CardinalityType
<1>4. faults' \in Nat
  BY <1>1, <1>3, FaultType DEF Inv, TypeOK
<1>5. left(s) \in Seq(Notify)
  <2>1. \A i \in all : m.pend[i] \in Notify
    BY <1>2, ElementOfSeq, LenProperties
  <2>2. left(s) \in [1 .. Cardinality(kept) -> Notify]
    BY <2>1
  <2> HIDE DEF left
  <2> QED  BY <1>3, <2>2, SeqDef
<1>6. new(kept, s) \in Member /\ Ordered(new(kept, s), cr.gen)
  <2>1. kept_setup(kept) \in Nat /\ kept_setup(kept) <= m.cfg
    BY <1>2 DEF Ordered, Member
  <2> HIDE DEF left, kept_setup
  <2>2. new(kept, s) \in Member
    BY <1>2, <1>5, <2>1 DEF Member
  <2>3. new(kept, s).cfg = m.cfg /\ new(kept, s).setup = kept_setup(kept)
    BY <1>2, SMT DEF Member
  <2> QED  BY <1>2, <2>1, <2>2, <2>3 DEF Ordered
<1>7. Sound(cr')
  <2>1. \A x \in Member : Ordered(x, cr.gen) => Sound([cr EXCEPT !.mem[r][o] = x])
    BY <1>2 DEF Inv, Sound, Status, ListOrdered
  <2> HIDE DEF new
  <2> QED  BY <1>1, <1>6, <2>1
<1>8. guest' \in [Roles -> [Ords -> Guest]]
  <2>1. guest[r][o] \in Guest /\ guest[r][o].view \subseteq Node
    BY DEF Inv, TypeOK, Guest
  <2>2. Told(guest[r][o].view, m.pend, all \ kept) \in SUBSET Node
    BY <1>2, <2>1, ToldType
  <2>3. \A v \in SUBSET Node : [guest[r][o] EXCEPT !.view = v] \in Guest
    BY <2>1 DEF Guest
  <2> QED  BY <1>1, <2>2, <2>3 DEF Inv, TypeOK
<1>9. mail' \subseteq Roles \X Ords /\ phase' \in Phases
  BY DEF Deliver, Inv, TypeOK, Phases
<1> QED  BY <1>4, <1>7, <1>8, <1>9 DEF Deliver, Inv, TypeOK, Sound

LEMMA WriteStatusInv == Inv /\ WriteStatus => Inv'
<1> SUFFICES ASSUME Inv, WriteStatus PROVE Inv'
  OBVIOUS
<1> DEFINE new == [r \in Roles |-> IF cr.name[r] = 0 THEN [o \in Ords |-> NoMember]
                                   ELSE Compacted(cr.mem[r])]
<1>1. cr \in Status /\ cr.gen \in Nat
  BY DEF Inv, TypeOK, Status
<1>2. \A r \in Roles : new[r] \in Members /\ ListOrdered(new[r], cr.gen)
  <2>1. \A r \in Roles : cr.mem[r] \in Members /\ ListOrdered(cr.mem[r], cr.gen)
    BY <1>1, MemberOfStatus DEF Inv, Sound
  <2>2. [o \in Ords |-> NoMember] \in Members
        /\ ListOrdered([o \in Ords |-> NoMember], cr.gen)
    BY <1>1, NoMemberSafe DEF Members, ListOrdered
  <2> QED  BY <1>1, <2>1, <2>2, CompactedSafe
<1>3. stat' = [cr EXCEPT !.mem = new] /\ cr' = stat'
  BY DEF WriteStatus
<1>4. Sound(stat') /\ Sound(cr')
  <2>1. new \in [Roles -> [Ords -> Member]]
    BY <1>2 DEF Members
  <2> HIDE DEF new
  <2>2. stat' \in Status /\ stat'.gen = cr.gen /\ stat'.mem = new
    BY <1>1, <1>3, <2>1 DEF Status
  <2> QED  BY <1>2, <1>3, <2>2 DEF Sound
<1> QED  BY <1>4, PassOverType DEF WriteStatus, Inv, TypeOK, Sound

LEMMA CrashInv == Inv /\ Crash => Inv'
<1> SUFFICES ASSUME Inv, Crash PROVE Inv'
  OBVIOUS
<1>1. faults' \in Nat
  BY FaultType DEF Crash, Inv, TypeOK
<1> QED  BY <1>1, ProcessDiesInv DEF Crash, Inv, TypeOK

-----------------------------------------------------------------------------
(* Users, Kubernetes and guests. *)

\* These never touch the status, nor anything a pass holds.
LEMMA EnvStepInv ==
  ASSUME Inv, EnvStep,
         sset' \in [Roles -> StatefulSet],
         pod' \in [Roles -> [Ords -> Pod]],
         guest' \in [Roles -> [Ords -> Guest]],
         faults' \in Nat
  PROVE  Inv'
BY DEF EnvStep, passVars, Inv, TypeOK, Sound

LEMMA KeptType ==
  ASSUME Inv, NEW r \in Roles, NEW o \in Ords
  PROVE  Kept(r, o) \in [Roles -> [Ords -> Guest]]
BY DEF Kept, Inv, TypeOK, BlankGuest, Guest

LEMMA ChangeSpecInv ==
  ASSUME Inv, NEW r \in Roles, NEW n \in Want, ChangeSpec(r, n)
  PROVE  Inv'
BY DEF ChangeSpec, passVars, Inv, TypeOK, Sound

LEMMA ChangeConnectionsInv == Inv /\ ChangeConnections => Inv'
BY DEF ChangeConnections, passVars, Inv, TypeOK, Sound

LEMMA PodStepInv ==
  ASSUME Inv, NEW r \in Roles, NEW o \in Ords,
         \/ PodStart(r, o)
         \/ PodStop(r, o)
         \/ \E how \in {"absent", "down"} : PodRestart(r, o, how)
         \/ \E ok \in BOOLEAN : ScriptEnds(r, o, ok)
  PROVE  Inv'
<1>1. \A p \in Pod, ph \in {"absent", "down", "up"}, c \in Nat :
        [p EXCEPT !.phase = ph] \in Pod /\ [phase |-> "up", cid |-> c] \in Pod
  BY DEF Pod
<1>2. sset \in [Roles -> StatefulSet] /\ pod \in [Roles -> [Ords -> Pod]]
      /\ guest \in [Roles -> [Ords -> Guest]] /\ faults \in Nat
  BY DEF Inv, TypeOK
<1>3. CASE PodStart(r, o)
  <2>1. [phase |-> "up", cid |-> pod[r][o].cid + 1] \in Pod
    BY <1>2 DEF Pod
  <2>2. pod' \in [Roles -> [Ords -> Pod]]
    BY <1>2, <1>3, <2>1 DEF PodStart
  <2> QED  BY <1>2, <1>3, <2>2, EnvStepInv DEF PodStart
<1>4. CASE PodStop(r, o)
  <2>1. pod' \in [Roles -> [Ords -> Pod]]
    BY <1>1, <1>2, <1>4 DEF PodStop
  <2> QED  BY <1>2, <1>4, <2>1, KeptType, EnvStepInv DEF PodStop
<1>5. CASE \E how \in {"absent", "down"} : PodRestart(r, o, how)
  <2> PICK how \in {"absent", "down"} : PodRestart(r, o, how)
    BY <1>5
  <2>1. pod' \in [Roles -> [Ords -> Pod]]
    BY <1>1, <1>2 DEF PodRestart
  <2>2. faults' \in Nat
    BY <1>2, FaultType DEF PodRestart
  <2> QED  BY <1>2, <2>1, <2>2, KeptType, EnvStepInv DEF PodRestart
<1>6. CASE \E ok \in BOOLEAN : ScriptEnds(r, o, ok)
  <2> PICK ok \in BOOLEAN : ScriptEnds(r, o, ok)
    BY <1>6
  <2>1. guest' \in [Roles -> [Ords -> Guest]]
    BY <1>2, EndedType DEF ScriptEnds
  <2>2. faults' \in Nat
    BY <1>2, FaultType DEF ScriptEnds
  <2> QED  BY <1>2, <2>1, <2>2, EnvStepInv DEF ScriptEnds
<1> QED  BY <1>3, <1>4, <1>5, <1>6

LEMMA SsetDeleteInv ==
  ASSUME Inv, NEW r \in Roles, SsetDelete(r)
  PROVE  Inv'
<1>1. \A x \in StatefulSet : [x EXCEPT !.live = FALSE] \in StatefulSet
  BY DEF StatefulSet
<1>2. sset' \in [Roles -> StatefulSet]
  BY <1>1 DEF SsetDelete, Inv, TypeOK
<1>3. faults' \in Nat
  BY FaultType DEF SsetDelete, Inv, TypeOK
<1> QED  BY <1>2, <1>3, EnvStepInv DEF SsetDelete, Inv, TypeOK

-----------------------------------------------------------------------------
(* The invariant. *)

LEMMA InitInv == Init => Inv
<1> SUFFICES ASSUME Init PROVE Inv
  OBVIOUS
<1>1. stat \in Status /\ Sound(stat)
  BY NoMemberSafe DEF Init, Status, Sound, ListOrdered
<1>2. NoSpec \in [Roles -> Want] /\ NoStates \in [Roles -> [Ords -> MemberState]]
  BY MaxMembersAssumption DEF NoSpec, NoStates, Want, MemberState
<1>3. BlankGuest \in Guest
  BY DEF BlankGuest, Guest
<1> QED
  BY <1>1, <1>2, <1>3, SpecAssumption
     DEF Init, Inv, TypeOK, StatefulSet, Pod, Phases

LEMMA NextInv == Inv /\ [Next]_vars => Inv'
<1> SUFFICES ASSUME Inv, [Next]_vars PROVE Inv'
  OBVIOUS
<1>1. CASE Reconcile
  BY <1>1, FirstPassInv, BeginPassInv, BeginPassOverwrittenInv, BeginPassNoClusterInv,
     BeginPassNoSsetInv, BeginPassNoServiceInv, UpdateReadyMembersInv, HandleRoleInv,
     PanicInRoleInv, DiesInRoleInv, StartNotifyInv, DeliverInv, WriteStatusInv, CrashInv DEF Reconcile
<1>2. CASE Environment
  BY <1>2, ChangeSpecInv, ChangeConnectionsInv, PodStepInv, SsetDeleteInv
     DEF Environment
<1>3. CASE UNCHANGED vars
  BY <1>3 DEF vars, Inv, TypeOK, Sound
<1> QED  BY <1>1, <1>2, <1>3 DEF Next

LEMMA Invariance == Spec => []Inv
BY InitInv, NextInv, PTL DEF Spec

\* Every reachable state is typed.
THEOREM TypeCorrect == Spec => []TypeOK
<1>1. Inv => TypeOK
  BY DEF Inv
<1> QED  BY <1>1, Invariance, PTL

\* No member is ever ahead of the configmeta it was given, and none of that ahead
\* of the generation to process, in the stored status or in a pass's copy.
THEOREM GenerationsStayOrdered == Spec => []GenerationsOrdered
<1>1. Inv => GenerationsOrdered
  BY DEF Inv, Sound, ListOrdered, GenerationsOrdered
<1> QED  BY <1>1, Invariance, PTL

-----------------------------------------------------------------------------
(***************************************************************************)
(* The reconciler's member lists implement MemberList.tla, for any roles,  *)
(* counts, moves and faults.  A status write may be the outcome of many    *)
(* steps, so that the invariant compares the copy that a pass works on     *)
(* with the stored status it started from: the copy is one step of the     *)
(* abstract list away.  Shrinking leaves a member that is being created    *)
(* where it is, which would cost the list its shape if roles were not left *)
(* alone as long as there is one (Postponed).                              *)
(*                                                                         *)
(* None of it survives a pass whose copy is overwritten by the reply to an *)
(* update of its own: the StatefulSet may then have been scaled, and nodes *)
(* been announced, for lists that nobody remembers.  From here on no pass  *)
(* is one of those.                                                        *)
(***************************************************************************)

\* No pass loses its copy to the reply to the annotation update.
KeepsCopy == [][~BeginPassOverwritten]_vars

Leaving == {"deletePending", "deleting", "gone"}

\* The members in service are the first ones.
Dense(ms) == \E n \in 0 .. MaxMembers : With(ms, Requested) = 0 .. (n - 1)

\* From one list to another in a step of MemberList.
Moves(old, new) ==
  \/ /\ With(old, Leaving) = {} /\ With(new, Leaving) = {}
     /\ With(old, Requested) \subseteq With(new, Requested)
  \/ /\ With(new, Requested) \subseteq With(old, Requested)
     /\ With(new, Leaving) \subseteq
          With(old, Leaving) \cup (With(old, Requested) \ With(new, Requested))

\* What the member pass goes by, and hands out, is what its copy has.
SnapIsCurrent ==
  /\ phase \in {"update", "members", "blocked"} => configmeta = Listed(cr, want)
  /\ phase = "update" => snap = States(cr)
  /\ phase \in {"members", "blocked"} =>
       \A r \in todo, o \in Ords : snap[r][o] = cr.mem[r][o].state

ListInv ==
  /\ Inv
  /\ \A r \in Roles : Dense(stat.mem[r]) /\ Dense(cr.mem[r])
  /\ \A r \in Roles : Moves(stat.mem[r], cr.mem[r])
  /\ SnapIsCurrent

\* Lists with the same members in service and on their way out.
Alike(a, b) == /\ With(a, Requested) = With(b, Requested)
               /\ With(a, Leaving) = With(b, Leaving)

-----------------------------------------------------------------------------
(* Lists. *)

LEMMA DenseAlike == ASSUME NEW a, NEW b, Alike(a, b), Dense(a) PROVE Dense(b)
BY DEF Dense, Alike

LEMMA MovesAlike ==
  ASSUME NEW old, NEW a, NEW b, Alike(a, b), Moves(old, a)
  PROVE  Moves(old, b)
BY DEF Moves, Alike

LEMMA MovesNowhere == ASSUME NEW a, NEW b, Alike(a, b) PROVE Moves(a, b)
BY DEF Moves, Alike

LEMMA SameStates ==
  ASSUME NEW a, NEW b, \A o \in Ords : a[o].state = b[o].state
  PROVE  Alike(a, b)
BY DEF Alike, With

LEMMA ListedAlike ==
  ASSUME NEW st, NEW new, new.name = st.name, \A r \in Roles : Alike(st.mem[r], new.mem[r])
  PROVE  \A w : Listed(new, w) = Listed(st, w)
BY DEF Listed, Alike

\* Whoever is present is in service or leaving.
LEMMA PresentIs ==
  ASSUME NEW ms \in Members
  PROVE  /\ Present(ms) = With(ms, Requested) \cup With(ms, Leaving)
         /\ With(ms, Requested) \cap With(ms, Leaving) = {}
BY DEF Present, With, Members, Member, MemberState, Requested, Leaving

LEMMA ListSets ==
  ASSUME NEW ms
  PROVE  /\ IsFiniteSet(Ords)
         /\ IsFiniteSet(Present(ms)) /\ IsFiniteSet(With(ms, Requested))
<1>1. IsFiniteSet(Ords)
  BY MaxMembersAssumption, FS_Interval DEF Ords
<1> QED  BY <1>1, FS_Subset DEF Present, With

LEMMA FirstOnes ==
  ASSUME NEW n \in Nat
  PROVE  Cardinality(0 .. (n - 1)) = n
<1>1. 0 \in Int /\ n - 1 \in Int
  OBVIOUS
<1>2. Cardinality(0 .. (n - 1)) = IF 0 > n - 1 THEN 0 ELSE (n - 1) - 0 + 1
  BY <1>1, FS_Interval
<1> QED  BY <1>2

\* A list that may grow has nobody leaving.
LEMMA NobodyLeaving ==
  ASSUME NEW ms \in Members, Pop(ms) = Count(ms)
  PROVE  With(ms, Leaving) = {} /\ Present(ms) = With(ms, Requested)
<1>1. With(ms, Requested) \subseteq Present(ms)
  BY PresentIs
<1>2. Present(ms) = With(ms, Requested)
  BY <1>1, ListSets, FS_Subset DEF Pop, Count
<1> QED  BY <1>2, PresentIs

LEMMA GrownMoves ==
  ASSUME NEW ms \in Members, Dense(ms), NEW n \in 0 .. MaxMembers, n >= Count(ms),
         Pop(ms) = Count(ms)
  PROVE  Dense(Grown(ms, n)) /\ Moves(ms, Grown(ms, n))
<1>1. With(ms, Leaving) = {} /\ Present(ms) = With(ms, Requested)
  BY NobodyLeaving
<1>2. PICK k \in 0 .. MaxMembers : With(ms, Requested) = 0 .. (k - 1)
  BY DEF Dense
<1>3. Pop(ms) = k /\ k <= n
  BY <1>1, <1>2, FirstOnes, MaxMembersAssumption DEF Pop, Count
<1>4. \A o \in Ords : Grown(ms, n)[o] = IF k <= o /\ o < n THEN NewMember ELSE ms[o]
  BY <1>3 DEF Grown
<1>5. NewMember.state = "createPending"
  BY DEF NewMember, NoMember
<1>6. With(Grown(ms, n), Requested) = 0 .. (n - 1)
  BY <1>2, <1>3, <1>4, <1>5, MaxMembersAssumption DEF With, Requested, Ords
<1>7. With(Grown(ms, n), Leaving) = {}
  BY <1>1, <1>4, <1>5 DEF With, Leaving
<1> QED  BY <1>1, <1>2, <1>3, <1>6, <1>7, MaxMembersAssumption DEF Dense, Moves

\* In front of the members that leave, list index and ordinal are the same.
LEMMA IndexInService ==
  ASSUME NEW ms \in Members, NEW k \in 0 .. MaxMembers,
         With(ms, Requested) = 0 .. (k - 1), NEW o \in Ords
  PROVE  (o < k => Index(ms, o) = o) /\ (o >= k => Index(ms, o) >= k)
<1> DEFINE before == {p \in Present(ms) : p < o}
<1>1. With(ms, Requested) \subseteq Present(ms) /\ Present(ms) \subseteq Ords
  BY PresentIs DEF Present
<1>2. k \in Nat /\ o \in Nat /\ Ords \subseteq Nat
  BY MaxMembersAssumption DEF Ords
<1>3. CASE o < k
  <2>1. \A p \in Ords : p < o => p \in Present(ms)
    BY <1>1, <1>2, <1>3
  <2>2. 0 .. (o - 1) \subseteq Ords
    BY MaxMembersAssumption DEF Ords
  <2>3. before = 0 .. (o - 1)
    <3>1. ASSUME NEW p \in before PROVE p \in 0 .. (o - 1)
      <4>1. p \in Ords /\ p < o
        BY <1>1
      <4> QED  BY <1>2, <4>1 DEF Ords
    <3>2. ASSUME NEW p \in 0 .. (o - 1) PROVE p \in before
      BY <1>2, <2>1, <2>2
    <3> HIDE DEF before
    <3> QED  BY <3>1, <3>2
  <2> QED  BY <1>2, <1>3, <2>3, FirstOnes DEF Index
<1>4. CASE o >= k
  <2>1. 0 .. (k - 1) \subseteq before
    BY <1>1, <1>2, <1>4
  <2>2. IsFiniteSet(before)
    BY ListSets, FS_Subset
  <2>3. Cardinality(0 .. (k - 1)) <= Cardinality(before)
    BY <2>1, <2>2, FS_Subset
  <2> QED  BY <1>2, <1>4, <2>3, FirstOnes DEF Index
<1> QED  BY <1>2, <1>3, <1>4

LEMMA ShrunkMoves ==
  ASSUME NEW ms \in Members, Dense(ms), NEW n \in 0 .. MaxMembers, n < Count(ms),
         With(ms, {"creating"}) = {}
  PROVE  Dense(Shrunk(ms, n)) /\ Moves(ms, Shrunk(ms, n))
<1>1. PICK k \in 0 .. MaxMembers : With(ms, Requested) = 0 .. (k - 1)
  BY DEF Dense
<1>2. n < k /\ k \in Nat /\ n \in Nat
  <2>1. k \in Nat /\ n \in Nat
    BY MaxMembersAssumption
  <2>2. Count(ms) = k
    BY <1>1, <2>1, FirstOnes DEF Count
  <2> QED  BY <2>1, <2>2
<1>3. \A o \in Ords : o < n => Shrunk(ms, n)[o] = ms[o]
  <2> SUFFICES ASSUME NEW o \in Ords, o < n PROVE Shrunk(ms, n)[o] = ms[o]
    OBVIOUS
  <2>1. o \in Nat
    BY MaxMembersAssumption DEF Ords
  <2>2. Index(ms, o) = o
    BY <1>1, <1>2, <2>1, IndexInService
  <2> QED  BY <1>2, <2>1, <2>2 DEF Shrunk
<1>4. \A o \in Ords : o >= n => Shrunk(ms, n)[o] = Dropped(ms[o])
  <2> SUFFICES ASSUME NEW o \in Ords, o >= n
               PROVE  Shrunk(ms, n)[o] = Dropped(ms[o])
    OBVIOUS
  <2>1. Index(ms, o) >= n
    <3>1. k \in Nat /\ n \in Nat /\ o \in Nat
      BY MaxMembersAssumption DEF Ords
    <3>2. CASE o < k
      BY <1>1, <3>1, <3>2, IndexInService
    <3>3. CASE o >= k
      <4>1. Index(ms, o) \in Nat
        BY ListSets, FS_Subset, FS_CardinalityType DEF Index
      <4> QED  BY <1>1, <1>2, <3>1, <3>3, <4>1, IndexInService
    <3> QED  BY <3>1, <3>2, <3>3
  <2> QED  BY <2>1 DEF Shrunk
<1>5. \A o \in Ords : /\ ms[o].state \in Requested => Dropped(ms[o]).state \in Leaving
                      /\ ms[o].state \notin Requested => Dropped(ms[o]).state = ms[o].state
  BY DEF Dropped, Members, Member, MemberState, With, Requested, Leaving
<1>6. With(Shrunk(ms, n), Requested) = 0 .. (n - 1)
  BY <1>1, <1>2, <1>3, <1>4, <1>5, MaxMembersAssumption DEF With, Requested, Leaving, Ords
<1>7. With(Shrunk(ms, n), Leaving) \subseteq
        With(ms, Leaving) \cup (With(ms, Requested) \ With(Shrunk(ms, n), Requested))
  BY <1>3, <1>4, <1>5, MaxMembersAssumption DEF With, Requested, Leaving, Ords
<1> QED  BY <1>1, <1>2, <1>6, <1>7, MaxMembersAssumption DEF Dense, Moves

LEMMA StrandedMoves ==
  ASSUME NEW ms \in Members
  PROVE  Dense(AllStranded(ms)) /\ Moves(ms, AllStranded(ms))
<1>1. \A o \in Ords : /\ AllStranded(ms)[o].state \notin Requested
                      /\ ms[o].state = "none" => AllStranded(ms)[o].state = "none"
  BY DEF AllStranded, Stranded, Members, Member, MemberState, Requested
<1>2. With(AllStranded(ms), Requested) = {}
  BY <1>1 DEF With
<1>3. With(AllStranded(ms), Leaving) \subseteq Present(ms)
  BY <1>1 DEF With, Present, Leaving
<1>4. 0 .. (0 - 1) = {} /\ 0 \in 0 .. MaxMembers
  BY MaxMembersAssumption
<1>5. Dense(AllStranded(ms))
  BY <1>2, <1>4 DEF Dense
<1> QED  BY <1>2, <1>3, <1>5, PresentIs DEF Moves

LEMMA CompactedMoves ==
  ASSUME NEW old, NEW ms, Moves(old, ms), Dense(ms)
  PROVE  Moves(old, Compacted(ms)) /\ Dense(Compacted(ms))
<1>1. NoMember.state = "none"
  BY DEF NoMember
<1>2. /\ With(Compacted(ms), Requested) = With(ms, Requested)
      /\ With(Compacted(ms), Leaving) \subseteq With(ms, Leaving)
  BY <1>1 DEF Compacted, With, Requested, Leaving
<1> QED  BY <1>2 DEF Moves, Dense

-----------------------------------------------------------------------------
(* The start of a pass. *)

\* Looking at the containers moves members within the service only.
LEMMA CheckedAlike ==
  ASSUME Inv, NEW r \in Roles
  PROVE  Alike(stat.mem[r], Checked(r)) /\ Present(stat.mem[r]) = Present(Checked(r))
<1>1. \A o \in Ords : stat.mem[r][o] \in Member
  BY DEF Inv, TypeOK, Status
<1>2. ASSUME NEW m \in Member, NEW p
      PROVE  \/ ContainerChecked(m, r, p).state = m.state
             \/ /\ m.state \in {"ready", "configError"}
                /\ ContainerChecked(m, r, p).state = "createPending"
  BY DEF ContainerChecked, Member
<1>3. \A o \in Ords :
        \/ Checked(r)[o].state = stat.mem[r][o].state
        \/ /\ stat.mem[r][o].state \in {"ready", "configError"}
           /\ Checked(r)[o].state = "createPending"
  BY <1>1, <1>2 DEF Checked
<1> QED  BY <1>3 DEF Alike, With, Present, Requested, Leaving

LEMMA DesiredType == ASSUME Inv, NEW r \in Roles PROVE Desired(r) \in 0 .. MaxMembers
BY MaxMembersAssumption DEF Desired, Inv, TypeOK, Want

LEMMA RoleMembersMoves ==
  ASSUME Inv, NEW r \in Roles, Dense(stat.mem[r]), ~Postponed
  PROVE  Dense(RoleMembers(r)) /\ Moves(stat.mem[r], RoleMembers(r))
<1> DEFINE ms == Checked(r)
<1>1. /\ ms \in Members /\ Alike(stat.mem[r], ms) /\ Dense(ms)
      /\ Moves(stat.mem[r], ms)
  BY CheckedSafe, CheckedAlike, DenseAlike, MovesNowhere
<1>2. ASSUME NEW new, Moves(ms, new) PROVE Moves(stat.mem[r], new)
  BY <1>1, <1>2 DEF Moves, Alike
<1>3. Desired(r) \in 0 .. MaxMembers
  BY DesiredType
<1>4. With(ms, {"creating"}) = {}
  BY DEF Postponed
<1>5. Pop(ms) \in Nat /\ Count(ms) \in Nat /\ Count(ms) <= Pop(ms)
  <2>1. With(ms, Requested) \subseteq Present(ms)
    BY <1>1, PresentIs
  <2> QED  BY <2>1, ListSets, FS_Subset, FS_CardinalityType DEF Pop, Count
<1> HIDE DEF ms
<1>6. CASE Creates(r)
  <2>1. Pop(ms) = 0 /\ Count(ms) = 0
    BY <1>5, <1>6 DEF Creates, ms
  <2>2. Dense(Grown(ms, Desired(r))) /\ Moves(ms, Grown(ms, Desired(r)))
    BY <1>1, <1>3, <2>1, GrownMoves, MaxMembersAssumption
  <2>3. RoleMembers(r) = Grown(ms, Desired(r))
    BY <1>5, <1>6, <2>1 DEF RoleMembers, ms, Creates, Restores, Resizes
  <2> QED  BY <1>2, <2>2, <2>3
<1>7. CASE ~Creates(r) /\ Restores(r)
  <2>1. RoleMembers(r) = AllStranded(ms)
    BY <1>7 DEF RoleMembers, ms, Creates, Restores, Resizes
  <2> QED  BY <1>1, <1>2, <2>1, StrandedMoves
<1>8. CASE ~Creates(r) /\ ~Restores(r) /\ Resizes(r)
  <2>1. RoleMembers(r) = Resized(ms, Desired(r))
    BY <1>8 DEF RoleMembers, ms
  <2>2. CASE MustGrow(ms, Desired(r))
    <3>1. Desired(r) >= Count(ms) /\ Pop(ms) = Count(ms)
      BY <1>3, <1>5, <2>2, MaxMembersAssumption DEF MustGrow
    <3>2. RoleMembers(r) = Grown(ms, Desired(r))
      BY <2>1, <2>2 DEF Resized
    <3> QED  BY <1>1, <1>2, <1>3, <3>1, <3>2, GrownMoves
  <2>3. CASE ~MustGrow(ms, Desired(r)) /\ MustShrink(ms, Desired(r))
    <3>1. RoleMembers(r) = Shrunk(ms, Desired(r)) /\ Desired(r) < Count(ms)
      BY <2>1, <2>3 DEF Resized, MustShrink
    <3> QED  BY <1>1, <1>2, <1>3, <1>4, <3>1, ShrunkMoves
  <2>4. CASE ~MustGrow(ms, Desired(r)) /\ ~MustShrink(ms, Desired(r))
    <3>1. RoleMembers(r) = ms
      BY <2>1, <2>4 DEF Resized
    <3> QED  BY <1>1, <3>1
  <2> QED  BY <2>2, <2>3, <2>4
<1>9. CASE ~Creates(r) /\ ~Restores(r) /\ ~Resizes(r)
  <2>1. RoleMembers(r) = ms
    BY <1>9 DEF RoleMembers, ms
  <2> QED  BY <1>1, <2>1
<1> QED  BY <1>6, <1>7, <1>8, <1>9

\* Every way a pass may start.
LEMMA SyncedMoves ==
  ASSUME Inv, \A r \in Roles : Dense(stat.mem[r]), NEW R, R = {} \/ ~Postponed
  PROVE  \A r \in Roles : /\ Dense(Synced(R).mem[r])
                          /\ Moves(stat.mem[r], Synced(R).mem[r])
<1>1. \A r \in Roles : Dense(Checked(r)) /\ Moves(stat.mem[r], Checked(r))
  BY CheckedAlike, DenseAlike, MovesNowhere
<1>2. \A r \in Roles : r \in R => Dense(RoleMembers(r)) /\ Moves(stat.mem[r], RoleMembers(r))
  BY RoleMembersMoves
<1>3. \A r \in Roles : Synced(R).mem[r] = IF r \in R THEN RoleMembers(r) ELSE Checked(r)
  BY DEF Synced, Inv, TypeOK, Status
<1> QED  BY <1>1, <1>2, <1>3

LEMMA BeginMoves ==
  ASSUME ListInv, Inv',
         \/ FirstPass \/ BeginPass \/ BeginPassNoCluster \/ BeginPassNoSset
         \/ BeginPassNoService
  PROVE  ListInv' /\ stat' = stat
<1>1. /\ stat' = stat /\ phase' \in {"notify", "update"}
      /\ phase' = "update" => BeginPass
  BY DEF FirstPass, BeginPass, BeginPassNoCluster, BeginPassNoSset, BeginPassNoService,
         StartPass
<1>2. CASE FirstPass
  <2>1. cr'.mem = stat.mem
    BY <1>2 DEF FirstPass, ListInv, Inv, TypeOK, Status
  <2>2. \A r \in Roles : Moves(stat.mem[r], stat.mem[r])
    BY MovesNowhere DEF Alike
  <2>3. phase' = "notify"
    BY <1>2 DEF FirstPass
  <2> QED  BY <1>1, <2>1, <2>2, <2>3 DEF ListInv, SnapIsCurrent
<1>3. CASE ~FirstPass
  <2>1. PICK R : (R = {} \/ ~Postponed) /\ cr'.mem = Synced(R).mem
    <3>1. ASSUME NEW R PROVE Synced(R) \in Status
      BY SyncedSafe DEF ListInv
    <3>2. SyncedRoles = {} \/ ~Postponed
      BY DEF SyncedRoles
    <3>3. CASE BeginPass \/ BeginPassNoService
      <4>1. cr'.mem = Synced(SyncedRoles).mem
        BY <3>1, <3>3 DEF BeginPass, BeginPassNoService, Status
      <4> QED  BY <3>2, <4>1
    <3>4. CASE BeginPassNoCluster
      BY <3>4 DEF BeginPassNoCluster
    <3>5. CASE BeginPassNoSset
      BY <3>5 DEF BeginPassNoSset
    <3> QED  BY <1>3, <3>3, <3>4, <3>5
  <2>2. \A r \in Roles : Dense(cr'.mem[r]) /\ Moves(stat.mem[r], cr'.mem[r])
    BY <2>1, SyncedMoves DEF ListInv
  <2>3. BeginPass => snap' = States(cr') /\ configmeta' = Listed(cr', want')
    <3>1. Synced(SyncedRoles) \in Status
      BY SyncedSafe DEF ListInv
    <3>2. BeginPass => /\ cr'.mem = Synced(SyncedRoles).mem
                       /\ cr'.name = Synced(SyncedRoles).name
      BY <3>1 DEF BeginPass, Status
    <3> QED  BY <3>2 DEF BeginPass, StartPass, States, Listed
  <2> QED  BY <1>1, <2>2, <2>3 DEF ListInv, SnapIsCurrent
<1> QED  BY <1>2, <1>3

-----------------------------------------------------------------------------
(* The member pass. *)

\* A step of a pass that moves members within the service, or on their way out.
LEMMA WithinPass ==
  ASSUME ListInv, Inv', stat' = stat, SnapIsCurrent',
         \A r \in Roles : Alike(cr.mem[r], cr'.mem[r])
  PROVE  ListInv'
<1>1. \A r \in Roles : Dense(cr'.mem[r]) /\ Moves(stat.mem[r], cr'.mem[r])
  BY DenseAlike, MovesAlike DEF ListInv
<1> QED  BY <1>1 DEF ListInv

LEMMA UpdateReadyMembersMoves == ListInv /\ Inv' /\ UpdateReadyMembers => ListInv'
<1> SUFFICES ASSUME ListInv, Inv', UpdateReadyMembers PROVE ListInv'
  OBVIOUS
<1>1. PICK upd : cr' = [cr EXCEPT !.mem = [r \in Roles |-> [o \in Ords |->
                          IF <<r, o>> \in upd THEN [cr.mem[r][o] EXCEPT !.cfg = cr.gen]
                                             ELSE cr.mem[r][o]]]]
  BY DEF UpdateReadyMembers
<1>2. \A r \in Roles, o \in Ords : cr.mem[r][o] \in Member
  BY DEF ListInv, Inv, TypeOK, Status
<1>3. \A r \in Roles, o \in Ords : cr'.mem[r][o].state = cr.mem[r][o].state
  BY <1>1, <1>2 DEF ListInv, Inv, TypeOK, Status, Member
<1>4. /\ snap' = snap /\ snap = States(cr) /\ stat' = stat /\ todo' \subseteq Roles
      /\ phase' # "update" /\ configmeta' = configmeta /\ configmeta = Listed(cr, want)
      /\ want' = want
  BY DEF UpdateReadyMembers, ListInv, SnapIsCurrent, Inv, TypeOK
<1>6. Listed(cr', want) = Listed(cr, want)
  <2>1. cr'.name = cr.name
    BY <1>1 DEF ListInv, Inv, TypeOK, Status
  <2> QED  BY <1>3, <2>1, SameStates, ListedAlike
<1>5. SnapIsCurrent'
  BY <1>3, <1>4, <1>6 DEF SnapIsCurrent, States
<1> QED  BY <1>3, <1>4, <1>5, SameStates, WithinPass

\* What setting up may make of a member that is being created.
LEMMA SetupStates ==
  ASSUME Inv, NEW r \in Roles, NEW o \in Ords, NEW fault, cr.mem[r][o].state = "creating"
  PROVE  Setup(r, o, fault).state \in {"creating", "ready", "configError"}
<1> DEFINE m == cr.mem[r][o]
           g == guest[r][o]
<1>1. m \in Member /\ m.state = "creating" /\ cr.gen \in Nat
  BY DEF Inv, TypeOK, Status
<1> HIDE DEF m, g
<1>2. \A x \in Member : Failed(x).state = "configError"
  BY DEF Failed, Member
<1>3. Retried(m) \in Member /\ Retried(m).state = "creating"
  BY <1>1, RetriedSafe DEF Retried, Member
<1>4. CaughtUp(m, g) \in Member
  BY <1>1, CaughtUpSafe
<1>5. Reread(m, g, fault).state \in {"creating", "ready", "configError"}
  <2>1. [CaughtUp(m, g) EXCEPT !.state = "ready"].state = "ready"
    BY <1>4 DEF Member
  <2> QED  BY <1>1, <1>2, <1>4, <2>1 DEF Reread
<1>6. LET pushed == [Retried(m) EXCEPT !.cfg = cr.gen]
      IN  /\ pushed.state = "creating" /\ pushed \in Member
          /\ Failed(pushed).state = "configError" /\ Failed(Retried(m)).state = "configError"
          /\ [pushed EXCEPT !.state = "ready"].state = "ready"
  <2>1. [Retried(m) EXCEPT !.cfg = cr.gen] \in Member
    BY <1>1, <1>3 DEF Member
  <2>2. [Retried(m) EXCEPT !.cfg = cr.gen].state = "creating"
    BY <1>3 DEF Member
  <2>3. \A x \in Member : [x EXCEPT !.state = "ready"].state = "ready"
    BY DEF Member
  <2> QED  BY <1>2, <1>3, <2>1, <2>2, <2>3
<1>7. \A p, push :
        Configured(m, r, p, g, cr.gen, push, fault).state \in {"creating", "ready", "configError"}
  BY <1>3, <1>5, <1>6 DEF Configured
<1>8. Unpackaged(m, fault).state \in {"ready", "configError"}
  BY <1>1, <1>2 DEF Unpackaged, Member
<1> QED  BY <1>7, <1>8 DEF Setup, m, g

LEMMA QueuedState ==
  ASSUME NEW m \in Member, NEW q, NEW s, NEW op, NEW nodes
  PROVE  /\ Queued(q, m, s, op, nodes).state = m.state
         /\ Concluded(Queued(q, m, s, op, nodes)).state = m.state
<1>1. ASSUME NEW pend PROVE [m EXCEPT !.pend = pend].state = m.state
  BY DEF Member
<1>2. PICK pend : Queued(q, m, s, op, nodes) \in {m, [m EXCEPT !.pend = pend]}
  BY DEF Queued
<1>3. ASSUME NEW x \in {m, [m EXCEPT !.pend = pend]}
      PROVE  [x EXCEPT !.conf = x.cing, !.cing = 0].state = m.state
  BY DEF Member
<1>4. Queued(q, m, s, op, nodes).state = m.state
  BY <1>1, <1>2
<1>5. Concluded(Queued(q, m, s, op, nodes)).state = m.state
  BY <1>2, <1>3, <1>4 DEF Concluded
<1> QED  BY <1>4, <1>5

LEMMA HandleRoleMoves ==
  ASSUME ListInv, Inv', NEW r \in Roles, HandleRole(r)
  PROVE  ListInv'
<1> DEFINE creating == In(r, {"creating"})
           set(f, cleaned) ==
             [o \in Ords |->
               IF o \in creating THEN Setup(r, o, f[o])
               ELSE IF phase = "blocked" THEN cr.mem[r][o]
               ELSE IF snap[r][o] = "createPending" THEN Launched(r, o)
               ELSE IF snap[r][o] \in {"deletePending", "deleting"}
                 THEN Removed(r, o, cleaned)
               ELSE cr.mem[r][o]]
           nodes(f, cleaned) ==
             Named(r, Arrived(r, set(f, cleaned))) \cup
             (IF phase = "members" /\ creating = {} THEN Named(r, Departed(r)) ELSE {})
           op == IF creating # {} THEN "addnodes" ELSE "delnodes"
           new(f, cleaned) ==
             [q \in Roles |-> [o \in Ords |->
               LET m == IF q = r THEN set(f, cleaned)[o] ELSE cr.mem[q][o]
                   told == Queued(q, m, snap[q][o], op, nodes(f, cleaned))
               IN  IF q = r /\ o \in creating THEN Concluded(told) ELSE told]]
<1>1. PICK f \in FaultChoices(r), cleaned \in SUBSET Cleanable(r) :
        cr' = [cr EXCEPT !.mem = new(f, cleaned)]
  BY DEF HandleRole
<1>2. /\ stat' = stat /\ snap' = snap /\ todo' = todo \ {r} /\ r \in todo
      /\ phase \in {"members", "blocked"} /\ phase' \in {phase, "notify"}
  BY DEF HandleRole
<1>3. /\ Inv /\ \A q \in Roles, o \in Ords : cr.mem[q][o] \in Member
      /\ \A o \in Ords : snap[r][o] = cr.mem[r][o].state
  BY <1>2 DEF ListInv, Inv, TypeOK, Status, SnapIsCurrent
<1>4. \A o \in Ords : set(f, cleaned)[o] \in Member
  BY <1>3, SetupSafe, LaunchedSafe, RemovedSafe
<1>5. Alike(cr.mem[r], set(f, cleaned))
  <2> SUFFICES ASSUME NEW o \in Ords
               PROVE  \/ set(f, cleaned)[o].state = cr.mem[r][o].state
                      \/ /\ cr.mem[r][o].state \in Requested
                         /\ set(f, cleaned)[o].state \in Requested
                      \/ /\ cr.mem[r][o].state \in Leaving
                         /\ set(f, cleaned)[o].state \in Leaving
    BY DEF Alike, With, Requested, Leaving
  <2>1. CASE o \in creating
    <3>1. cr.mem[r][o].state = "creating" /\ set(f, cleaned)[o] = Setup(r, o, f[o])
      BY <1>3, <2>1 DEF In
    <3> QED  BY <1>3, <3>1, SetupStates DEF Requested
  <2>2. Launched(r, o).state \in {"creating", cr.mem[r][o].state}
    BY <1>3 DEF Launched, Member
  <2>3. Removed(r, o, cleaned).state \in {"deleting", "gone", cr.mem[r][o].state}
    BY <1>3 DEF Removed, Member
  <2>4. CASE o \notin creating
    BY <1>3, <2>2, <2>3, <2>4 DEF Requested, Leaving
  <2> QED  BY <2>1, <2>4
<1> HIDE DEF set, creating, nodes, op
<1>6. cr'.mem = new(f, cleaned)
  BY <1>1, <1>3 DEF Inv, TypeOK, Status
<1>7. ASSUME NEW q \in Roles, NEW o \in Ords
      PROVE  cr'.mem[q][o].state = IF q = r THEN set(f, cleaned)[o].state ELSE cr.mem[q][o].state
  BY <1>3, <1>4, <1>6, QueuedState
<1>8. \A q \in Roles : Alike(cr.mem[q], cr'.mem[q])
  BY <1>5, <1>7, SameStates DEF Alike, With
<1>10. cr'.name = cr.name /\ want' = want /\ configmeta' = configmeta
  BY <1>1, <1>3 DEF HandleRole, Inv, TypeOK, Status
<1>11. Listed(cr', want') = Listed(cr, want)
  BY <1>8, <1>10, ListedAlike
<1>9. SnapIsCurrent'
  BY <1>2, <1>7, <1>10, <1>11 DEF SnapIsCurrent, ListInv, Inv, TypeOK
<1> QED  BY <1>2, <1>8, <1>9, WithinPass

-----------------------------------------------------------------------------
(* The end of a pass, and everybody else. *)

LEMMA StartNotifyMoves == ListInv /\ Inv' /\ StartNotify => ListInv'
<1> SUFFICES ASSUME ListInv, Inv', StartNotify PROVE ListInv'
  OBVIOUS
<1>1. \A r \in Roles, o \in Ords : cr.mem[r][o] \in Member
  BY DEF ListInv, Inv, TypeOK, Status
<1>2. \A m \in Member : [m EXCEPT !.setup = m.cfg].state = m.state
  BY DEF Member
<1>3. \A r \in Roles, o \in Ords : cr'.mem[r][o].state = cr.mem[r][o].state
  BY <1>1, <1>2 DEF StartNotify, ListInv, Inv, TypeOK, Status
<1>4. stat' = stat /\ phase' \in {"deliver", "write"}
  BY DEF StartNotify
<1> QED  BY <1>3, <1>4, SameStates, WithinPass DEF SnapIsCurrent

LEMMA DeliverMoves ==
  ASSUME ListInv, Inv', NEW r \in Roles, NEW o \in Ords, Deliver(r, o)
  PROVE  ListInv'
<1>1. PICK pend, setup :
        cr' = [cr EXCEPT !.mem[r][o] = [cr.mem[r][o] EXCEPT !.pend = pend, !.setup = setup]]
  BY DEF Deliver
<1>2. \A q \in Roles, p \in Ords : cr.mem[q][p] \in Member
  BY DEF ListInv, Inv, TypeOK, Status
<1>3. [cr.mem[r][o] EXCEPT !.pend = pend, !.setup = setup].state = cr.mem[r][o].state
  BY <1>2 DEF Member
<1>4. \A q \in Roles, p \in Ords : cr'.mem[q][p].state = cr.mem[q][p].state
  BY <1>1, <1>3 DEF ListInv, Inv, TypeOK, Status
<1>5. stat' = stat /\ phase' \in {"deliver", "write"}
  BY DEF Deliver
<1> QED  BY <1>4, <1>5, SameStates, WithinPass DEF SnapIsCurrent

\* A pass that dies leaves the stored status alone.
LEMMA PassLost ==
  ASSUME ListInv, Inv', stat' = stat, cr' = stat, PassOver
  PROVE  ListInv'
<1>1. \A r \in Roles : Moves(stat.mem[r], stat.mem[r])
  BY MovesNowhere DEF Alike
<1> QED  BY <1>1 DEF ListInv, SnapIsCurrent, PassOver

\* The steps of others touch neither the status nor anything a pass holds.
LEMMA OutsideMoves ==
  ASSUME ListInv, Inv', Environment \/ UNCHANGED vars
  PROVE  ListInv' /\ stat' = stat
<1>1. UNCHANGED <<stat, phase, cr, want, snap, configmeta, todo>>
  BY DEF Environment, ChangeSpec, ChangeConnections, PodStart, PodStop, PodRestart, ScriptEnds,
         SsetDelete, EnvStep, passVars, vars
<1> QED  BY <1>1 DEF ListInv, SnapIsCurrent

-----------------------------------------------------------------------------
(* The status write, which is the abstract step. *)

\* A list whose members are the first ones, after a move of its own, is one that
\* MemberList allows.
LEMMA ListsMove ==
  ASSUME \A r \in Roles : Dense(stat'.mem[r]) /\ Moves(stat.mem[r], stat'.mem[r])
  PROVE  Lists!ListNext
<1> SUFFICES ASSUME NEW r \in Roles
             PROVE  /\ \E n \in 0 .. MaxMembers : With(stat'.mem[r], Requested) = Lists!First(n)
                    /\ Moves(stat.mem[r], stat'.mem[r])
  BY DEF Lists!ListNext, Lists!Joins, Lists!Leaves, Moves, Leaving
<1> QED  BY DEF Dense, Lists!First

LEMMA WriteStatusMoves ==
  ASSUME ListInv, Inv', WriteStatus
  PROVE  ListInv' /\ Lists!ListNext
<1> DEFINE empty == [o \in Ords |-> NoMember]
<1>1. ASSUME NEW r \in Roles
      PROVE  stat'.mem[r] = IF cr.name[r] = 0 THEN empty ELSE Compacted(cr.mem[r])
  BY DEF WriteStatus, ListInv, Inv, TypeOK, Status
<1>2. ASSUME NEW old PROVE Dense(empty) /\ Moves(old, empty)
  <2>1. With(empty, Requested) = {} /\ With(empty, Leaving) = {}
    BY DEF With, NoMember, Requested, Leaving
  <2>2. 0 .. (0 - 1) = {} /\ 0 \in 0 .. MaxMembers
    BY MaxMembersAssumption
  <2> HIDE DEF empty
  <2> QED  BY <2>1, <2>2 DEF Dense, Moves
<1> HIDE DEF empty
<1>3. \A r \in Roles : Dense(stat'.mem[r]) /\ Moves(stat.mem[r], stat'.mem[r])
  BY <1>1, <1>2, CompactedMoves DEF ListInv
<1>4. \A r \in Roles : Moves(stat'.mem[r], stat'.mem[r])
  BY MovesNowhere DEF Alike
<1>5. cr' = stat' /\ phase' = "idle"
  BY DEF WriteStatus, PassOver
<1> QED  BY <1>3, <1>4, <1>5, ListsMove DEF ListInv, SnapIsCurrent

-----------------------------------------------------------------------------
(* The results. *)

LEMMA InitList == Init => ListInv /\ Lists!ListInit
<1> SUFFICES ASSUME Init PROVE ListInv /\ Lists!ListInit
  OBVIOUS
<1>1. \A r \in Roles : With(stat.mem[r], Requested) = {} /\ With(stat.mem[r], Leaving) = {}
  BY DEF Init, With, NoMember, Requested, Leaving
<1>2. 0 .. (0 - 1) = {} /\ 0 \in 0 .. MaxMembers
  BY MaxMembersAssumption
<1>3. \A r \in Roles : Dense(stat.mem[r])
  BY <1>1, <1>2 DEF Dense
<1>4. \A r \in Roles : Moves(stat.mem[r], stat.mem[r])
  BY MovesNowhere DEF Alike
<1>5. cr = stat /\ phase = "idle"
  BY DEF Init
<1>6. ListInv
  BY <1>3, <1>4, <1>5, InitInv DEF ListInv, SnapIsCurrent
<1>7. Lists!ListInit
  BY <1>1 DEF Lists!ListInit, Leaving
<1> QED  BY <1>6, <1>7

LEMMA StepList ==
  ListInv /\ [Next]_vars /\ [~BeginPassOverwritten]_vars =>
    ListInv' /\ [Lists!ListNext]_(Lists!listVars)
<1> SUFFICES ASSUME ListInv, [Next]_vars, [~BeginPassOverwritten]_vars
             PROVE  ListInv' /\ [Lists!ListNext]_(Lists!listVars)
  OBVIOUS
<1>1. Inv'
  BY NextInv DEF ListInv
<1>2. stat' = stat => [Lists!ListNext]_(Lists!listVars)
  BY DEF Lists!listVars
<1>3. CASE \/ FirstPass \/ BeginPass \/ BeginPassNoCluster \/ BeginPassNoSset
           \/ BeginPassNoService
  BY <1>1, <1>2, <1>3, BeginMoves
<1>4. CASE UpdateReadyMembers
  BY <1>1, <1>2, <1>4, UpdateReadyMembersMoves DEF UpdateReadyMembers
<1>5. ASSUME NEW r \in Roles, HandleRole(r) PROVE ListInv' /\ stat' = stat
  BY <1>1, <1>5, HandleRoleMoves DEF HandleRole
<1>6. ASSUME NEW r \in Roles, PanicInRole(r) \/ DiesInRole(r) PROVE ListInv' /\ stat' = stat
  <2>1. CASE PanicInRole(r)
    BY <1>1, <2>1 DEF PanicInRole, passVars, ListInv, SnapIsCurrent
  <2>2. CASE DiesInRole(r)
    BY <1>1, <2>2, PassLost DEF DiesInRole, ProcessDies
  <2> QED  BY <1>6, <2>1, <2>2
<1>7. CASE StartNotify
  BY <1>1, <1>2, <1>7, StartNotifyMoves DEF StartNotify
<1>8. ASSUME NEW r \in Roles, NEW o \in Ords, Deliver(r, o) PROVE ListInv' /\ stat' = stat
  BY <1>1, <1>8, DeliverMoves DEF Deliver
<1>9. CASE WriteStatus
  BY <1>1, <1>9, WriteStatusMoves
<1>10. CASE Crash
  BY <1>1, <1>2, <1>10, PassLost DEF Crash, ProcessDies
<1>11. CASE Environment \/ UNCHANGED vars
  BY <1>1, <1>2, <1>11, OutsideMoves
<1> QED
  BY <1>2, <1>3, <1>4, <1>5, <1>6, <1>7, <1>8, <1>9, <1>10, <1>11 DEF Next, Reconcile

\* The members a role keeps are the first ones of its StatefulSet, in the stored
\* status and in a pass's copy, as long as no reply overwrites that copy.
THEOREM MembersArePrefix == Spec /\ KeepsCopy => []RequestedPrefix
<1>1. ASSUME NEW ms, Dense(ms), NEW o \in With(ms, Requested), NEW p \in Ords, p < o
      PROVE  p \in With(ms, Requested)
  <2>1. PICK n \in 0 .. MaxMembers : With(ms, Requested) = 0 .. (n - 1)
    BY <1>1 DEF Dense
  <2>2. p \in Nat /\ n \in Nat
    BY MaxMembersAssumption DEF Ords
  <2> QED  BY <1>1, <2>1, <2>2
<1>2. ListInv => RequestedPrefix
  BY <1>1 DEF ListInv, RequestedPrefix
<1> QED  BY <1>2, InitList, StepList, PTL DEF Spec, KeepsCopy

\* However passes, faults, users and pods interleave, the stored member lists change
\* as MemberList lets them, as long as no reply overwrites what a pass has synced.
THEOREM ImplementsMemberList == Spec /\ KeepsCopy => ActsAsMemberList
BY InitList, StepList, PTL DEF Spec, KeepsCopy, ActsAsMemberList, Lists!ListSpec
=============================================================================
