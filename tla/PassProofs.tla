------------------------------ MODULE PassProofs ------------------------------
(***************************************************************************)
(* What a pass of ClusterReconciler.tla keeps between the status, the      *)
(* pods and the disks of the members, for any roles, counts, moves and     *)
(* faults.  First comes what each kind of step does to one member and its  *)
(* guest, then the invariants, each proved kind by kind.                   *)
(*                                                                         *)
(* The results need that something does not happen: all of them that no    *)
(* pass loses its copy (KeepsCopy), some that no pass dies halfway, that   *)
(* no StatefulSet fails to be created, that the connections stay as they   *)
(* are.  Such a hypothesis is an action that no step takes, and the README *)
(* says how the result fails without it.                                   *)
(***************************************************************************)
EXTENDS ClusterProofs

-----------------------------------------------------------------------------
(* What a step may do to a member m and its guest g, with pod p: n, h and q *)
(* are what they are afterwards.                                           *)

\* The records of the containers stay.
Keeps(m, n) == n.conf = m.conf /\ n.cing = m.cing

\* The start of a pass.
Begins(m, n, p, persistent) ==
  \/ n = m
  \/ /\ Keeps(m, n) /\ n.state = "createPending" /\ n.err = m.err
     /\ m.state \in {"ready", "configError"} /\ ContainerID(p) # m.conf
     /\ IF persistent THEN n.cfg = m.cfg /\ n.setup = m.setup /\ n.pend = m.pend
                      ELSE n.cfg = 0 /\ n.setup = 0 /\ n.pend = NoNotify
  \/ /\ Keeps(m, n) /\ n.state \in {"deletePending", "deleting"}
     /\ m.state = "deletePending" => n.state = "deletePending"
  \/ m.state = "none" /\ n = NewMember

Swept(g, h, p, q) ==
  \/ h = g /\ q = p
  \/ h = BlankGuest /\ q.phase = "absent" /\ q.cid = p.cid

SameFile(g, h) == h.file = g.file /\ h.fcid = g.fcid

\* New configmeta and notifications.
Refreshes(m, n, g, h, gen) ==
  /\ Keeps(m, n) /\ n.state = m.state /\ n.err = m.err
  /\ n.setup \in {m.setup, m.cfg}
  /\ n.cfg = m.cfg \/ (m.state = "ready" /\ m.cfg # 0 /\ n.cfg = gen)
  /\ SameFile(g, h)

\* A failed setup is given up for a new one that does not start yet.
Forgets(m, n) == m.state = "creating" /\ m.err /\ ~n.err /\ n.setup = 0

\* The handlers of the member pass, which may hand out configmeta (push) or not.
Waits(m, n, g, h, push) ==
  /\ Keeps(m, n) /\ n.state = m.state /\ n.cfg = m.cfg
  /\ \/ n.err = m.err /\ n.setup = m.setup
     \/ Forgets(m, n) /\ ~push
  /\ h = g

Launches(m, n, g, h, p) ==
  /\ m.state = "createPending" /\ p.phase = "up"
  /\ n.state = "creating" /\ n.cing = p.cid /\ n.conf = m.conf
  /\ n.cfg = m.cfg /\ n.setup = m.setup /\ n.err = m.err
  /\ h = g

RunsScript(m, n, g, h, p, gen) ==
  /\ m.state = "creating" /\ Reaches(p, m.cing) /\ ~Settles(m, g)
  /\ n.state = "creating" /\ Keeps(m, n) /\ n.cfg = gen /\ ~n.err
  /\ n.setup = IF m.err THEN 0 ELSE m.setup
  /\ h.file = "running" /\ h.fcid = m.cing /\ h.view = g.view

\* Setup without a script to run: the configmeta is all there is to it.
HandsOut(m, n, g, h, p, gen) ==
  /\ m.state = "creating" /\ Reaches(p, m.cing) /\ ~Settles(m, g)
  /\ n.state = "ready" /\ n.conf = m.cing /\ n.cing = 0 /\ n.cfg = gen /\ ~n.err
  /\ n.setup = IF m.err THEN 0 ELSE m.setup
  /\ SameFile(g, h) /\ h.view = g.view

Readies(m, n, g, h, p, packaged) ==
  /\ m.state = "creating" /\ n.state = "ready" /\ n.conf = m.cing /\ n.cing = 0
  /\ packaged => /\ Reaches(p, m.cing) /\ ~m.err /\ ~n.err /\ g.file = "ok"
                 /\ n.cfg = m.cfg
                 /\ n.setup = IF g.fcid = m.cing THEN m.cfg ELSE m.setup
  /\ h = g

Breaks(m, n, g, h, gen) ==
  /\ m.state = "creating" /\ n.state = "configError" /\ n.conf = m.cing /\ n.cing = 0
  /\ n.err /\ n.cfg \in {m.cfg, gen}
  /\ SameFile(g, h)

Leaves(m, n, g, h) ==
  /\ m.state \in {"deletePending", "deleting"} /\ n.state \in {"deleting", "gone"}
  /\ Keeps(m, n)
  /\ h = IF n.state = "gone" THEN BlankGuest ELSE g

Handles(m, n, g, h, r, p, gen, push) ==
  \/ Waits(m, n, g, h, push)
  \/ push /\ Launches(m, n, g, h, p)
  \/ r \in Scripted /\ RunsScript(m, n, g, h, p, gen)
  \/ r \in Packaged \ Scripted /\ HandsOut(m, n, g, h, p, gen)
  \/ Readies(m, n, g, h, p, r \in Packaged)
  \/ Breaks(m, n, g, h, gen)
  \/ push /\ Leaves(m, n, g, h)

\* The configmeta in the guest is what it was, and so is the generation it is said to
\* be of, unless it has been replaced by the list of this pass.
Fed(m, n, g, h, listed) ==
  \/ n.state = "gone"
  \/ h.meta = listed
  \/ h.meta = g.meta /\ SameFile(g, h) /\ n.cfg = m.cfg

\* Where no fault occurs a member is found broken only if its container is not the
\* one being configured, or by the script of its own setup or an earlier one.
Blames(m, n, g, p) ==
  m.state = "creating" /\ n.state = "configError" =>
    ~Reaches(p, m.cing) \/ (~m.err /\ g.file = "fail")

\* The status write.
Stores(m, n) == n = m \/ (m.state \in {"none", "gone"} /\ n = NoMember)

\* Kubernetes and the scripts.
Happens(g, h, p, q, persistent) ==
  \/ h = g /\ q = p
  \/ p.phase # "up" /\ q.phase = "up" /\ q.cid = p.cid + 1 /\ h = g
  \/ /\ q.phase \in {"absent", "down"} /\ p.phase # "absent" /\ q.cid = p.cid
     /\ h = IF persistent THEN g ELSE BlankGuest
  \/ /\ q = p /\ p.phase = "up"
     /\ g.file = "running" /\ h.file \in {"ok", "fail"} /\ h.fcid = g.fcid
     /\ g.fcid = p.cid
     /\ h.meta = g.meta /\ h.view = IF h.file = "ok" THEN g.meta ELSE g.view

\* A role whose members the pass has yet to handle.
UnderWay(r) == phase = "update" \/ (phase \in {"members", "blocked"} /\ r \in todo)

SameHeader(st, new) ==
  new.state = st.state /\ new.gen = st.gen /\ new.hash = st.hash /\ new.name = st.name

\* The kinds of step.
Begun ==
  /\ stat' = stat
  /\ \A r \in Roles, o \in Ords :
       /\ Begins(stat.mem[r][o], cr'.mem[r][o], pod[r][o], r \in Persistent)
       /\ Swept(guest[r][o], guest'[r][o], pod[r][o], pod'[r][o])
       /\ guest'[r][o] # guest[r][o] \/ pod'[r][o] # pod[r][o] =>
            cr'.mem[r][o].state = "none" \/ cr'.mem[r][o] = NewMember

Refreshed ==
  /\ stat' = stat /\ pod' = pod /\ SameHeader(cr, cr')
  /\ \A r \in Roles : UnderWay(r)' => UnderWay(r)
  /\ \A r \in Roles, o \in Ords :
       /\ Refreshes(cr.mem[r][o], cr'.mem[r][o], guest[r][o], guest'[r][o], cr.gen)
       /\ Fed(cr.mem[r][o], cr'.mem[r][o], guest[r][o], guest'[r][o], Listed(cr, want))

Handled ==
  /\ stat' = stat /\ pod' = pod /\ SameHeader(cr, cr')
  /\ \A r \in Roles : UnderWay(r)' => UnderWay(r)
  /\ \A r \in Roles, o \in Ords :
       guest'[r][o] # guest[r][o] \/ cr'.mem[r][o].state # cr.mem[r][o].state =>
         UnderWay(r) /\ ~UnderWay(r)'
  /\ \A r \in Roles, o \in Ords :
       /\ Handles(cr.mem[r][o], cr'.mem[r][o], guest[r][o], guest'[r][o], r, pod[r][o],
                  cr.gen, phase = "members")
       /\ Fed(cr.mem[r][o], cr'.mem[r][o], guest[r][o], guest'[r][o], Listed(cr, want))
       /\ r \in Packaged /\ faults' = faults =>
            Blames(cr.mem[r][o], cr'.mem[r][o], guest[r][o], pod[r][o])

Stored ==
  /\ cr' = stat' /\ pod' = pod /\ guest' = guest /\ phase' = "idle"
  /\ SameHeader(cr, stat')
  /\ \A r \in Roles, o \in Ords : Stores(cr.mem[r][o], stat'.mem[r][o])

Outside ==
  /\ stat' = stat /\ cr' = cr /\ phase' = phase /\ todo' = todo
  /\ \A r \in Roles, o \in Ords :
       Happens(guest[r][o], guest'[r][o], pod[r][o], pod'[r][o], r \in Persistent)

\* A pass that dies halfway: what it did to the guests stays done.
PassDies == Crash \/ \E r \in Roles : DiesInRole(r)

Lost == /\ stat' = stat /\ cr' = stat /\ pod' = pod /\ guest' = guest
        /\ phase' = "idle"

Begin == BeginPass \/ BeginPassNoCluster \/ BeginPassNoSset \/ BeginPassNoService

\* A status with no StatefulSet for a role has no members of it.
Nameless(st) == \A r \in Roles : st.name[r] = 0 => Present(st.mem[r]) = {}

-----------------------------------------------------------------------------
(* The start of a pass. *)

\* The fates of a member whose container has been checked.
Fated(m, n) == n \in {m, Dropped(m), Stranded(m)} \/ (m.state = "none" /\ n = NewMember)

LEMMA FatedBegins ==
  ASSUME NEW m \in Member, NEW r, NEW p, NEW n, Fated(ContainerChecked(m, r, p), n)
  PROVE  Begins(m, n, p, r \in Persistent)
<1> DEFINE c == ContainerChecked(m, r, p)
           replaced == /\ Keeps(m, c) /\ c.state = "createPending" /\ c.err = m.err
                       /\ m.state \in {"ready", "configError"} /\ ContainerID(p) # m.conf
                       /\ IF r \in Persistent
                            THEN c.cfg = m.cfg /\ c.setup = m.setup /\ c.pend = m.pend
                            ELSE c.cfg = 0 /\ c.setup = 0 /\ c.pend = NoNotify
<1>1. c \in Member /\ (c = m \/ replaced)
  <2>1. c \in Member
    BY ContainerCheckedSafe
  <2> QED  BY <2>1 DEF ContainerChecked, Keeps, Member
<1>0. replaced => /\ Keeps(m, c) /\ c.state = "createPending"
                  /\ m.state \in {"ready", "configError"}
  OBVIOUS
<1>2. Fated(c, n)
  OBVIOUS
<1> HIDE DEF c
<1>3. ASSUME NEW x \in {Dropped(c), Stranded(c)}
      PROVE  \/ x = c
             \/ /\ Keeps(c, x) /\ x.state \in {"deletePending", "deleting"}
                /\ c.state = "deletePending" => x.state = "deletePending"
  BY <1>1 DEF Dropped, Stranded, Keeps, Member, MemberState
<1> HIDE DEF replaced
<1>7. CASE n = c
  BY <1>1, <1>7 DEF Begins, replaced
<1>4. CASE n \in {Dropped(c), Stranded(c)}
  <2>1. CASE c = m
    BY <1>3, <1>4, <2>1 DEF Begins
  <2>2. CASE c # m
    BY <1>0, <1>1, <1>3, <1>4, <1>7, <2>2 DEF Begins, Keeps
  <2> QED  BY <2>1, <2>2
<1>6. CASE c.state = "none" /\ n = NewMember
  BY <1>0, <1>1, <1>6 DEF Begins
<1> QED  BY <1>2, <1>4, <1>6, <1>7 DEF Fated

\* A list only grows where there is nobody.
LEMMA GrownFated ==
  ASSUME NEW ms \in Members, Dense(ms), NEW n \in 0 .. MaxMembers, Pop(ms) = Count(ms)
  PROVE  \A o \in Ords : Fated(ms[o], Grown(ms, n)[o])
<1>1. With(ms, Leaving) = {} /\ Present(ms) = With(ms, Requested)
  BY NobodyLeaving
<1>2. PICK k \in 0 .. MaxMembers : With(ms, Requested) = 0 .. (k - 1)
  BY DEF Dense
<1>3. Pop(ms) = k
  BY <1>1, <1>2, FirstOnes, MaxMembersAssumption DEF Pop
<1>4. \A o \in Ords : k <= o => ms[o].state = "none"
  BY <1>1, <1>2, MaxMembersAssumption DEF Present, Ords
<1> QED  BY <1>3, <1>4 DEF Grown, Fated

LEMMA RoleMembersFated ==
  ASSUME Inv, NEW r \in Roles, Dense(stat.mem[r])
  PROVE  \A o \in Ords : Fated(Checked(r)[o], RoleMembers(r)[o])
<1> DEFINE ms == Checked(r)
<1>1. ms \in Members /\ Dense(ms)
  BY CheckedSafe, CheckedAlike, DenseAlike
<1>2. Desired(r) \in 0 .. MaxMembers
  BY DesiredType
<1>3. Pop(ms) \in Nat /\ Count(ms) \in Nat /\ Count(ms) <= Pop(ms)
  <2>1. With(ms, Requested) \subseteq Present(ms)
    BY <1>1, PresentIs
  <2> QED  BY <2>1, ListSets, FS_Subset, FS_CardinalityType DEF Pop, Count
<1>4. \A o \in Ords : Fated(ms[o], ms[o]) /\ Fated(ms[o], AllStranded(ms)[o])
  BY DEF Fated, AllStranded
<1>5. \A o \in Ords : Fated(ms[o], Shrunk(ms, Desired(r))[o])
  BY DEF Fated, Shrunk
<1>6. Pop(ms) = Count(ms) => \A o \in Ords : Fated(ms[o], Grown(ms, Desired(r))[o])
  BY <1>1, <1>2, GrownFated
<1>7. Creates(r) => Pop(ms) = Count(ms)
  BY <1>3 DEF Creates
<1>8. MustGrow(ms, Desired(r)) => Pop(ms) = Count(ms)
  BY DEF MustGrow
<1> HIDE DEF ms
<1>9. RoleMembers(r) \in {ms, AllStranded(ms), Shrunk(ms, Desired(r))}
      \/ (RoleMembers(r) = Grown(ms, Desired(r)) /\ Pop(ms) = Count(ms))
  <2>1. CASE Creates(r)
    BY <1>7, <2>1 DEF RoleMembers, ms, Creates, Restores, Resizes
  <2>2. CASE ~Creates(r) /\ Restores(r)
    BY <2>2 DEF RoleMembers, ms, Creates, Restores, Resizes
  <2>3. CASE ~Creates(r) /\ ~Restores(r) /\ Resizes(r)
    BY <1>8, <2>3 DEF RoleMembers, ms, Resized
  <2>4. CASE ~Creates(r) /\ ~Restores(r) /\ ~Resizes(r)
    BY <2>4 DEF RoleMembers, ms
  <2> QED  BY <2>1, <2>2, <2>3, <2>4
<1>10. \A o \in Ords : Fated(ms[o], RoleMembers(r)[o])
  BY <1>4, <1>5, <1>6, <1>9
<1> QED  BY <1>10 DEF ms

LEMMA SyncedBegins ==
  ASSUME ListInv, NEW R, NEW r \in Roles, NEW o \in Ords
  PROVE  Begins(stat.mem[r][o], Synced(R).mem[r][o], pod[r][o], r \in Persistent)
<1>1. stat.mem[r][o] \in Member
  BY DEF ListInv, Inv, TypeOK, Status
<1>2. Checked(r)[o] = ContainerChecked(stat.mem[r][o], r, pod[r][o])
  BY DEF Checked
<1>3. Synced(R).mem[r] = IF r \in R THEN RoleMembers(r) ELSE Checked(r)
  BY DEF Synced, ListInv, Inv, TypeOK, Status
<1>4. Fated(Checked(r)[o], Synced(R).mem[r][o])
  BY <1>3, RoleMembersFated DEF ListInv, Fated
<1> QED  BY <1>1, <1>2, <1>4, FatedBegins

\* A new StatefulSet is for a role that had nobody.
LEMMA CreatedAreNew ==
  ASSUME Inv, NEW R, NEW r \in R \cap Created, NEW o \in Ords
  PROVE  Synced(R).mem[r][o].state = "none" \/ Synced(R).mem[r][o] = NewMember
<1>1. r \in Roles /\ Creates(r)
  BY DEF Created
<1>2. Synced(R).mem[r] = Grown(Checked(r), Desired(r))
  <2>1. Synced(R).mem[r] = RoleMembers(r)
    BY <1>1 DEF Synced, Inv, TypeOK, Status
  <2> QED  BY <1>1, <2>1 DEF RoleMembers, Creates, Restores, Resizes
<1>3. Present(Checked(r)) = {}
  BY <1>1, ListSets, FS_EmptySet DEF Creates, Pop
<1> QED  BY <1>2, <1>3 DEF Grown, Present

\* The roles that a pass synced before it went on or gave up.
LEMMA BegunFrom ==
  ASSUME Inv, Begin
  PROVE  \E R : /\ R = {} \/ ~Postponed
                /\ StartPass(R)
                /\ cr'.mem = Synced(R).mem /\ cr'.name = Synced(R).name
<1>1. \A R : Synced(R) \in Status
  BY SyncedSafe
<1>2. SyncedRoles = {} \/ ~Postponed
  BY DEF SyncedRoles
<1>3. CASE BeginPass \/ BeginPassNoService
  <2>1. cr'.mem = Synced(SyncedRoles).mem /\ cr'.name = Synced(SyncedRoles).name
    BY <1>1, <1>3 DEF BeginPass, BeginPassNoService, Status
  <2> QED  BY <1>2, <1>3, <2>1 DEF BeginPass, BeginPassNoService
<1>4. CASE BeginPassNoCluster
  BY <1>4 DEF BeginPassNoCluster
<1>5. CASE BeginPassNoSset
  BY <1>5 DEF BeginPassNoSset
<1> QED  BY <1>3, <1>4, <1>5 DEF Begin

LEMMA BeginBegun ==
  ASSUME ListInv, FirstPass \/ Begin
  PROVE  Begun
<1>1. CASE FirstPass
  <2>1. cr'.mem = stat.mem /\ stat' = stat /\ pod' = pod /\ guest' = guest
    BY <1>1 DEF FirstPass, ListInv, Inv, TypeOK, Status
  <2> QED  BY <2>1 DEF Begun, Begins, Swept
<1>2. CASE Begin
  <2>1. PICK R : /\ R = {} \/ ~Postponed
                 /\ StartPass(R)
                 /\ cr'.mem = Synced(R).mem /\ cr'.name = Synced(R).name
    BY <1>2, BegunFrom DEF ListInv
  <2>2. ASSUME NEW r \in Roles, NEW o \in Ords
        PROVE  Swept(guest[r][o], guest'[r][o], pod[r][o], pod'[r][o])
    <3>1. \A p \in Pod : LET q == [p EXCEPT !.phase = "absent"]
                         IN  q.phase = "absent" /\ q.cid = p.cid
      BY DEF Pod
    <3>2. pod[r][o] \in Pod
      BY DEF ListInv, Inv, TypeOK
    <3> QED  BY <2>1, <3>1, <3>2 DEF StartPass, NoPods, NoGuests, Swept
  <2>3. stat' = stat
    BY <2>1 DEF StartPass
  <2>4. ASSUME NEW r \in Roles, NEW o \in Ords,
               guest'[r][o] # guest[r][o] \/ pod'[r][o] # pod[r][o]
        PROVE  cr'.mem[r][o].state = "none" \/ cr'.mem[r][o] = NewMember
    <3>1. r \in R \cap Created
      BY <2>1, <2>4 DEF StartPass
    <3> QED  BY <2>1, <3>1, CreatedAreNew DEF ListInv
  <2> QED  BY <2>1, <2>2, <2>3, <2>4, SyncedBegins DEF Begun
<1> QED  BY <1>1, <1>2

-----------------------------------------------------------------------------
(* The member pass. *)

\* The ways in which the initial configuration of a member goes on or ends.
LEMMA ConfiguredCases ==
  ASSUME NEW m \in Member, m.state = "creating", NEW g \in Guest, NEW r, NEW p, NEW gen,
         NEW push \in BOOLEAN, NEW fault \in {"none", "early", "late"}
  PROVE  LET s == Configured(m, r, p, g, gen, push, fault)
             uploads == Uploads(m, p, g, push, fault)
         IN  \/ /\ s.state = "creating" /\ Keeps(m, s) /\ s.cfg = m.cfg
                /\ \/ s.err = m.err /\ s.setup = m.setup
                   \/ Forgets(m, s) /\ ~push
                /\ ~uploads
             \/ /\ s.state = "creating" /\ Keeps(m, s) /\ s.cfg = gen /\ ~s.err
                /\ s.setup = IF m.err THEN 0 ELSE m.setup
                /\ ~Settles(m, g) /\ uploads /\ fault = "none" /\ r \in Scripted
             \/ /\ s.state = "ready" /\ s.cing = m.cing /\ s.cfg = gen /\ ~s.err
                /\ s.setup = IF m.err THEN 0 ELSE m.setup
                /\ ~Settles(m, g) /\ uploads /\ fault = "none" /\ r \notin Scripted
             \/ /\ s.state = "ready" /\ s.cing = m.cing /\ s.cfg = m.cfg
                /\ Reaches(p, m.cing) /\ ~m.err /\ ~s.err /\ g.file = "ok"
                /\ s.setup = IF g.fcid = m.cing THEN m.cfg ELSE m.setup
                /\ ~uploads
             \/ /\ s.state = "configError" /\ s.cing = m.cing /\ s.err
                /\ uploads => fault = "late" /\ s.cfg = gen
                /\ ~uploads => s.cfg = m.cfg
                /\ fault = "none" => ~Reaches(p, m.cing) \/ (~m.err /\ g.file = "fail")
<1> DEFINE s == Configured(m, r, p, g, gen, push, fault)
           uploads == Uploads(m, p, g, push, fault)
           settled == Reaches(p, m.cing) /\ fault # "early" /\ Settles(m, g)
           retried == Retried(m)
           pushed  == [retried EXCEPT !.cfg = gen]
           caught  == CaughtUp(m, g)
<1>1. /\ retried \in Member /\ retried.state = "creating" /\ Keeps(m, retried)
      /\ retried.cfg = m.cfg /\ ~retried.err
      /\ IF m.err THEN retried.setup = 0 ELSE retried = m
  <2>1. retried \in Member
    BY RetriedSafe
  <2> QED  BY <2>1 DEF Retried, Member, Keeps
<1>2. /\ pushed.state = "creating" /\ Keeps(m, pushed) /\ pushed.cfg = gen /\ ~pushed.err
      /\ pushed.setup = retried.setup
      /\ Failed(pushed).state = "configError" /\ Failed(pushed).cing = m.cing
      /\ Failed(pushed).err /\ Failed(pushed).cfg = gen
      /\ LET x == [pushed EXCEPT !.state = "ready"]
         IN  /\ x.state = "ready" /\ x.cing = m.cing /\ x.cfg = gen
             /\ x.setup = retried.setup /\ ~x.err
      /\ Failed(retried).state = "configError" /\ Failed(retried).cing = m.cing
      /\ Failed(retried).err /\ Failed(retried).cfg = m.cfg
  <2> HIDE DEF retried
  <2> QED  BY <1>1 DEF Failed, Member, Keeps
<1>3. /\ caught \in Member /\ caught.state = "creating" /\ caught.cing = m.cing
      /\ caught.cfg = m.cfg /\ caught.err = m.err
      /\ caught.setup = IF g.fcid = m.cing THEN m.cfg ELSE m.setup
  <2>1. caught \in Member
    BY CaughtUpSafe
  <2> QED  BY <2>1 DEF CaughtUp, Member
<1> HIDE DEF retried, pushed, caught
<1>4. /\ Failed(caught).state = "configError" /\ Failed(caught).cing = m.cing
      /\ Failed(caught).err /\ Failed(caught).cfg = m.cfg
      /\ LET x == [caught EXCEPT !.state = "ready"]
         IN  /\ x.state = "ready" /\ x.cing = m.cing /\ x.cfg = m.cfg
             /\ x.setup = caught.setup /\ x.err = m.err
  BY <1>3 DEF Failed, Member
<1>5. CASE settled
  <2>1. s = Reread(m, g, fault) /\ ~uploads /\ ~m.err
    BY <1>5 DEF Configured, Uploads, Settles
  <2>2. \/ s = m
        \/ g.file = "ok" /\ s = [caught EXCEPT !.state = "ready"]
        \/ s = Failed(caught) /\ (fault = "none" => g.file = "fail")
    BY <1>5, <2>1 DEF Reread, caught, Settles, Guest
  <2> HIDE DEF s, uploads
  <2> QED  BY <1>3, <1>4, <1>5, <2>1, <2>2 DEF Keeps, s, uploads
<1>6. CASE ~settled /\ uploads
  <2>1. s = IF fault = "late" THEN Failed(pushed)
            ELSE IF r \in Scripted THEN pushed ELSE [pushed EXCEPT !.state = "ready"]
    BY <1>6 DEF Configured, pushed, retried, Uploads
  <2>2. (fault # "late" => fault = "none") /\ ~Settles(m, g)
    BY <1>6 DEF Uploads
  <2> HIDE DEF s, uploads
  <2> QED  BY <1>1, <1>2, <1>6, <2>1, <2>2 DEF s, uploads
<1>7. CASE ~settled /\ ~uploads
  <2>1. \/ s = Failed(retried) /\ (fault = "none" => ~Reaches(p, m.cing))
        \/ s = retried /\ (m.err => ~push)
    BY <1>7 DEF Configured, retried, Uploads
  <2> HIDE DEF s, uploads
  <2> QED  BY <1>1, <1>2, <1>7, <2>1 DEF s, uploads, Forgets
<1> QED  BY <1>5, <1>6, <1>7

\* Queueing a notification touches nothing else.
LEMMA QueuedKeeps ==
  ASSUME NEW m \in Member, NEW q, NEW s, NEW op, NEW nodes
  PROVE  LET n == Queued(q, m, s, op, nodes)
             c == Concluded(n)
         IN  /\ Keeps(m, n) /\ n.state = m.state /\ n.cfg = m.cfg /\ n.setup = m.setup
             /\ n.err = m.err
             /\ c.state = m.state /\ c.cfg = m.cfg /\ c.setup = m.setup /\ c.err = m.err
             /\ IF m.state = "creating" THEN Keeps(m, c)
                ELSE c.conf = m.cing /\ c.cing = 0
<1>1. PICK pend : Queued(q, m, s, op, nodes) \in {m, [m EXCEPT !.pend = pend]}
  BY DEF Queued
<1>2. ASSUME NEW n \in {m, [m EXCEPT !.pend = pend]}
      PROVE  /\ Keeps(m, n) /\ n.state = m.state /\ n.cfg = m.cfg /\ n.setup = m.setup
             /\ n.err = m.err
             /\ LET c == [n EXCEPT !.conf = n.cing, !.cing = 0]
                IN  /\ c.state = m.state /\ c.cfg = m.cfg /\ c.setup = m.setup
                    /\ c.err = m.err /\ c.conf = m.cing /\ c.cing = 0
  BY DEF Member, Keeps
<1> QED  BY <1>1, <1>2 DEF Concluded

\* A member that is being set up: n is what becomes of it, h of its guest.
SetsUp(m, n, g, h, r, p, gen, push, fault, listed) ==
  LET s == IF r \in Packaged THEN Configured(m, r, p, g, gen, push, fault)
           ELSE Unpackaged(m, fault)
  IN  /\ n.state = s.state /\ n.cfg = s.cfg /\ n.setup = s.setup /\ n.err = s.err
      /\ IF s.state = "creating" THEN Keeps(s, n) ELSE n.conf = s.cing /\ n.cing = 0
      /\ h = IF r \in Packaged /\ Uploads(m, p, g, push, fault)
               THEN AfterUpload(g, m, listed, fault = "none" /\ r \in Scripted) ELSE g

LEMMA SetupHandles ==
  ASSUME NEW m \in Member, m.state = "creating", NEW g \in Guest, NEW r, NEW p, NEW gen,
         NEW push \in BOOLEAN, NEW fault \in {"none", "early", "late"}, NEW listed,
         NEW n, NEW h, SetsUp(m, n, g, h, r, p, gen, push, fault, listed)
  PROVE  /\ Handles(m, n, g, h, r, p, gen, push)
         /\ Fed(m, n, g, h, listed)
         /\ r \in Packaged /\ fault = "none" => Blames(m, n, g, p)
<1> DEFINE packaged == r \in Packaged
           s == IF packaged THEN Configured(m, r, p, g, gen, push, fault)
                ELSE Unpackaged(m, fault)
<1>0. /\ n.state = s.state /\ n.cfg = s.cfg /\ n.setup = s.setup /\ n.err = s.err
      /\ IF s.state = "creating" THEN Keeps(s, n) ELSE n.conf = s.cing /\ n.cing = 0
      /\ h = IF packaged /\ Uploads(m, p, g, push, fault)
               THEN AfterUpload(g, m, listed, fault = "none" /\ r \in Scripted) ELSE g
  BY DEF SetsUp
<1> DEFINE uploads == Uploads(m, p, g, push, fault)
<1>1. CASE ~packaged
  <2>1. /\ s.state \in {"ready", "configError"} /\ s.cing = m.cing /\ s.cfg = m.cfg
        /\ s.state = "configError" => s.err
    BY <1>1 DEF Unpackaged, Failed, Member
  <2> HIDE DEF s
  <2> QED  BY <1>0, <1>1, <2>1 DEF Handles, Readies, Breaks, SameFile, Fed
<1>2. CASE packaged
  <2>1. LET up == AfterUpload(g, m, listed, TRUE)
            no == AfterUpload(g, m, listed, FALSE)
        IN  /\ up.file = "running" /\ up.fcid = m.cing /\ up.view = g.view
            /\ SameFile(g, no) /\ no.view = g.view /\ up.meta = listed /\ no.meta = listed
    BY DEF AfterUpload, SameFile, Guest
  <2>2. uploads => Reaches(p, m.cing)
    BY DEF Uploads
  <2>3. \/ /\ s.state = "creating" /\ Keeps(m, s) /\ s.cfg = m.cfg
           /\ \/ s.err = m.err /\ s.setup = m.setup
              \/ Forgets(m, s) /\ ~push
           /\ ~uploads
        \/ /\ s.state = "creating" /\ Keeps(m, s) /\ s.cfg = gen /\ ~s.err
           /\ s.setup = IF m.err THEN 0 ELSE m.setup
           /\ ~Settles(m, g) /\ uploads /\ fault = "none" /\ r \in Scripted
        \/ /\ s.state = "ready" /\ s.cing = m.cing /\ s.cfg = gen /\ ~s.err
           /\ s.setup = IF m.err THEN 0 ELSE m.setup
           /\ ~Settles(m, g) /\ uploads /\ fault = "none" /\ r \notin Scripted
        \/ /\ s.state = "ready" /\ s.cing = m.cing /\ s.cfg = m.cfg
           /\ Reaches(p, m.cing) /\ ~m.err /\ ~s.err /\ g.file = "ok"
           /\ s.setup = IF g.fcid = m.cing THEN m.cfg ELSE m.setup
           /\ ~uploads
        \/ /\ s.state = "configError" /\ s.cing = m.cing /\ s.err
           /\ uploads => fault = "late" /\ s.cfg = gen
           /\ ~uploads => s.cfg = m.cfg
           /\ fault = "none" => ~Reaches(p, m.cing) \/ (~m.err /\ g.file = "fail")
    BY <1>2, ConfiguredCases
  <2> HIDE DEF uploads, s
  <2>4. h = IF uploads THEN AfterUpload(g, m, listed, fault = "none" /\ r \in Scripted) ELSE g
    BY <1>0, <1>2 DEF uploads
  <2>5. CASE s.state = "creating" /\ ~uploads
    BY <1>0, <2>3, <2>4, <2>5 DEF Handles, Waits, Keeps, Forgets, Fed, SameFile, Blames
  <2>6. CASE s.state = "creating" /\ uploads
    <3>1. fault = "none" /\ h = AfterUpload(g, m, listed, TRUE)
      BY <2>3, <2>4, <2>6
    <3> QED
      BY <1>0, <2>1, <2>2, <2>3, <2>6, <3>1 DEF Handles, RunsScript, Keeps, Fed, SameFile, Blames
  <2>9. CASE s.state = "ready" /\ uploads
    <3>1. h = AfterUpload(g, m, listed, FALSE) /\ r \in Packaged \ Scripted
      BY <1>2, <2>3, <2>4, <2>9
    <3> QED
      BY <1>0, <2>1, <2>2, <2>3, <2>9, <3>1 DEF Handles, HandsOut, Fed, SameFile, Blames
  <2>7. CASE s.state = "ready" /\ ~uploads
    BY <1>0, <1>2, <2>3, <2>4, <2>7 DEF Handles, Readies, Fed, SameFile, Blames
  <2>8. CASE s.state = "configError"
    <3>1. uploads => h = AfterUpload(g, m, listed, FALSE)
      BY <2>3, <2>4, <2>8
    <3>2. SameFile(g, h) /\ (h.meta = listed \/ (h.meta = g.meta /\ s.cfg = m.cfg))
      BY <2>1, <2>3, <2>4, <2>8, <3>1 DEF SameFile
    <3> QED  BY <1>0, <2>3, <2>8, <3>2 DEF Handles, Breaks, Fed, SameFile, Blames
  <2> QED  BY <2>3, <2>5, <2>6, <2>7, <2>8, <2>9
<1> QED  BY <1>1, <1>2

LEMMA HandleRoleHandled ==
  ASSUME ListInv, NEW r \in Roles, HandleRole(r)
  PROVE  Handled
<1> DEFINE creating == In(r, {"creating"})
           set(f, cleaned) ==
             [o \in Ords |->
               IF o \in creating THEN Setup(r, o, f[o])
               ELSE IF phase = "blocked" THEN cr.mem[r][o]
               ELSE IF snap[r][o] = "createPending" THEN Launched(r, o)
               ELSE IF snap[r][o] \in {"deletePending", "deleting"}
                 THEN Removed(r, o, cleaned)
               ELSE cr.mem[r][o]]
           nodes(f, cleaned) ==
             Named(r, Arrived(r, set(f, cleaned))) \cup
             (IF phase = "members" /\ creating = {} THEN Named(r, Departed(r)) ELSE {})
           op == IF creating # {} THEN "addnodes" ELSE "delnodes"
           told(f, cleaned, q, o) ==
             Queued(q, IF q = r THEN set(f, cleaned)[o] ELSE cr.mem[q][o], snap[q][o], op,
                    nodes(f, cleaned))
           new(f, cleaned) ==
             [q \in Roles |-> [o \in Ords |->
               IF q = r /\ o \in creating THEN Concluded(told(f, cleaned, q, o))
               ELSE told(f, cleaned, q, o)]]
           upload(f, o) == /\ o \in creating /\ r \in Packaged
                           /\ Uploads(cr.mem[r][o], pod[r][o], guest[r][o],
                                      phase = "members", f[o])
           files(f, cleaned) ==
             [o \in Ords |->
               IF upload(f, o)
                 THEN AfterUpload(guest[r][o], cr.mem[r][o], configmeta,
                                  f[o] = "none" /\ r \in Scripted)
               ELSE IF o \in cleaned THEN BlankGuest ELSE guest[r][o]]
<1>1. PICK f \in FaultChoices(r), cleaned \in SUBSET Cleanable(r) :
        /\ phase = "blocked" => cleaned = {}
        /\ Fault("exec", Cardinality({o \in Ords : f[o] # "none"})
                         + Cardinality(Cleanable(r) \ cleaned))
        /\ cr' = [cr EXCEPT !.mem = new(f, cleaned)]
        /\ guest' = [guest EXCEPT ![r] = files(f, cleaned)]
  BY DEF HandleRole
<1>2. /\ stat' = stat /\ pod' = pod /\ r \in todo /\ phase \in {"members", "blocked"}
  BY DEF HandleRole
<1>3. /\ Inv /\ \A q \in Roles, o \in Ords : cr.mem[q][o] \in Member /\ guest[q][o] \in Guest
      /\ \A o \in Ords : snap[r][o] = cr.mem[r][o].state
      /\ configmeta = Listed(cr, want)
  BY <1>2 DEF ListInv, Inv, TypeOK, Status, SnapIsCurrent
<1>4. \A o \in Ords : set(f, cleaned)[o] \in Member
  BY <1>3, SetupSafe, LaunchedSafe, RemovedSafe
<1>5. cr'.mem = new(f, cleaned)
  BY <1>1, <1>3 DEF Inv, TypeOK, Status
<1>7. \A q \in Roles, o \in Ords :
        guest'[q][o] = IF q = r THEN files(f, cleaned)[o] ELSE guest[q][o]
  <2> HIDE DEF files
  <2> QED  BY <1>1 DEF ListInv, Inv, TypeOK
<1>8. \A q \in Roles, o \in Ords :
        cr'.mem[q][o] = IF q = r /\ o \in creating THEN Concluded(told(f, cleaned, q, o))
                        ELSE told(f, cleaned, q, o)
  <2> HIDE DEF told, creating
  <2> QED  BY <1>5
<1>9. ASSUME NEW o \in Ords, o \in creating
      PROVE  /\ Handles(cr.mem[r][o], cr'.mem[r][o], guest[r][o], guest'[r][o], r, pod[r][o],
                        cr.gen, phase = "members")
             /\ Fed(cr.mem[r][o], cr'.mem[r][o], guest[r][o], guest'[r][o], Listed(cr, want))
             /\ r \in Packaged /\ f[o] = "none" =>
                  Blames(cr.mem[r][o], cr'.mem[r][o], guest[r][o], pod[r][o])
  <2> DEFINE m == cr.mem[r][o]
             s == Setup(r, o, f[o])
             n == cr'.mem[r][o]
  <2> SUFFICES /\ Handles(m, n, guest[r][o], guest'[r][o], r, pod[r][o], cr.gen,
                          phase = "members")
               /\ Fed(m, n, guest[r][o], guest'[r][o], Listed(cr, want))
               /\ r \in Packaged /\ f[o] = "none" => Blames(m, n, guest[r][o], pod[r][o])
    OBVIOUS
  <2>1. m.state = "creating" /\ s \in Member /\ f[o] \in {"none", "early", "late"}
        /\ m \in Member /\ guest[r][o] \in Guest
    BY <1>1, <1>3, <1>9, SetupSafe DEF In, FaultChoices
  <2>2. n = Concluded(Queued(r, s, snap[r][o], op, nodes(f, cleaned)))
    <3> HIDE DEF op, nodes
    <3> QED  BY <1>8, <1>9
  <2>3. o \notin cleaned
    BY <1>1, <1>3, <2>1 DEF Cleanable, In
  <2>4. guest'[r][o] = IF r \in Packaged /\ Uploads(m, pod[r][o], guest[r][o],
                                                    phase = "members", f[o])
                         THEN AfterUpload(guest[r][o], m, Listed(cr, want),
                                          f[o] = "none" /\ r \in Scripted)
                         ELSE guest[r][o]
    BY <1>3, <1>7, <1>9, <2>3
  <2>5. s = IF r \in Packaged
              THEN Configured(m, r, pod[r][o], guest[r][o], cr.gen, phase = "members", f[o])
              ELSE Unpackaged(m, f[o])
    BY DEF Setup
  <2> HIDE DEF op, nodes, s, m
  <2>6. /\ n.state = s.state /\ n.cfg = s.cfg /\ n.setup = s.setup /\ n.err = s.err
        /\ IF s.state = "creating" THEN Keeps(s, n) ELSE n.conf = s.cing /\ n.cing = 0
    BY <2>1, <2>2, QueuedKeeps
  <2> HIDE DEF n
  <2> DEFINE push   == phase = "members"
             listed == Listed(cr, want)
             h      == guest'[r][o]
  <2>7. push \in BOOLEAN
    OBVIOUS
  <2>8. SetsUp(m, n, guest[r][o], h, r, pod[r][o], cr.gen, push, f[o], listed)
    BY <2>4, <2>5, <2>6 DEF SetsUp
  <2> HIDE DEF push, listed, h
  <2>9. /\ Handles(m, n, guest[r][o], h, r, pod[r][o], cr.gen, push)
        /\ Fed(m, n, guest[r][o], h, listed)
        /\ r \in Packaged /\ f[o] = "none" => Blames(m, n, guest[r][o], pod[r][o])
    BY <2>1, <2>7, <2>8, SetupHandles
  <2> QED  BY <2>9 DEF push, listed, h
<1>10. ASSUME NEW o \in Ords, o \notin creating
       PROVE  /\ Handles(cr.mem[r][o], cr'.mem[r][o], guest[r][o], guest'[r][o], r, pod[r][o],
                         cr.gen, phase = "members")
              /\ Fed(cr.mem[r][o], cr'.mem[r][o], guest[r][o], guest'[r][o], Listed(cr, want))
              /\ Blames(cr.mem[r][o], cr'.mem[r][o], guest[r][o], pod[r][o])
  <2> DEFINE m == cr.mem[r][o]
             s == set(f, cleaned)[o]
             n == cr'.mem[r][o]
  <2> SUFFICES /\ Handles(m, n, guest[r][o], guest'[r][o], r, pod[r][o], cr.gen,
                          phase = "members")
               /\ Fed(m, n, guest[r][o], guest'[r][o], Listed(cr, want))
    BY <1>3, <1>10 DEF In, Blames
  <2>1. m \in Member /\ s \in Member /\ m.state = snap[r][o] /\ m.state # "creating"
    BY <1>3, <1>4, <1>10 DEF In
  <2>2. n = Queued(r, s, snap[r][o], op, nodes(f, cleaned))
    <3> HIDE DEF op, nodes, set
    <3> QED  BY <1>8, <1>10
  <2>3. guest'[r][o] = IF o \in cleaned THEN BlankGuest ELSE guest[r][o]
    BY <1>7, <1>10
  <2>4. o \in cleaned => phase = "members" /\ m.state \in {"deletePending", "deleting"}
    BY <1>1, <1>2, <1>3 DEF Cleanable, In
  <2>5. \/ s = m /\ o \notin cleaned
        \/ phase = "members" /\ m.state = "createPending" /\ s = Launched(r, o)
        \/ /\ phase = "members" /\ m.state \in {"deletePending", "deleting"}
           /\ s = Removed(r, o, cleaned)
    BY <1>2, <1>10, <2>1, <2>4
  <2>6. /\ Launched(r, o) = m
           \/ /\ pod[r][o].phase = "up" /\ Launched(r, o).state = "creating"
              /\ Launched(r, o).cing = pod[r][o].cid /\ Launched(r, o).conf = m.conf
              /\ Launched(r, o).cfg = m.cfg /\ Launched(r, o).setup = m.setup
              /\ Launched(r, o).err = m.err
        /\ /\ Keeps(m, Removed(r, o, cleaned)) /\ Removed(r, o, cleaned).cfg = m.cfg
           /\ m.state \in {"deletePending", "deleting"} =>
                Removed(r, o, cleaned).state = IF o \in cleaned THEN "gone" ELSE "deleting"
    <3> HIDE DEF m
    <3>1. LET x == [m EXCEPT !.state = "creating", !.cing = pod[r][o].cid]
          IN  /\ x.conf = m.conf /\ x.cfg = m.cfg /\ x.setup = m.setup /\ x.err = m.err
              /\ x.state = "creating" /\ x.cing = pod[r][o].cid
      BY <2>1 DEF Member
    <3> QED  BY <2>1, <3>1 DEF Launched, Removed, Member, Keeps, m
  <2> HIDE DEF op, nodes, s, m
  <2>7. /\ Keeps(s, n) /\ n.state = s.state /\ n.cfg = s.cfg /\ n.setup = s.setup
        /\ n.err = s.err
    BY <2>1, <2>2, QueuedKeeps
  <2> HIDE DEF n
  <2>8. CASE s = m /\ o \notin cleaned
    BY <2>1, <2>3, <2>7, <2>8 DEF Handles, Waits, Fed, SameFile
  <2>9. CASE phase = "members" /\ m.state = "createPending" /\ s = Launched(r, o)
    BY <2>3, <2>4, <2>6, <2>7, <2>9 DEF Handles, Launches, Waits, Keeps, Fed, SameFile
  <2>10. CASE /\ phase = "members" /\ m.state \in {"deletePending", "deleting"}
              /\ s = Removed(r, o, cleaned)
    BY <2>3, <2>6, <2>7, <2>10 DEF Handles, Leaves, Keeps, Fed, SameFile
  <2> QED  BY <2>5, <2>8, <2>9, <2>10
<1>11. ASSUME NEW q \in Roles, NEW o \in Ords, q # r
       PROVE  /\ Handles(cr.mem[q][o], cr'.mem[q][o], guest[q][o], guest'[q][o], q, pod[q][o],
                         cr.gen, phase = "members")
              /\ Fed(cr.mem[q][o], cr'.mem[q][o], guest[q][o], guest'[q][o], Listed(cr, want))
              /\ Blames(cr.mem[q][o], cr'.mem[q][o], guest[q][o], pod[q][o])
  <2>1. cr.mem[q][o] \in Member /\ guest'[q][o] = guest[q][o]
    BY <1>3, <1>7, <1>11
  <2>2. cr'.mem[q][o] = Queued(q, cr.mem[q][o], snap[q][o], op, nodes(f, cleaned))
    <3> HIDE DEF op, nodes
    <3> QED  BY <1>8, <1>11
  <2> HIDE DEF op, nodes
  <2> QED  BY <2>1, <2>2, QueuedKeeps DEF Handles, Waits, Fed, SameFile, Blames
<1>12. SameHeader(cr, cr')
  <2> HIDE DEF new
  <2> QED  BY <1>1, <1>3 DEF SameHeader, Inv, TypeOK, Status
<1>13. todo' = todo \ {r} /\ phase' \in {phase, "notify"}
  BY DEF HandleRole
<1>14. ASSUME NEW q \in Roles, NEW o \in Ords, q # r
       PROVE  guest'[q][o] = guest[q][o] /\ cr'.mem[q][o].state = cr.mem[q][o].state
  <2>1. cr'.mem[q][o] = Queued(q, cr.mem[q][o], snap[q][o], op, nodes(f, cleaned))
    <3> HIDE DEF op, nodes
    <3> QED  BY <1>8, <1>14
  <2> HIDE DEF op, nodes
  <2> QED  BY <1>3, <1>7, <1>14, <2>1, QueuedKeeps
<1>15. \A q \in Roles : UnderWay(q)' => UnderWay(q) /\ q # r
  BY <1>2, <1>13 DEF UnderWay
<1>16. UnderWay(r)
  BY <1>2 DEF UnderWay
<1>17. ASSUME faults' = faults, NEW o \in Ords
       PROVE  f[o] = "none"
  <2> DEFINE failing == {x \in Ords : f[x] # "none"}
  <2>1. faults' = faults + (Cardinality(failing) + Cardinality(Cleanable(r) \ cleaned))
    BY <1>1 DEF Fault
  <2>2. IsFiniteSet(failing) /\ IsFiniteSet(Cleanable(r) \ cleaned)
    <3>1. IsFiniteSet(Ords)
      BY ListSets
    <3>2. Cleanable(r) \ cleaned \subseteq Ords
      BY DEF Cleanable, In
    <3> QED  BY <3>1, <3>2, FS_Subset
  <2>3. Cardinality(failing) = 0
    BY <1>3, <1>17, <2>1, <2>2, FS_CardinalityType DEF Inv, TypeOK
  <2> QED  BY <2>2, <2>3, FS_EmptySet
<1>18. ASSUME NEW q \in Roles, NEW o \in Ords
       PROVE  /\ Handles(cr.mem[q][o], cr'.mem[q][o], guest[q][o], guest'[q][o], q, pod[q][o],
                         cr.gen, phase = "members")
              /\ Fed(cr.mem[q][o], cr'.mem[q][o], guest[q][o], guest'[q][o], Listed(cr, want))
              /\ q \in Packaged /\ faults' = faults =>
                   Blames(cr.mem[q][o], cr'.mem[q][o], guest[q][o], pod[q][o])
  BY <1>9, <1>10, <1>11, <1>17
<1> QED  BY <1>2, <1>12, <1>14, <1>15, <1>16, <1>18 DEF Handled

LEMMA UpdateReadyMembersRefreshed == ListInv /\ UpdateReadyMembers => Refreshed
<1> SUFFICES ASSUME ListInv, UpdateReadyMembers PROVE Refreshed
  OBVIOUS
<1>0. Inv /\ configmeta = Listed(cr, want) /\ snap = States(cr)
  BY DEF UpdateReadyMembers, ListInv, SnapIsCurrent
<1> DEFINE new(upd) == [r \in Roles |-> [o \in Ords |->
                          IF <<r, o>> \in upd
                            THEN [cr.mem[r][o] EXCEPT !.cfg = cr.gen]
                            ELSE cr.mem[r][o]]]
           files(up) == [r \in Roles |-> [o \in Ords |->
                          IF <<r, o>> \in up
                            THEN [guest[r][o] EXCEPT !.meta = configmeta]
                            ELSE guest[r][o]]]
           reachable == {i \in Outdated :
                           Reaches(pod[i[1]][i[2]], cr.mem[i[1]][i[2]].conf)}
<1>1. \E upd \in SUBSET Outdated : \E up :
        upd \subseteq up /\ cr' = [cr EXCEPT !.mem = new(upd)] /\ guest' = files(up)
  <2>1. PICK failing \in SUBSET reachable : \E late \in SUBSET failing :
          /\ cr' = [cr EXCEPT !.mem = new(reachable \ failing)]
          /\ guest' = files((reachable \ failing) \cup late)
    BY Zenon DEF UpdateReadyMembers
  <2>2. PICK late \in SUBSET failing :
          /\ cr' = [cr EXCEPT !.mem = new(reachable \ failing)]
          /\ guest' = files((reachable \ failing) \cup late)
    BY <2>1
  <2>3. reachable \ failing \in SUBSET Outdated
    OBVIOUS
  <2> HIDE DEF new, files, reachable
  <2> QED  BY <2>2, <2>3
<1> PICK upd \in SUBSET Outdated :
      \E up : upd \subseteq up /\ cr' = [cr EXCEPT !.mem = new(upd)] /\ guest' = files(up)
  BY <1>1
<1> PICK up : upd \subseteq up /\ cr' = [cr EXCEPT !.mem = new(upd)] /\ guest' = files(up)
  OBVIOUS
<1>2. stat' = stat /\ pod' = pod
  BY DEF UpdateReadyMembers
<1>3. \A r \in Roles, o \in Ords : cr.mem[r][o] \in Member /\ guest[r][o] \in Guest
  BY <1>0 DEF Inv, TypeOK, Status
<1>4. \A r \in Roles, o \in Ords :
        cr'.mem[r][o] = IF <<r, o>> \in upd THEN [cr.mem[r][o] EXCEPT !.cfg = cr.gen]
                        ELSE cr.mem[r][o]
  BY <1>0 DEF Inv, TypeOK, Status
<1>5. \A i \in Outdated : cr.mem[i[1]][i[2]].state = "ready" /\ cr.mem[i[1]][i[2]].cfg # 0
  BY <1>0 DEF Outdated, States
<1>6. \A r \in Roles, o \in Ords :
        <<r, o>> \in upd => cr.mem[r][o].state = "ready" /\ cr.mem[r][o].cfg # 0
  BY <1>5
<1>7. \A m \in Member : LET n == [m EXCEPT !.cfg = cr.gen]
                        IN  /\ Keeps(m, n) /\ n.state = m.state /\ n.err = m.err
                            /\ n.setup = m.setup /\ n.cfg = cr.gen
  BY DEF Member, Keeps
<1>8. \A g \in Guest : SameFile(g, g) /\ \A x : SameFile(g, [g EXCEPT !.meta = x])
  BY DEF Guest, SameFile
<1>9. ASSUME NEW r \in Roles, NEW o \in Ords
      PROVE  Refreshes(cr.mem[r][o], cr'.mem[r][o], guest[r][o], guest'[r][o], cr.gen)
  <2> DEFINE m == cr.mem[r][o]
             n == cr'.mem[r][o]
  <2>1. SameFile(guest[r][o], guest'[r][o])
    BY <1>3, <1>8
  <2>2. m \in Member /\ n \in {m, [m EXCEPT !.cfg = cr.gen]}
        /\ (n # m => m.state = "ready" /\ m.cfg # 0)
    BY <1>3, <1>4, <1>6
  <2> HIDE DEF m, n
  <2>3. Refreshes(m, n, guest[r][o], guest'[r][o], cr.gen)
    BY <1>7, <2>1, <2>2 DEF Refreshes, Keeps
  <2> QED  BY <2>3 DEF m, n
<1>10. SameHeader(cr, cr')
  <2> HIDE DEF new
  <2> QED  BY <1>0 DEF SameHeader, Inv, TypeOK, Status
<1>11. \A r \in Roles : UnderWay(r)
  BY DEF UpdateReadyMembers, UnderWay
<1>12. ASSUME NEW r \in Roles, NEW o \in Ords
       PROVE  Fed(cr.mem[r][o], cr'.mem[r][o], guest[r][o], guest'[r][o], Listed(cr, want))
  <2>1. \A x : [guest[r][o] EXCEPT !.meta = x].meta = x
    BY <1>3 DEF Guest
  <2>2. CASE <<r, o>> \in up
    BY <1>0, <2>1, <2>2 DEF Fed, SameFile
  <2>3. CASE <<r, o>> \notin up
    BY <1>4, <2>3 DEF Fed, SameFile
  <2> QED  BY <2>2, <2>3
<1> QED  BY <1>2, <1>9, <1>10, <1>11, <1>12 DEF Refreshed

-----------------------------------------------------------------------------
(* The end of a pass, and everybody else. *)

LEMMA StartNotifyRefreshed == Inv /\ StartNotify => Refreshed
<1> SUFFICES ASSUME Inv, StartNotify PROVE Refreshed
  OBVIOUS
<1>1. \A r \in Roles, o \in Ords : cr.mem[r][o] \in Member
  BY DEF Inv, TypeOK, Status
<1>2. \A m \in Member : LET n == [m EXCEPT !.setup = m.cfg]
                        IN  /\ Keeps(m, n) /\ n.state = m.state /\ n.err = m.err
                            /\ n.setup = m.cfg /\ n.cfg = m.cfg
  BY DEF Member, Keeps
<1>3. \A r \in Roles, o \in Ords :
        cr'.mem[r][o] \in {cr.mem[r][o], [cr.mem[r][o] EXCEPT !.setup = cr.mem[r][o].cfg]}
  BY DEF StartNotify, Inv, TypeOK, Status
<1>4. stat' = stat /\ pod' = pod /\ guest' = guest
  BY DEF StartNotify
<1>5. ASSUME NEW r \in Roles, NEW o \in Ords
      PROVE  /\ Refreshes(cr.mem[r][o], cr'.mem[r][o], guest[r][o], guest'[r][o], cr.gen)
             /\ Fed(cr.mem[r][o], cr'.mem[r][o], guest[r][o], guest'[r][o], Listed(cr, want))
  <2> DEFINE m == cr.mem[r][o]
             n == cr'.mem[r][o]
  <2>1. m \in Member /\ n \in {m, [m EXCEPT !.setup = m.cfg]}
    BY <1>1, <1>3
  <2> HIDE DEF m, n
  <2>2. /\ Refreshes(m, n, guest[r][o], guest'[r][o], cr.gen)
        /\ Fed(m, n, guest[r][o], guest'[r][o], Listed(cr, want))
    BY <1>2, <1>4, <2>1 DEF Refreshes, SameFile, Keeps, Fed
  <2> QED  BY <2>2 DEF m, n
<1>6. SameHeader(cr, cr') /\ phase' \in {"write", "deliver"}
  BY DEF StartNotify, SameHeader, Inv, TypeOK, Status
<1> QED  BY <1>4, <1>5, <1>6 DEF Refreshed, UnderWay

LEMMA DeliverRefreshed ==
  ASSUME Inv, NEW r \in Roles, NEW o \in Ords, Deliver(r, o)
  PROVE  Refreshed
<1> DEFINE m == cr.mem[r][o]
           all == DOMAIN m.pend
           left(s) == [i \in DOMAIN s |-> m.pend[s[i]]]
           setup(kept) == IF kept # all /\ ~Transitional THEN m.cfg ELSE m.setup
           new(s, kept) == [m EXCEPT !.pend = left(s), !.setup = setup(kept)]
           told(kept) == [guest[r][o] EXCEPT !.view = Told(@, m.pend, all \ kept)]
<1> PICK kept \in SUBSET all : \E s \in [1 .. Cardinality(kept) -> kept] :
      /\ cr' = [cr EXCEPT !.mem[r][o] = new(s, kept)]
      /\ guest' = [guest EXCEPT ![r][o] = told(kept)]
  BY DEF Deliver
<1>1. PICK s \in [1 .. Cardinality(kept) -> kept] :
        /\ cr' = [cr EXCEPT !.mem[r][o] = new(s, kept)]
        /\ guest' = [guest EXCEPT ![r][o] = told(kept)]
  OBVIOUS
<1>2. \A q \in Roles, p \in Ords : cr.mem[q][p] \in Member /\ guest[q][p] \in Guest
  BY DEF Inv, TypeOK, Status
<1>3. /\ Keeps(m, new(s, kept)) /\ new(s, kept).state = m.state /\ new(s, kept).err = m.err
      /\ new(s, kept).setup \in {m.setup, m.cfg} /\ new(s, kept).cfg = m.cfg
  <2>1. setup(kept) \in {m.setup, m.cfg} /\ m \in Member
    BY <1>2
  <2> HIDE DEF left, setup, m
  <2> QED  BY <2>1 DEF Member, Keeps
<1>4. /\ SameFile(guest[r][o], told(kept)) /\ \A g \in Guest : SameFile(g, g)
      /\ told(kept).meta = guest[r][o].meta
  BY <1>2 DEF Guest, SameFile
<1> HIDE DEF new, told
<1>5. \A q \in Roles, p \in Ords :
        /\ cr'.mem[q][p] = IF q = r /\ p = o THEN new(s, kept) ELSE cr.mem[q][p]
        /\ guest'[q][p] = IF q = r /\ p = o THEN told(kept) ELSE guest[q][p]
  BY <1>1 DEF Inv, TypeOK, Status
<1>6. stat' = stat /\ pod' = pod
  BY DEF Deliver
<1>7. ASSUME NEW q \in Roles, NEW p \in Ords
      PROVE  /\ Refreshes(cr.mem[q][p], cr'.mem[q][p], guest[q][p], guest'[q][p], cr.gen)
             /\ Fed(cr.mem[q][p], cr'.mem[q][p], guest[q][p], guest'[q][p], Listed(cr, want))
  <2>1. SameFile(guest[q][p], guest'[q][p]) /\ guest'[q][p].meta = guest[q][p].meta
    BY <1>2, <1>4, <1>5
  <2>2. CASE q = r /\ p = o
    BY <1>3, <1>5, <2>1, <2>2 DEF Refreshes, Fed, SameFile
  <2>3. CASE ~(q = r /\ p = o)
    BY <1>5, <2>1, <2>3 DEF Refreshes, Keeps, Fed, SameFile
  <2> QED  BY <2>2, <2>3
<1>8. SameHeader(cr, cr') /\ phase' \in {"write", "deliver"}
  BY <1>1 DEF Deliver, SameHeader, Inv, TypeOK, Status
<1> QED  BY <1>6, <1>7, <1>8 DEF Refreshed, UnderWay

LEMMA WriteStatusStored ==
  ASSUME Inv, Nameless(cr), WriteStatus
  PROVE  Stored
<1>1. /\ cr' = stat' /\ pod' = pod /\ guest' = guest /\ phase' = "idle"
      /\ SameHeader(cr, stat')
  BY DEF WriteStatus, PassOver, SameHeader, Inv, TypeOK, Status
<1>2. \A r \in Roles :
        stat'.mem[r] = IF cr.name[r] = 0 THEN [o \in Ords |-> NoMember]
                       ELSE Compacted(cr.mem[r])
  BY DEF WriteStatus, Inv, TypeOK, Status
<1>3. ASSUME NEW r \in Roles, NEW o \in Ords
      PROVE  Stores(cr.mem[r][o], stat'.mem[r][o])
  <2>1. CASE cr.name[r] = 0
    <3>1. cr.mem[r][o].state = "none"
      BY <2>1 DEF Nameless, Present
    <3> QED  BY <1>2, <2>1, <3>1 DEF Stores
  <2>2. CASE cr.name[r] # 0
    BY <1>2, <2>2 DEF Compacted, Stores
  <2> QED  BY <2>1, <2>2
<1> QED  BY <1>1, <1>3 DEF Stored

LEMMA DyingLost == Inv /\ PassDies => Lost
BY DEF PassDies, Crash, DiesInRole, ProcessDies, PassOver, Lost

\* A panic of the pass itself only cuts it short.
LEMMA PanicRefreshed ==
  ASSUME Inv, NEW r \in Roles, PanicInRole(r)
  PROVE  Refreshed
<1>1. UNCHANGED <<stat, pod, cr, guest>> /\ phase' = "notify"
  BY DEF PanicInRole
<1> QED  BY <1>1 DEF Refreshed, SameHeader, UnderWay, Refreshes, Keeps, SameFile, Fed

\* One pod and its guest.
LEMMA PodStepHappens ==
  ASSUME Inv, NEW r \in Roles, NEW o \in Ords,
         \/ PodStart(r, o)
         \/ PodStop(r, o)
         \/ \E how \in {"absent", "down"} : PodRestart(r, o, how)
         \/ \E ok \in BOOLEAN : ScriptEnds(r, o, ok)
  PROVE  Outside
<1>1. /\ pod \in [Roles -> [Ords -> Pod]] /\ guest \in [Roles -> [Ords -> Guest]]
      /\ pod[r][o] \in Pod /\ guest[r][o] \in Guest
  BY DEF Inv, TypeOK
<1>2. stat' = stat /\ cr' = cr /\ phase' = phase /\ todo' = todo
  BY DEF PodStart, PodStop, PodRestart, ScriptEnds, EnvStep, passVars
<1>3. PICK q, h : /\ pod' = [pod EXCEPT ![r][o] = q]
                  /\ guest' = [guest EXCEPT ![r][o] = h]
                  /\ Happens(guest[r][o], h, pod[r][o], q, r \in Persistent)
  <2>1. guest = [guest EXCEPT ![r][o] = guest[r][o]] /\ pod = [pod EXCEPT ![r][o] = pod[r][o]]
    BY <1>1
  <2>2. Kept(r, o) = [guest EXCEPT ![r][o] =
                        IF r \in Persistent THEN guest[r][o] ELSE BlankGuest]
    BY <2>1 DEF Kept
  <2>3. CASE PodStart(r, o)
    <3> DEFINE q == [phase |-> "up", cid |-> pod[r][o].cid + 1]
    <3>1. pod' = [pod EXCEPT ![r][o] = q] /\ guest' = [guest EXCEPT ![r][o] = guest[r][o]]
      BY <2>1, <2>3 DEF PodStart
    <3>2. Happens(guest[r][o], guest[r][o], pod[r][o], q, r \in Persistent)
      BY <2>3 DEF PodStart, Happens
    <3> HIDE DEF q
    <3> QED  BY <3>1, <3>2
  <2>4. ASSUME NEW how \in {"absent", "down"}, pod[r][o].phase # "absent",
               pod' = [pod EXCEPT ![r][o].phase = how], guest' = Kept(r, o)
        PROVE  \E q, h : /\ pod' = [pod EXCEPT ![r][o] = q]
                         /\ guest' = [guest EXCEPT ![r][o] = h]
                         /\ Happens(guest[r][o], h, pod[r][o], q, r \in Persistent)
    <3> DEFINE q == [pod[r][o] EXCEPT !.phase = how]
               h == IF r \in Persistent THEN guest[r][o] ELSE BlankGuest
    <3>1. pod' = [pod EXCEPT ![r][o] = q] /\ guest' = [guest EXCEPT ![r][o] = h]
      BY <2>2, <2>4
    <3>2. q.phase = how /\ q.cid = pod[r][o].cid
      BY <1>1 DEF Pod
    <3>3. Happens(guest[r][o], h, pod[r][o], q, r \in Persistent)
      BY <2>4, <3>2 DEF Happens
    <3> HIDE DEF q, h
    <3> QED  BY <3>1, <3>3
  <2>5. CASE PodStop(r, o)
    BY <2>4, <2>5 DEF PodStop
  <2>6. CASE \E how \in {"absent", "down"} : PodRestart(r, o, how)
    BY <2>4, <2>6 DEF PodRestart
  <2>7. CASE \E ok \in BOOLEAN : ScriptEnds(r, o, ok)
    <3> PICK ok \in BOOLEAN : ScriptEnds(r, o, ok)
      BY <2>7
    <3> DEFINE h == Ended(guest[r][o], ok)
    <3>1. pod' = [pod EXCEPT ![r][o] = pod[r][o]] /\ guest' = [guest EXCEPT ![r][o] = h]
      BY <2>1 DEF ScriptEnds
    <3>2. /\ h.file \in {"ok", "fail"} /\ h.fcid = guest[r][o].fcid
          /\ h.meta = guest[r][o].meta
          /\ h.view = IF h.file = "ok" THEN guest[r][o].meta ELSE guest[r][o].view
      BY <1>1 DEF Ended, Guest
    <3>3. Happens(guest[r][o], h, pod[r][o], pod[r][o], r \in Persistent)
      BY <3>2 DEF ScriptEnds, Happens
    <3> HIDE DEF h
    <3> QED  BY <3>1, <3>3
  <2> QED  BY <2>3, <2>5, <2>6, <2>7
<1>4. \A s \in Roles, p \in Ords :
        /\ pod'[s][p] = IF s = r /\ p = o THEN q ELSE pod[s][p]
        /\ guest'[s][p] = IF s = r /\ p = o THEN h ELSE guest[s][p]
  BY <1>1, <1>3
<1> QED  BY <1>2, <1>3, <1>4 DEF Outside, Happens

LEMMA EnvironmentOutside == Inv /\ (Environment \/ UNCHANGED vars) => Outside
<1> SUFFICES ASSUME Inv, Environment \/ UNCHANGED vars PROVE Outside
  OBVIOUS
<1>1. ASSUME NEW r \in Roles, NEW n, ChangeSpec(r, n) PROVE Outside
  BY <1>1 DEF ChangeSpec, passVars, Outside, Happens
<1>2. CASE ChangeConnections
  BY <1>2 DEF ChangeConnections, passVars, Outside, Happens
<1>3. ASSUME NEW r \in Roles, SsetDelete(r) PROVE Outside
  BY <1>3 DEF SsetDelete, EnvStep, passVars, Outside, Happens
<1>4. CASE UNCHANGED vars
  BY <1>4 DEF vars, Outside, Happens
<1> QED  BY <1>1, <1>2, <1>3, <1>4, PodStepHappens DEF Environment

-----------------------------------------------------------------------------
(* Every step is of one of the kinds. *)

\* A role that loses its name in the status has nobody left.
LEMMA SyncedNameless == ASSUME Inv, Nameless(stat), NEW R PROVE Nameless(Synced(R))
<1> SUFFICES ASSUME NEW r \in Roles, Synced(R).name[r] = 0
             PROVE  Present(Synced(R).mem[r]) = {}
  BY DEF Nameless
<1>1. /\ Synced(R).name[r] = IF r \in R THEN RoleName(r) ELSE stat.name[r]
      /\ Synced(R).mem[r] = IF r \in R THEN RoleMembers(r) ELSE Checked(r)
  BY DEF Synced, Inv, TypeOK, Status
<1>2. Present(stat.mem[r]) = Present(Checked(r)) /\ sset[r].name \in Nat
  BY CheckedAlike DEF Inv, TypeOK, StatefulSet
<1>3. stat.name[r] = 0 => Present(Checked(r)) = {}
  BY <1>2 DEF Nameless
<1>4. CASE r \notin R
  BY <1>1, <1>3, <1>4
<1>5. CASE r \in R
  <2>1. ~Creates(r)
    BY <1>1, <1>2, <1>5 DEF RoleName
  <2>2. CASE Retires(r)
    <3>1. Present(Checked(r)) = {}
      BY <2>2, ListSets, FS_EmptySet DEF Retires, Pop
    <3>2. Pop(Checked(r)) = 0
      BY <2>2 DEF Retires
    <3>3. RoleMembers(r) = Checked(r)
      BY <2>1, <2>2, <3>2 DEF RoleMembers, Restores, Resizes
    <3> QED  BY <1>1, <1>5, <3>1, <3>3
  <2>3. CASE ~Retires(r)
    <3>1. stat.name[r] = 0
      BY <1>1, <1>5, <2>1, <2>3 DEF RoleName
    <3>2. RoleMembers(r) = Checked(r)
      BY <2>1, <3>1 DEF RoleMembers, Restores, Resizes, Found
    <3> QED  BY <1>1, <1>3, <1>5, <3>1, <3>2
  <2> QED  BY <2>2, <2>3
<1> QED  BY <1>4, <1>5

LEMMA BeginNameless == ASSUME Inv, Nameless(stat), FirstPass \/ Begin PROVE Nameless(cr')
<1>1. CASE FirstPass
  BY <1>1 DEF FirstPass, Nameless, Inv, TypeOK, Status
<1>2. CASE Begin
  <2>1. PICK R : cr'.mem = Synced(R).mem /\ cr'.name = Synced(R).name
    BY <1>2, BegunFrom
  <2>2. Nameless(Synced(R))
    BY SyncedNameless
  <2> QED  BY <2>1, <2>2 DEF Nameless
<1> QED  BY <1>1, <1>2

Refreshing ==
  \/ UpdateReadyMembers \/ StartNotify
  \/ \E r \in Roles : PanicInRole(r) \/ \E o \in Ords : Deliver(r, o)

\* What a step may be, as long as no pass loses its copy.
Kinds ==
  \/ (FirstPass \/ Begin) /\ Begun
  \/ Refreshing /\ Refreshed
  \/ (\E r \in Roles : HandleRole(r)) /\ Handled
  \/ WriteStatus /\ Stored
  \/ PassDies /\ Lost
  \/ (Environment \/ UNCHANGED vars) /\ Outside

LEMMA StepKinds ==
  ListInv /\ Nameless(cr) /\ [Next]_vars /\ [~BeginPassOverwritten]_vars => Kinds
<1> SUFFICES ASSUME ListInv, Nameless(cr), [Next]_vars, [~BeginPassOverwritten]_vars
             PROVE  Kinds
  OBVIOUS
<1>1. Inv
  BY DEF ListInv
<1>2. CASE FirstPass \/ Begin
  BY <1>2, BeginBegun DEF Kinds
<1>3. CASE UpdateReadyMembers \/ StartNotify
  BY <1>1, <1>3, UpdateReadyMembersRefreshed, StartNotifyRefreshed DEF Kinds, Refreshing
<1>4. ASSUME NEW r \in Roles, NEW o \in Ords, Deliver(r, o) PROVE Kinds
  BY <1>1, <1>4, DeliverRefreshed DEF Kinds, Refreshing
<1>9. ASSUME NEW r \in Roles, PanicInRole(r) PROVE Kinds
  BY <1>1, <1>9, PanicRefreshed DEF Kinds, Refreshing
<1>5. ASSUME NEW r \in Roles, HandleRole(r) PROVE Kinds
  BY <1>5, HandleRoleHandled DEF Kinds
<1>6. CASE WriteStatus
  BY <1>1, <1>6, WriteStatusStored DEF Kinds
<1>7. CASE PassDies
  BY <1>1, <1>7, DyingLost DEF Kinds
<1>8. CASE Environment \/ UNCHANGED vars
  BY <1>1, <1>8, EnvironmentOutside DEF Kinds
<1> QED
  BY <1>2, <1>3, <1>4, <1>5, <1>6, <1>7, <1>8, <1>9 DEF Next, Reconcile, Begin, PassDies

-----------------------------------------------------------------------------
(* Fresh members and their disks. *)

\* A member whose container has yet to run anything.
Unstarted(m) == m.state \in {"none", "gone"} \/ (m.state = "createPending" /\ m.conf = 0)

Housed(m, g) ==
  /\ Unstarted(m) => g.file = "none"
  /\ m.state = "creating" => m.cing # 0
  /\ m.state \in {"ready", "configError"} => m.conf # 0

\* The members that the rest of a pass may run the script for are being created in
\* the stored status already: a pass over them leaves the lists alone.
CreatingIsStored ==
  \A r \in Roles : UnderWay(r) =>
    \A o \in With(cr.mem[r], {"creating"}) :
      stat.mem[r][o].state = "creating" /\ Alike(stat.mem[r], cr.mem[r])

DiskInv ==
  /\ ListInv
  /\ \A r \in Roles, o \in Ords : pod[r][o].phase = "up" => pod[r][o].cid # 0
  /\ Nameless(stat) /\ Nameless(cr)
  /\ \A r \in Roles, o \in Ords :
       Housed(stat.mem[r][o], guest[r][o]) /\ Housed(cr.mem[r][o], guest[r][o])
  /\ CreatingIsStored

LEMMA HousedOnceBegun ==
  ASSUME NEW m, NEW n, NEW g, NEW h, NEW p, NEW q,
         NEW persistent, Housed(m, g), Begins(m, n, p, persistent), Swept(g, h, p, q)
  PROVE  Housed(m, h) /\ Housed(n, h)
BY DEF Housed, Unstarted, Begins, Swept, Keeps, BlankGuest, NewMember, NoMember

LEMMA HousedOnceRefreshed ==
  ASSUME NEW x, NEW m, NEW n, NEW g, NEW h, NEW gen,
         Housed(x, g), Housed(m, g), Refreshes(m, n, g, h, gen)
  PROVE  Housed(x, h) /\ Housed(n, h)
BY DEF Housed, Unstarted, Refreshes, Keeps, SameFile

\* x is what the stored status says of m.
LEMMA HousedOnceHandled ==
  ASSUME NEW x, NEW m, NEW n, NEW g, NEW h, NEW r, NEW p, NEW gen,
         NEW push, Housed(x, g), Housed(m, g), Handles(m, n, g, h, r, p, gen, push),
         p.phase = "up" => p.cid # 0,
         h # g /\ m.state = "creating" => x.state = "creating"
  PROVE  Housed(x, h) /\ Housed(n, h)
<1>1. CASE Waits(m, n, g, h, push) \/ Launches(m, n, g, h, p)
  BY <1>1 DEF Waits, Launches, Housed, Unstarted, Keeps
<1>2. CASE RunsScript(m, n, g, h, p, gen)
  BY <1>2 DEF RunsScript, Housed, Unstarted, Keeps
<1>3. CASE HandsOut(m, n, g, h, p, gen) \/ Readies(m, n, g, h, p, r \in Packaged)
           \/ Breaks(m, n, g, h, gen)
  BY <1>3 DEF HandsOut, Readies, Breaks, SameFile, Housed, Unstarted
<1>4. CASE Leaves(m, n, g, h)
  BY <1>4 DEF Leaves, Housed, Unstarted, BlankGuest
<1> QED  BY <1>1, <1>2, <1>3, <1>4 DEF Handles

LEMMA HousedOnceStored ==
  ASSUME NEW m, NEW n, NEW g, Housed(m, g), Stores(m, n)
  PROVE  Housed(n, g)
BY DEF Housed, Unstarted, Stores, NoMember

LEMMA HousedOutside ==
  ASSUME NEW m, NEW g, NEW h, NEW p, NEW q, NEW persistent,
         Housed(m, g), Happens(g, h, p, q, persistent)
  PROVE  Housed(m, h)
BY DEF Housed, Unstarted, Happens, BlankGuest

\* A pass that goes on to its members found nobody being created, or left the lists
\* as they were.
LEMMA BeginCreating ==
  ASSUME ListInv, FirstPass \/ Begin, Begun
  PROVE  CreatingIsStored'
<1> SUFFICES ASSUME NEW r \in Roles, UnderWay(r)', NEW o \in Ords,
                    cr'.mem[r][o].state = "creating"
             PROVE  stat.mem[r][o].state = "creating" /\ Alike(stat.mem[r], cr'.mem[r])
  BY DEF CreatingIsStored, With, Begun
<1>1. BeginPass
  BY DEF UnderWay, FirstPass, Begin, BeginPass, BeginPassNoCluster, BeginPassNoSset,
         BeginPassNoService
<1>2. cr'.mem = Synced(SyncedRoles).mem
  <2>1. Synced(SyncedRoles) \in Status
    BY SyncedSafe DEF ListInv
  <2> QED  BY <1>1, <2>1 DEF BeginPass, Status
<1>3. stat.mem[r][o].state = "creating"
  BY DEF Begun, Begins, NewMember, NoMember
<1>4. Postponed
  BY <1>3 DEF Postponed, Checked, ContainerChecked, With
<1>5. cr'.mem[r] = Checked(r)
  BY <1>2, <1>4 DEF Synced, SyncedRoles, ListInv, Inv, TypeOK, Status
<1> QED  BY <1>3, <1>5, CheckedAlike DEF ListInv

LEMMA DiskInit == Init => DiskInv
BY InitList, MaxMembersAssumption
   DEF Init, DiskInv, Nameless, CreatingIsStored, Housed, Unstarted, UnderWay, NoMember,
       BlankGuest, Present, With

LEMMA DiskStep ==
  DiskInv /\ [Next]_vars /\ [~BeginPassOverwritten]_vars => DiskInv' /\ Kinds
<1> SUFFICES ASSUME DiskInv, [Next]_vars, [~BeginPassOverwritten]_vars
             PROVE  DiskInv' /\ Kinds
  OBVIOUS
<1>1. ListInv' /\ Kinds
  BY StepList, StepKinds DEF DiskInv
<1>2. CASE (FirstPass \/ Begin) /\ Begun
  <2>1. Nameless(cr') /\ stat' = stat /\ CreatingIsStored'
    BY <1>2, BeginNameless, BeginCreating DEF DiskInv, ListInv, Begun
  <2>2. ASSUME NEW r \in Roles, NEW o \in Ords
        PROVE  /\ pod'[r][o].phase = "up" => pod'[r][o].cid # 0
               /\ Housed(stat'.mem[r][o], guest'[r][o]) /\ Housed(cr'.mem[r][o], guest'[r][o])
    BY <1>2, <2>1, HousedOnceBegun DEF Begun, DiskInv, Swept
  <2> QED  BY <1>1, <2>1, <2>2 DEF DiskInv, Nameless
<1>3. CASE Refreshed
  <2>1. ASSUME NEW r \in Roles, NEW o \in Ords
        PROVE  /\ cr'.mem[r][o].state = cr.mem[r][o].state
               /\ Housed(stat'.mem[r][o], guest'[r][o]) /\ Housed(cr'.mem[r][o], guest'[r][o])
    <3>1. Refreshes(cr.mem[r][o], cr'.mem[r][o], guest[r][o], guest'[r][o], cr.gen)
      BY <1>3 DEF Refreshed
    <3>2. cr'.mem[r][o].state = cr.mem[r][o].state
      BY <3>1 DEF Refreshes
    <3> QED  BY <1>3, <3>1, <3>2, HousedOnceRefreshed DEF Refreshed, DiskInv
  <2>2. Nameless(cr') /\ Nameless(stat')
    BY <1>3, <2>1 DEF Refreshed, SameHeader, DiskInv, Nameless, Present
  <2>3. CreatingIsStored'
    BY <1>3, <2>1 DEF Refreshed, DiskInv, CreatingIsStored, Alike, With
  <2> QED  BY <1>1, <1>3, <2>1, <2>2, <2>3 DEF DiskInv, Refreshed, Nameless
<1>4. CASE Handled
  <2>1. ASSUME NEW r \in Roles, NEW o \in Ords
        PROVE  Housed(stat'.mem[r][o], guest'[r][o]) /\ Housed(cr'.mem[r][o], guest'[r][o])
    <3>1. guest'[r][o] # guest[r][o] /\ cr.mem[r][o].state = "creating" =>
            stat.mem[r][o].state = "creating"
      BY <1>4 DEF Handled, DiskInv, CreatingIsStored, With
    <3> QED  BY <1>4, <3>1, HousedOnceHandled DEF Handled, DiskInv
  <2>2. Nameless(cr') /\ Nameless(stat')
    <3>1. \A r \in Roles, o \in Ords :
            cr.mem[r][o].state = "none" => cr'.mem[r][o].state = "none"
      BY <1>4 DEF Handled, Handles, Waits, Launches, RunsScript, HandsOut, Readies, Breaks,
                    Leaves
    <3> QED  BY <1>4, <3>1 DEF Handled, SameHeader, DiskInv, Nameless, Present
  <2>3. CreatingIsStored'
    <3>1. \A r \in Roles : UnderWay(r)' =>
            UnderWay(r) /\ \A o \in Ords : cr'.mem[r][o].state = cr.mem[r][o].state
      BY <1>4 DEF Handled
    <3> QED  BY <1>4, <3>1 DEF Handled, DiskInv, CreatingIsStored, Alike, With
  <2> QED  BY <1>1, <1>4, <2>1, <2>2, <2>3 DEF DiskInv, Handled, Nameless
<1>5. CASE Stored
  <2>1. \A r \in Roles, o \in Ords : Housed(stat'.mem[r][o], guest'[r][o])
    BY <1>5, HousedOnceStored DEF Stored, DiskInv
  <2>2. Nameless(stat')
    BY <1>5 DEF Stored, SameHeader, Stores, DiskInv, Nameless, Present, NoMember
  <2>3. CreatingIsStored'
    BY <1>5 DEF Stored, CreatingIsStored, UnderWay
  <2> QED  BY <1>1, <1>5, <2>1, <2>2, <2>3 DEF DiskInv, Stored, Nameless
<1>6. CASE Lost
  <2>1. CreatingIsStored'
    BY <1>6 DEF Lost, CreatingIsStored, UnderWay
  <2> QED  BY <1>1, <1>6, <2>1 DEF Lost, DiskInv, Nameless
<1>7. CASE Outside
  <2>1. ASSUME NEW r \in Roles, NEW o \in Ords
        PROVE  /\ pod'[r][o].phase = "up" => pod'[r][o].cid # 0
               /\ Housed(stat'.mem[r][o], guest'[r][o]) /\ Housed(cr'.mem[r][o], guest'[r][o])
    <3>1. pod[r][o].cid \in Nat
      BY DEF DiskInv, ListInv, Inv, TypeOK, Pod
    <3>2. pod'[r][o].phase = "up" => pod'[r][o].cid # 0
      BY <1>7, <3>1 DEF Outside, Happens, DiskInv
    <3> QED  BY <1>7, <3>2, HousedOutside DEF Outside, DiskInv
  <2>2. CreatingIsStored'
    BY <1>7 DEF Outside, DiskInv, CreatingIsStored, UnderWay
  <2> QED  BY <1>1, <1>7, <2>1, <2>2 DEF Outside, DiskInv, Nameless
<1> QED  BY <1>1, <1>2, <1>3, <1>4, <1>5, <1>6, <1>7 DEF Kinds

\* A member that starts from nothing never finds a predecessor's file on its volume,
\* whoever had the name before and however passes died in between: the volume goes
\* with the member (handleDeletingMembers), and no name is given out until then.
THEOREM FreshDisks == Spec /\ KeepsCopy => []FreshMemberFreshDisk
<1>1. DiskInv => FreshMemberFreshDisk
  BY DEF DiskInv, FreshMemberFreshDisk, Housed, Unstarted
<1> QED  BY <1>1, DiskInit, DiskStep, PTL DEF Spec, KeepsCopy

-----------------------------------------------------------------------------
(* Replicas. *)

\* A count put right leaves the pods of those whom the pass found in service.
LEMMA RecountSpares ==
  ASSUME ListInv, NEW r \in todo, phase \in {"members", "blocked"},
         NEW q \in Roles, NEW o \in Ords,
         Recounted(r)[q].replicas <= o, o < sset[q].replicas
  PROVE  q = r /\ cr.mem[q][o].state \notin Requested
<1>1. /\ r \in Roles /\ sset \in [Roles -> StatefulSet]
      /\ sset[q].replicas \in Nat /\ o \in Nat
  BY MaxMembersAssumption DEF ListInv, Inv, TypeOK, StatefulSet, Ords
<1>2. PICK n \in 0 .. MaxMembers : With(cr.mem[r], Requested) = 0 .. (n - 1)
  BY <1>1 DEF ListInv, Dense
<1>3. In(r, Requested) = 0 .. (n - 1)
  BY <1>1, <1>2 DEF ListInv, SnapIsCurrent, In, With
<1>4. Cardinality(In(r, Requested)) = n /\ n \in Nat
  BY <1>3, FirstOnes, MaxMembersAssumption
<1>5. Recounted(r)[q].replicas # sset[q].replicas
  BY <1>1
<1>6. q = r /\ Recounted(r)[q].replicas = n
  <2>1. Recounted(r) = sset
        \/ Recounted(r) = [sset EXCEPT ![r].replicas = Cardinality(In(r, Requested))]
    BY DEF Recounted
  <2>2. [sset[r] EXCEPT !.replicas = n].replicas = n
    BY <1>1 DEF StatefulSet
  <2> QED  BY <1>1, <1>4, <1>5, <2>1, <2>2
<1>7. o \notin With(cr.mem[r], Requested)
  BY <1>1, <1>2, <1>4, <1>6
<1> QED  BY <1>6, <1>7 DEF With

SparesMembers ==
  \A r \in Roles :
    sset'[r].name = sset[r].name =>
      \A o \in Ords : sset'[r].replicas <= o /\ o < sset[r].replicas =>
        cr'.mem[r][o].state \notin Requested

LEMMA SameReplicasSpare ==
  ASSUME Inv, \A r \in Roles : sset'[r].name = sset[r].name =>
                                 sset'[r].replicas = sset[r].replicas
  PROVE  SparesMembers
<1>1. \A r \in Roles, o \in Ords : sset[r].replicas \in Nat /\ o \in Nat
  BY MaxMembersAssumption DEF Inv, TypeOK, StatefulSet, Ords
<1> QED  BY <1>1 DEF SparesMembers

LEMMA StepSpares ==
  DiskInv /\ [Next]_vars /\ [~BeginPassOverwritten]_vars => [SparesMembers]_sset
<1> SUFFICES ASSUME DiskInv, [Next]_vars, [~BeginPassOverwritten]_vars, sset' # sset
             PROVE  SparesMembers
  OBVIOUS
<1>1. Inv /\ ListInv /\ \A r \in Roles : sset[r] \in StatefulSet
  BY DEF DiskInv, ListInv, Inv, TypeOK
<1>2. CASE FirstPass \/ Begin
  <2>1. PICK R : StartPass(R)
    BY <1>1, <1>2, BegunFrom DEF FirstPass
  <2>2. ASSUME NEW r \in Roles, sset'[r].name = sset[r].name
        PROVE  sset'[r].replicas = sset[r].replicas
    BY <1>1, <2>1, <2>2 DEF StartPass, RoleSset, StatefulSet
  <2> QED  BY <1>1, <2>2, SameReplicasSpare
<1>3. ASSUME NEW r \in Roles, SsetDelete(r) PROVE SparesMembers
  <2>1. \A q \in Roles : sset'[q].replicas = sset[q].replicas
    BY <1>1, <1>3 DEF SsetDelete, Inv, TypeOK, StatefulSet
  <2> QED  BY <1>1, <2>1, SameReplicasSpare
<1>4. ASSUME NEW r \in Roles, HandleRole(r) PROVE SparesMembers
  <2>1. Handled /\ sset' = Recounted(r) /\ r \in todo /\ phase \in {"members", "blocked"}
    BY <1>1, <1>4, HandleRoleHandled DEF HandleRole
  <2>2. \A q \in Roles, o \in Ords :
          cr'.mem[q][o].state \in Requested => cr.mem[q][o].state \in Requested
    BY <2>1 DEF Handled, Handles, Waits, Launches, RunsScript, HandsOut, Readies, Breaks,
                Leaves, Requested
  <2> QED  BY <1>1, <2>1, <2>2, RecountSpares DEF SparesMembers
<1>5. ASSUME NEW r \in Roles, DiesInRole(r) PROVE SparesMembers
  <2>1. /\ r \in seen /\ sset' = Recounted(r) /\ r \in todo /\ Dies(r)
        /\ phase \in {"members", "blocked"} /\ cr' = stat
    BY <1>5 DEF DiesInRole, ProcessDies
  <2>2. PICK o \in Ords : cr.mem[r][o].state = "creating"
    BY <1>1, <2>1 DEF Dies, In, ListInv, SnapIsCurrent
  <2>3. With(stat.mem[r], Requested) = With(cr.mem[r], Requested)
    BY <2>1, <2>2 DEF DiskInv, CreatingIsStored, UnderWay, With, Alike
  <2>4. \A o1 \in Ords : cr.mem[r][o1].state \notin Requested =>
                           stat.mem[r][o1].state \notin Requested
    BY <2>3 DEF With
  <2> QED  BY <1>1, <2>1, <2>4, RecountSpares DEF SparesMembers
<1>11. ASSUME NEW r \in Roles, PanicInRole(r) PROVE FALSE
  BY <1>11 DEF PanicInRole
<1>6. CASE UpdateReadyMembers \/ StartNotify \/ WriteStatus \/ Crash
  BY <1>6 DEF UpdateReadyMembers, StartNotify, WriteStatus, Crash, ProcessDies
<1>7. ASSUME NEW r \in Roles, NEW o \in Ords, Deliver(r, o) PROVE FALSE
  BY <1>7 DEF Deliver
<1>8. ASSUME NEW r \in Roles, NEW n, ChangeSpec(r, n) PROVE FALSE
  BY <1>8 DEF ChangeSpec
<1>9. CASE ChangeConnections \/ UNCHANGED vars
  BY <1>9 DEF ChangeConnections, vars
<1>10. ASSUME NEW r \in Roles, NEW o \in Ords,
              \/ PodStart(r, o) \/ PodStop(r, o)
              \/ \E how \in {"absent", "down"} : PodRestart(r, o, how)
              \/ \E ok \in BOOLEAN : ScriptEnds(r, o, ok)
       PROVE  FALSE
  BY <1>10 DEF PodStart, PodStop, PodRestart, ScriptEnds
<1> QED
  BY <1>2, <1>3, <1>4, <1>5, <1>6, <1>7, <1>8, <1>9, <1>10, <1>11
     DEF Next, Reconcile, Begin, Environment, vars

\* Whatever pass sets the replicas of a StatefulSet, and even if it dies right then,
\* no pod goes that belongs to a member in service.
THEOREM ScaleDownsSpareMembers == Spec /\ KeepsCopy => ScaleDownSparesMembers
<1>1. [SparesMembers]_sset =>
        [\A r \in Roles :
           sset'[r].name = sset[r].name =>
             \A o \in Ords : sset'[r].replicas <= o /\ o < sset[r].replicas =>
               cr'.mem[r][o].state \notin Requested]_sset
  BY DEF SparesMembers
<1> QED  BY <1>1, DiskInit, DiskStep, StepSpares, PTL
         DEF Spec, KeepsCopy, ScaleDownSparesMembers

-----------------------------------------------------------------------------
(* The generation moves with the members. *)

Came(r) == {o \in Present(cr.mem[r]) : stat.mem[r][o].state = "none"}
Went(r) == With(stat.mem[r], Requested) \ With(cr.mem[r], Requested)

GenInv ==
  /\ DiskInv
  /\ cr.gen >= stat.gen
  /\ \A r \in Roles : Came(r) \cup Went(r) # {} => cr.gen > stat.gen

\* Who comes and who goes is known to the generation change.
LEMMA ComesAndGoes ==
  ASSUME Inv, NEW R, NEW r \in Roles, NEW o \in Ords,
         \/ stat.mem[r][o].state = "none" /\ Synced(R).mem[r][o].state # "none"
         \/ stat.mem[r][o].state \in Requested /\ Synced(R).mem[r][o].state \notin Requested
  PROVE  r \in R /\ RoleChanged(r)
<1>1. Synced(R).mem[r] = IF r \in R THEN RoleMembers(r) ELSE Checked(r)
  BY DEF Synced, Inv, TypeOK, Status
<1>2. Synced(R).mem[r] # Checked(r)
  BY CheckedAlike DEF Alike, Present, With
<1>3. ~RoleChanged(r) => RoleMembers(r) = Checked(r)
  BY DEF RoleChanged, RoleMembers, Resized
<1> QED  BY <1>1, <1>2, <1>3

LEMMA GenBegins ==
  ASSUME DiskInv, FirstPass \/ Begin, ~BeginPassNoSset
  PROVE  /\ cr'.gen >= stat.gen
         /\ \A r \in Roles, o \in Ords :
              \/ stat.mem[r][o].state = "none" /\ cr'.mem[r][o].state # "none"
              \/ stat.mem[r][o].state \in Requested /\ cr'.mem[r][o].state \notin Requested
              => cr'.gen > stat.gen
<1>1. Inv /\ stat.gen \in Nat /\ NextGen >= stat.gen /\ \A R : Synced(R) \in Status
  BY NextGenType, SyncedSafe DEF DiskInv, ListInv, Inv, TypeOK, Status
<1>2. \A R : Synced(R).gen = stat.gen
  BY <1>1 DEF Synced, Inv, TypeOK, Status
<1>3. CASE FirstPass
  BY <1>1, <1>3 DEF FirstPass, Inv, TypeOK, Status
<1>4. CASE BeginPassNoCluster
  <2>1. cr' = Synced({})
    BY <1>4 DEF BeginPassNoCluster
  <2> QED  BY <1>1, <1>2, <2>1, ComesAndGoes
<1>5. CASE BeginPass \/ BeginPassNoService
  <2>1. cr'.mem = Synced(SyncedRoles).mem /\ cr'.gen = NextGen
    BY <1>1, <1>5 DEF BeginPass, BeginPassNoService, Status
  <2>2. Changed => NextGen > stat.gen
    BY <1>1 DEF NextGen
  <2> QED  BY <1>1, <2>1, <2>2, ComesAndGoes DEF Changed
<1> QED  BY <1>3, <1>4, <1>5 DEF Begin

LEMMA GenInit == Init => GenInv
BY DiskInit DEF Init, GenInv, Came, Went, Present

LEMMA GenStep ==
  GenInv /\ [Next]_vars /\ [~BeginPassOverwritten]_vars /\ [~BeginPassNoSset]_vars =>
    GenInv' /\ [(\E r \in Roles : Joined(r) \cup Left(r) # {}) => stat'.gen > stat.gen]_stat
<1> SUFFICES ASSUME GenInv, [Next]_vars, [~BeginPassOverwritten]_vars,
                    [~BeginPassNoSset]_vars
             PROVE  /\ GenInv'
                    /\ stat' = stat \/ ((\E r \in Roles : Joined(r) \cup Left(r) # {})
                                          => stat'.gen > stat.gen)
  OBVIOUS
<1>1. DiskInv /\ DiskInv' /\ Kinds /\ stat'.gen \in Nat /\ stat.gen \in Nat
  BY DiskStep DEF GenInv, DiskInv, ListInv, Inv, TypeOK, Status
<1>2. ASSUME stat' = stat, cr'.gen = cr.gen,
             \A r \in Roles, o \in Ords :
               /\ cr.mem[r][o].state = "none" => cr'.mem[r][o].state = "none"
               /\ cr.mem[r][o].state \in Requested => cr'.mem[r][o].state \in Requested
      PROVE  GenInv'
  BY <1>1, <1>2 DEF GenInv, Came, Went, Present, With
<1>3. ASSUME stat'.gen = cr'.gen, stat'.mem = cr'.mem PROVE GenInv'
  BY <1>1, <1>3 DEF GenInv, Came, Went, Present
<1>4. CASE (FirstPass \/ Begin) /\ Begun
  <2>1. CASE UNCHANGED vars
    BY <1>2, <2>1 DEF vars
  <2>2. CASE ~BeginPassNoSset
    BY <1>1, <1>4, <2>2, GenBegins DEF Begun, GenInv, Came, Went, Present, With
  <2> QED  BY <1>4, <2>1, <2>2 DEF Begun
<1>5. CASE Refreshed
  BY <1>2, <1>5 DEF Refreshed, Refreshes, SameHeader
<1>6. CASE Handled
  <2>1. \A r \in Roles, o \in Ords :
          /\ cr.mem[r][o].state = "none" => cr'.mem[r][o].state = "none"
          /\ cr.mem[r][o].state \in Requested => cr'.mem[r][o].state \in Requested
    BY <1>6 DEF Handled, Handles, Waits, Launches, RunsScript, HandsOut, Readies, Breaks,
                    Leaves, Requested
  <2> QED  BY <1>2, <1>6, <2>1 DEF Handled, SameHeader
<1>7. CASE Stored
  <2>1. stat'.gen = cr.gen /\ cr' = stat'
    BY <1>7 DEF Stored, SameHeader
  <2>2. \A r \in Roles : Joined(r) \cup Left(r) # {} => Came(r) \cup Went(r) # {}
    BY <1>7 DEF Stored, Stores, NoMember, Joined, Left, Came, Went, Present, With, Requested
  <2> QED  BY <1>3, <2>1, <2>2 DEF GenInv
<1>8. CASE Lost
  BY <1>3, <1>8 DEF Lost
<1>9. CASE Outside
  BY <1>2, <1>9 DEF Outside
<1> QED  BY <1>1, <1>4, <1>5, <1>6, <1>7, <1>8, <1>9 DEF Kinds

\* Wherever no StatefulSet fails to be created, a status write that adds members or
\* takes some out of service raises the generation.  (The known flaw: syncCluster
\* returns at that failure before it raises it.)
THEOREM GenerationsMove ==
  Spec /\ KeepsCopy /\ [][~BeginPassNoSset]_vars => GenMovesWithMembers
BY GenInit, GenStep, PTL DEF Spec, KeepsCopy, GenMovesWithMembers

-----------------------------------------------------------------------------
(* Configured means done. *)

Unmoved(st) == st.hash = 0 => \A r \in Roles : With(st.mem[r], {"creating", "ready"}) = {}

StableAll(st) == \A r \in Roles, o \in Ords : Stable(st.mem[r][o], st.gen)

Turned == cr.state = "configured" /\ stat.state # "configured"

\* With the connections as they were, the generation moves on a pass that finds
\* nothing to do only if there is no connection hash yet, and then no member that
\* could be out of date.
DoneInv ==
  /\ DiskInv
  /\ conns = 1
  /\ stat.hash \in {0, 1} /\ cr.hash \in {0, 1}
  /\ Unmoved(stat) /\ Unmoved(cr)
  /\ phase \in {"update", "members", "blocked"} => cr.hash = 1
  /\ Turned => phase \in {"notify", "write"} /\ StableAll(cr)

\* Nobody is made creating or ready by the start of a pass.
LEMMA BegunUnmoved ==
  ASSUME Begun, Unmoved(stat), stat.hash = 0
  PROVE  \A r \in Roles : With(cr'.mem[r], {"creating", "ready"}) = {}
BY DEF Begun, Begins, Unmoved, With, NewMember, NoMember

LEMMA BeginTurns ==
  ASSUME DoneInv, BeginPass, Begun
  PROVE  /\ cr'.hash = 1 /\ phase' \in {"notify", "update"}
         /\ cr'.state = "configured" => phase' = "notify" /\ StableAll(cr')
<1>1. /\ Inv /\ Synced(SyncedRoles) \in Status /\ conns = 1
      /\ \A r \in Roles, o \in Ords : stat.mem[r][o] \in Member
  BY SyncedSafe DEF DoneInv, DiskInv, ListInv, Inv, TypeOK, Status
<1>2. /\ cr'.hash = 1 /\ cr'.gen = NextGen /\ cr'.mem = Synced(SyncedRoles).mem
      /\ cr'.state = "configured" => AllStable
      /\ phase' = IF AllStable THEN "notify" ELSE "update"
  BY <1>1 DEF BeginPass, Status
<1>3. ASSUME AllStable, NEW r \in Roles, NEW o \in Ords
      PROVE  Stable(cr'.mem[r][o], cr'.gen)
  <2>1. cr'.mem[r] = RoleMembers(r)
    BY <1>1, <1>2, <1>3 DEF AllStable, SyncedRoles, Synced, Inv, TypeOK, Status
  <2>2. Stable(cr'.mem[r][o], stat.gen) /\ ~Changed
    BY <1>3, <2>1 DEF AllStable
  <2>3. CASE stat.hash = 1
    BY <1>1, <1>2, <2>2, <2>3 DEF NextGen
  <2>4. CASE stat.hash = 0
    <3>1. cr'.mem[r][o].state # "ready"
      BY <2>4, BegunUnmoved DEF DoneInv, With
    <3> QED  BY <2>2, <3>1 DEF Stable
  <2> QED  BY <2>3, <2>4 DEF DoneInv
<1> QED  BY <1>2, <1>3 DEF StableAll

\* Bringing a stable member up to date leaves it stable.
LEMMA NotifyTurned ==
  ASSUME DoneInv, StartNotify, Turned
  PROVE  phase' = "write" /\ StableAll(cr')
<1>1. /\ cr.gen \in Nat
      /\ \A r \in Roles, o \in Ords :
           cr.mem[r][o] \in Member /\ Ordered(cr.mem[r][o], cr.gen)
           /\ Stable(cr.mem[r][o], cr.gen)
  BY DEF DoneInv, DiskInv, ListInv, Inv, Sound, TypeOK, Status, StableAll, ListOrdered
<1>2. mail' = {} /\ phase' = "write"
  <2>1. \A r \in Roles, o \in Ords :
          ~(cr.mem[r][o].state = "ready" /\ cr.mem[r][o].pend # NoNotify)
    BY <1>1 DEF Stable
  <2>2. mail' = {}
    BY <2>1 DEF StartNotify
  <2> QED  BY <2>2 DEF StartNotify
<1>3. /\ cr'.gen = cr.gen
      /\ \A r \in Roles, o \in Ords :
           \/ cr'.mem[r][o] = cr.mem[r][o]
           \/ /\ cr.mem[r][o].state = "ready" /\ cr.mem[r][o].setup # 0
              /\ cr'.mem[r][o] = [cr.mem[r][o] EXCEPT !.setup = cr.mem[r][o].cfg]
  BY DEF StartNotify, DoneInv, DiskInv, ListInv, Inv, TypeOK, Status
<1>4. ASSUME NEW m \in Member, Ordered(m, cr.gen), Stable(m, cr.gen), m.state = "ready",
             m.setup # 0
      PROVE  Stable([m EXCEPT !.setup = m.cfg], cr.gen)
  <2>1. m.cfg = cr.gen /\ m.pend = NoNotify
    BY <1>1, <1>4 DEF Ordered, Stable, Member
  <2> QED  BY <1>4, <2>1 DEF Stable, Member
<1> QED  BY <1>1, <1>2, <1>3, <1>4 DEF StableAll

\* Only users change what the cluster is connected to.
LEMMA ConnectionsStay == Inv /\ [Next]_vars => conns' = conns \/ ChangeConnections
<1> SUFFICES ASSUME Inv, [Next]_vars PROVE conns' = conns \/ ChangeConnections
  OBVIOUS
<1>1. (FirstPass \/ Begin) => conns' = conns
  BY BegunFrom DEF FirstPass, StartPass
<1>2. (BeginPassOverwritten \/ UpdateReadyMembers \/ StartNotify \/ WriteStatus) =>
        conns' = conns
  BY DEF BeginPassOverwritten, StartPass, UpdateReadyMembers, StartNotify, WriteStatus
<1>8. PassDies => conns' = conns
  BY DEF Crash, DiesInRole, ProcessDies, PassDies
<1>3. \A r \in Roles : HandleRole(r) \/ PanicInRole(r) => conns' = conns
  BY DEF HandleRole, PanicInRole
<1>4. \A r \in Roles, o \in Ords : Deliver(r, o) => conns' = conns
  BY DEF Deliver
<1>5. \A r \in Roles, n \in Want : ChangeSpec(r, n) => conns' = conns
  BY DEF ChangeSpec
<1>6. Environment => conns' = conns \/ ChangeConnections
  BY <1>5 DEF Environment, PodStart, PodStop, PodRestart, SsetDelete, ScriptEnds, EnvStep
<1>7. UNCHANGED vars => conns' = conns
  BY DEF vars
<1> QED
  BY <1>1, <1>2, <1>3, <1>4, <1>6, <1>7, <1>8 DEF Next, Reconcile, Begin, PassDies

LEMMA DoneInit == Init => DoneInv
BY DiskInit DEF Init, DoneInv, Unmoved, Turned, With, NoMember

LEMMA DoneStep ==
  DoneInv /\ [Next]_vars /\ [~BeginPassOverwritten]_vars /\ [~ChangeConnections]_vars =>
    DoneInv' /\ [stat'.state = "configured" /\ stat.state # "configured" =>
                   \A r \in Roles, o \in Ords : Stable(stat'.mem[r][o], stat'.gen)]_stat
<1> SUFFICES ASSUME DoneInv, [Next]_vars, [~BeginPassOverwritten]_vars,
                    [~ChangeConnections]_vars
             PROVE  /\ DoneInv'
                    /\ \/ stat' = stat
                       \/ stat'.state = "configured" /\ stat.state # "configured"
                            => StableAll(stat')
  BY DEF StableAll
<1>1. DiskInv /\ DiskInv' /\ Kinds /\ Inv /\ ListInv
  BY DiskStep DEF DoneInv, DiskInv, ListInv
<1>2. conns' = 1
  BY <1>1, ConnectionsStay DEF DoneInv, vars
<1>3. CASE UNCHANGED vars
  BY <1>1, <1>2, <1>3 DEF vars, DoneInv, Unmoved, Turned, StableAll
<1>4. CASE FirstPass /\ Begun
  BY <1>1, <1>2, <1>4 DEF FirstPass, DoneInv, Unmoved, Turned, Inv, TypeOK, Status
<1>5. CASE Begin /\ Begun /\ ~BeginPass
  <2>1. ASSUME NEW R
        PROVE  Synced(R) \in Status /\ Synced(R).state = stat.state /\ Synced(R).hash = stat.hash
    <3>1. Synced(R) \in Status
      BY <1>1, SyncedSafe
    <3> QED  BY <1>1, <3>1 DEF Synced, Inv, TypeOK, Status
  <2>2. stat' = stat /\ phase' = "notify"
    BY <1>5
       DEF Begin, BeginPassNoCluster, BeginPassNoSset, BeginPassNoService, StartPass
  <2>3. PICK R : cr' = Synced(R) \/ cr' = [Synced(R) EXCEPT !.gen = NextGen, !.hash = conns]
    BY <1>5 DEF Begin, BeginPassNoCluster, BeginPassNoSset, BeginPassNoService
  <2>4. cr'.state = stat.state /\ cr'.hash \in {stat.hash, 1}
    BY <2>1, <2>3 DEF DoneInv, Status
  <2>5. Unmoved(cr')
    BY <1>5, <2>4, BegunUnmoved DEF DoneInv, Unmoved
  <2> QED  BY <1>1, <1>2, <2>2, <2>4, <2>5 DEF DoneInv, Turned, Unmoved
<1>6. CASE BeginPass /\ Begun
  <2>1. Unmoved(cr') /\ stat' = stat
    BY <1>6, BeginTurns DEF Unmoved, Begun
  <2> QED  BY <1>1, <1>2, <1>6, <2>1, BeginTurns DEF DoneInv, Turned, Unmoved
<1>7. CASE Refreshing /\ Refreshed
  <2>1. /\ stat' = stat /\ SameHeader(cr, cr')
        /\ \A r \in Roles, o \in Ords : cr'.mem[r][o].state = cr.mem[r][o].state
    BY <1>7 DEF Refreshed, Refreshes
  <2>2. Unmoved(stat') /\ Unmoved(cr')
    BY <2>1 DEF DoneInv, Unmoved, SameHeader, With
  <2>3. phase' \in {"update", "members", "blocked"} => cr'.hash = 1
    BY <1>7, <2>1
       DEF Refreshing, UpdateReadyMembers, StartNotify, PanicInRole, Deliver, SameHeader, DoneInv
  <2>4. Turned' => Turned /\ StartNotify
    BY <1>7, <2>1
       DEF Turned, SameHeader, DoneInv, Refreshing, UpdateReadyMembers, PanicInRole, Deliver
  <2> QED  BY <1>1, <1>2, <2>1, <2>2, <2>3, <2>4, NotifyTurned DEF DoneInv, SameHeader
<1>8. CASE (\E r \in Roles : HandleRole(r)) /\ Handled
  <2>1. /\ stat' = stat /\ SameHeader(cr, cr') /\ phase \in {"members", "blocked"}
    BY <1>8 DEF Handled, HandleRole
  <2>2. cr.hash = 1 /\ ~Turned
    BY <2>1 DEF DoneInv
  <2> QED  BY <1>1, <1>2, <2>1, <2>2 DEF DoneInv, Unmoved, Turned, SameHeader
<1>9. CASE WriteStatus /\ Stored
  <2>1. /\ phase' = "idle" /\ cr' = stat' /\ SameHeader(cr, stat')
        /\ \A r \in Roles, o \in Ords : Stores(cr.mem[r][o], stat'.mem[r][o])
    BY <1>9 DEF Stored
  <2>2. Unmoved(stat')
    BY <2>1 DEF DoneInv, Unmoved, With, Stores, NoMember, SameHeader
  <2>3. StableAll(cr) => StableAll(stat')
    BY <2>1 DEF StableAll, Stable, Stores, NoMember, SameHeader
  <2> QED  BY <1>1, <1>2, <2>1, <2>2, <2>3 DEF DoneInv, Turned, SameHeader, Unmoved
<1>10. CASE PassDies /\ Lost
  BY <1>1, <1>2, <1>10 DEF Lost, DoneInv, Unmoved, Turned
<1>11. CASE Outside
  BY <1>1, <1>2, <1>11 DEF Outside, DoneInv, Unmoved, Turned, StableAll
<1> QED
  BY <1>1, <1>3, <1>4, <1>5, <1>6, <1>7, <1>8, <1>9, <1>10, <1>11 DEF Kinds

\* While nothing changes that the cluster is connected to, the status turns to
\* configured only when no member has anything left to process.  (The known flaw:
\* a pass that finds no work decides so before it sees that the connections moved.)
THEOREM ConfiguredWhenDone ==
  Spec /\ KeepsCopy /\ [][~ChangeConnections]_vars => ConfiguredMeansDone
BY DoneInit, DoneStep, PTL DEF Spec, KeepsCopy, ConfiguredMeansDone

-----------------------------------------------------------------------------
(* Containers and what their scripts left: nothing ahead of the pod. *)

\* A configure.status file is of the container it was last started in, and a member
\* whose setup failed there is set up anew only in a later one.
Aged(m, g, p) ==
  /\ g.fcid <= p.cid /\ m.conf <= p.cid /\ m.cing <= p.cid
  /\ m.state \in {"ready", "configError"} => g.fcid <= m.conf
  /\ m.state = "createPending" /\ g.file # "none" => g.fcid < p.cid \/ p.phase = "absent"
  /\ m.state = "creating" => g.fcid <= m.cing
  /\ m.state = "creating" /\ m.err => g.file = "none" \/ g.fcid # m.cing

IdleIsStored == phase = "idle" => cr = stat

OnceInv ==
  /\ DiskInv
  /\ IdleIsStored
  /\ \A r \in Roles, o \in Ords : Aged(cr.mem[r][o], guest[r][o], pod[r][o])

LEMMA AgedOnceBegun ==
  ASSUME NEW m \in Member, NEW n, NEW g \in Guest, NEW h, NEW p \in Pod, NEW q,
         NEW persistent, Aged(m, g, p), Housed(m, g), Begins(m, n, p, persistent),
         Swept(g, h, p, q)
  PROVE  Aged(n, h, q)
<1>1. /\ m.conf \in Nat /\ m.cing \in Nat /\ g.fcid \in Nat /\ p.cid \in Nat
      /\ NewMember.state = "createPending" /\ NewMember.conf = 0 /\ NewMember.cing = 0
      /\ ~NewMember.err /\ BlankGuest.file = "none" /\ BlankGuest.fcid = 0
  BY DEF Member, Guest, Pod, NewMember, NoMember, BlankGuest
<1>2. Aged(n, g, p)
  BY <1>1 DEF Aged, Begins, Keeps, Housed, Unstarted, ContainerID
<1>3. n.conf \in Nat /\ n.cing \in Nat
  BY <1>1 DEF Begins, Keeps
<1> QED  BY <1>1, <1>2, <1>3 DEF Swept, Aged

LEMMA AgedOnceRefreshed ==
  ASSUME NEW m, NEW n, NEW g, NEW h, NEW p, NEW gen, Aged(m, g, p), Refreshes(m, n, g, h, gen)
  PROVE  Aged(n, h, p)
BY DEF Aged, Refreshes, Keeps, SameFile

LEMMA AgedOnceHandled ==
  ASSUME NEW m \in Member, NEW n, NEW g \in Guest, NEW h, NEW r, NEW p \in Pod,
         NEW gen, NEW push, Aged(m, g, p), Handles(m, n, g, h, r, p, gen, push)
  PROVE  Aged(n, h, p)
<1>1. /\ m.conf \in Nat /\ m.cing \in Nat /\ g.fcid \in Nat /\ p.cid \in Nat
      /\ BlankGuest.file = "none" /\ BlankGuest.fcid = 0
  BY DEF Member, Guest, Pod, BlankGuest
<1>2. CASE Waits(m, n, g, h, push)
  BY <1>2 DEF Aged, Waits, Keeps, Forgets
<1>3. CASE Launches(m, n, g, h, p)
  BY <1>1, <1>3 DEF Aged, Launches
<1>4. CASE RunsScript(m, n, g, h, p, gen)
  BY <1>1, <1>4 DEF Aged, RunsScript, Keeps
<1>5. CASE HandsOut(m, n, g, h, p, gen) \/ Readies(m, n, g, h, p, r \in Packaged)
           \/ Breaks(m, n, g, h, gen)
  BY <1>1, <1>5 DEF Aged, HandsOut, Readies, Breaks, SameFile
<1>6. CASE Leaves(m, n, g, h)
  BY <1>1, <1>6 DEF Aged, Leaves, Keeps
<1> QED  BY <1>2, <1>3, <1>4, <1>5, <1>6 DEF Handles

LEMMA AgedOnceStored ==
  ASSUME NEW m, NEW n, NEW g, NEW p \in Pod, Aged(m, g, p), Stores(m, n)
  PROVE  Aged(n, g, p)
BY DEF Aged, Stores, NoMember, Pod

LEMMA AgedOutside ==
  ASSUME NEW m \in Member, NEW g \in Guest, NEW h, NEW p \in Pod, NEW q, NEW persistent,
         Aged(m, g, p), Happens(g, h, p, q, persistent)
  PROVE  Aged(m, h, q)
<1>1. /\ m.conf \in Nat /\ m.cing \in Nat /\ g.fcid \in Nat /\ p.cid \in Nat
      /\ BlankGuest.file = "none" /\ BlankGuest.fcid = 0
  BY DEF Member, Guest, Pod, BlankGuest
<1> QED  BY <1>1 DEF Aged, Happens

\* Between passes there is no working copy.
LEMMA IdleStep ==
  ASSUME Inv, IdleIsStored, Kinds
  PROVE  IdleIsStored'
<1>1. FirstPass \/ Begin => phase' # "idle"
  BY DEF FirstPass, Begin, BeginPass, BeginPassNoCluster, BeginPassNoSset, BeginPassNoService
<1>2. UpdateReadyMembers \/ StartNotify => phase' # "idle"
  BY DEF UpdateReadyMembers, StartNotify
<1>3. \A r \in Roles : HandleRole(r) \/ PanicInRole(r) => phase' # "idle"
  BY DEF HandleRole, PanicInRole
<1>4. \A r \in Roles, o \in Ords : Deliver(r, o) => phase' # "idle"
  BY DEF Deliver
<1> QED
  BY <1>1, <1>2, <1>3, <1>4 DEF Kinds, Refreshing, IdleIsStored, Stored, Lost, Outside

LEMMA OnceInit == Init => OnceInv
<1> SUFFICES ASSUME Init PROVE OnceInv
  OBVIOUS
<1>1. \A r \in Roles, o \in Ords :
        cr.mem[r][o] = NoMember /\ guest[r][o] = BlankGuest /\ pod[r][o].cid = 0
  BY DEF Init
<1>2. \A r \in Roles, o \in Ords : Aged(cr.mem[r][o], guest[r][o], pod[r][o])
  BY <1>1 DEF Aged, NoMember, BlankGuest
<1> QED  BY <1>2, DiskInit DEF Init, OnceInv, IdleIsStored

LEMMA OnceStep ==
  OnceInv /\ [Next]_vars /\ [~BeginPassOverwritten]_vars /\ [~PassDies]_vars => OnceInv'
<1> SUFFICES ASSUME OnceInv, [Next]_vars, [~BeginPassOverwritten]_vars, [~PassDies]_vars
             PROVE  OnceInv'
  OBVIOUS
<1>1. /\ DiskInv /\ DiskInv' /\ Kinds /\ Inv
      /\ \A r \in Roles, o \in Ords :
           /\ Aged(cr.mem[r][o], guest[r][o], pod[r][o])
           /\ Housed(cr.mem[r][o], guest[r][o])
           /\ cr.mem[r][o] \in Member /\ guest[r][o] \in Guest /\ pod[r][o] \in Pod
  <2>1. DiskInv /\ DiskInv' /\ Kinds
    BY DiskStep DEF OnceInv
  <2>2. Inv
    BY DEF OnceInv, DiskInv, ListInv
  <2>3. \A r \in Roles, o \in Ords :
          cr.mem[r][o] \in Member /\ guest[r][o] \in Guest /\ pod[r][o] \in Pod
    BY <2>2 DEF Inv, TypeOK, Status
  <2> QED  BY <2>1, <2>2, <2>3 DEF OnceInv, DiskInv
<1>2. IdleIsStored'
  BY <1>1, IdleStep DEF OnceInv
<1> SUFFICES ASSUME NEW r \in Roles, NEW o \in Ords
             PROVE  Aged(cr'.mem[r][o], guest'[r][o], pod'[r][o])
  BY <1>1, <1>2 DEF OnceInv
<1>3. CASE (FirstPass \/ Begin) /\ Begun
  <2>1. stat.mem[r][o] = cr.mem[r][o]
    BY <1>3 DEF OnceInv, IdleIsStored, FirstPass, Begin, BeginPass, BeginPassNoCluster,
                BeginPassNoSset, BeginPassNoService
  <2> QED  BY <1>1, <1>3, <2>1, AgedOnceBegun DEF Begun
<1>4. CASE Refreshed
  BY <1>1, <1>4, AgedOnceRefreshed DEF Refreshed
<1>5. CASE Handled
  BY <1>1, <1>5, AgedOnceHandled DEF Handled
<1>6. CASE Stored
  BY <1>1, <1>6, AgedOnceStored DEF Stored
<1>7. CASE Outside
  BY <1>1, <1>7, AgedOutside DEF Outside
<1>8. CASE UNCHANGED vars
  BY <1>1, <1>8 DEF vars
<1> QED  BY <1>1, <1>3, <1>4, <1>5, <1>6, <1>7, <1>8 DEF Kinds

\* While no pass dies before its status write, the configure script is started at
\* most once in a container: whoever is set up again after an error has a later one.
THEOREM ScriptsStartOnce ==
  Spec /\ KeepsCopy /\ [][~PassDies]_vars => ConfigureOncePerContainer
<1>1. OnceInv /\ [Next]_vars =>
        [\A r \in Roles, o \in Ords :
           StartsScript(r, o) => guest[r][o].file = "none"
                                 \/ guest[r][o].fcid # cr.mem[r][o].cing]_todo
  <2> SUFFICES ASSUME OnceInv, NEW r \in Roles, NEW o \in Ords, StartsScript(r, o)
               PROVE  guest[r][o].file = "none" \/ guest[r][o].fcid # cr.mem[r][o].cing
    OBVIOUS
  <2>1. cr.mem[r][o].state = "creating" /\ ~Settles(cr.mem[r][o], guest[r][o])
    BY DEF StartsScript, Uploads, OnceInv, DiskInv, ListInv, SnapIsCurrent
  <2> QED  BY <2>1 DEF Settles, OnceInv, Aged
<1> QED  BY <1>1, OnceInit, OnceStep, PTL DEF Spec, KeepsCopy, ConfigureOncePerContainer

=============================================================================
