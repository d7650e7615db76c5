----------------------------- MODULE RestingProofs -----------------------------
(***************************************************************************)
(* What ClusterReconciler.tla makes of the members of the roles with a     *)
(* setup package, for any roles, counts, moves and faults: that they take  *)
(* part in the tracking of generations and are set up again when they      *)
(* must, and what their guests hold once the cluster is at rest.           *)
(*                                                                         *)
(* Every result leaves out steps in which the code is known to lose track. *)
(* As in PassProofs.tla they are actions that no step takes, and the       *)
(* README says what goes wrong with each.                                  *)
(***************************************************************************)
EXTENDS PassProofs

\* The roles whose setup script is told of new members, and of those that leave too.
Listening == {r \in Scripted : "addnodes" \in EventList[r]}
Attentive == {r \in Packaged : EventList[r] = Events}

LEMMA RoleKinds ==
  /\ Packaged \subseteq Roles /\ Persistent \subseteq Roles
  /\ Scripted \subseteq Packaged
  /\ Listening \subseteq Scripted /\ Attentive \subseteq Listening
BY RoleKindsAssumption DEF Scripted, Listening, Attentive, Events

\* What the handlers do to a member whose role has a setup script that is run, and to
\* any member whose role has a setup package.
ScriptHandles(m, n, g, h, p, gen, push) ==
  \/ Waits(m, n, g, h, push)
  \/ push /\ Launches(m, n, g, h, p)
  \/ RunsScript(m, n, g, h, p, gen)
  \/ Readies(m, n, g, h, p, TRUE)
  \/ Breaks(m, n, g, h, gen)
  \/ push /\ Leaves(m, n, g, h)

PackageHandles(m, n, g, h, p, gen, push) ==
  ScriptHandles(m, n, g, h, p, gen, push) \/ HandsOut(m, n, g, h, p, gen)

LEMMA PackagedHandles ==
  ASSUME NEW m, NEW n, NEW g, NEW h, NEW r \in Packaged, NEW p, NEW gen, NEW push,
         Handles(m, n, g, h, r, p, gen, push)
  PROVE  /\ PackageHandles(m, n, g, h, p, gen, push)
         /\ r \in Scripted => ScriptHandles(m, n, g, h, p, gen, push)
<1>1. (r \in Packaged) = TRUE
  OBVIOUS
<1> QED  BY <1>1 DEF Handles, PackageHandles, ScriptHandles

LEMMA HandledPackaged ==
  ASSUME Handled, NEW r \in Packaged, NEW o \in Ords
  PROVE  /\ PackageHandles(cr.mem[r][o], cr'.mem[r][o], guest[r][o], guest'[r][o], pod[r][o],
                           cr.gen, phase = "members")
         /\ r \in Scripted =>
              ScriptHandles(cr.mem[r][o], cr'.mem[r][o], guest[r][o], guest'[r][o], pod[r][o],
                            cr.gen, phase = "members")
         /\ Fed(cr.mem[r][o], cr'.mem[r][o], guest[r][o], guest'[r][o], Listed(cr, want))
         /\ faults' = faults =>
              Blames(cr.mem[r][o], cr'.mem[r][o], guest[r][o], pod[r][o])
         /\ pod' = pod
<1>1. r \in Roles
  BY RoleKinds
<1>2. Handles(cr.mem[r][o], cr'.mem[r][o], guest[r][o], guest'[r][o], r, pod[r][o], cr.gen,
              phase = "members")
  BY <1>1 DEF Handled
<1> QED  BY <1>1, <1>2, PackagedHandles DEF Handled

-----------------------------------------------------------------------------
(* Ready members take part in the tracking of generations. *)

\* A pass that hands out no configmeta takes up a member on a volume whose setup
\* failed: the error is forgotten and the script is not run again.
BlindRetry ==
  /\ phase = "blocked"
  /\ \E r \in Scripted \cap Persistent, o \in Ords : cr.mem[r][o].err /\ ~cr'.mem[r][o].err

\* A status that knows a connection hash has started counting generations.
Counting(st) == st.hash # 0 => st.gen # 0

\* Without persistent storage a configure.status file goes with its container.
Fleeting(m, g, p) ==
  /\ g.file # "none" => p.phase = "up" /\ g.fcid = p.cid
  /\ m.state = "createPending" => g.file = "none"
  /\ m.state = "creating" /\ g.file # "none" => ~m.err /\ m.cfg # 0 /\ g.fcid = m.cing
  /\ m.state \in {"ready", "configError"} /\ g.file # "none" => g.fcid = m.conf

\* Who is ready has been given configmeta, and so has who has a configure.status file.
Given(m, g, p, persistent) ==
  /\ m.state = "ready" => m.cfg # 0
  /\ m.state \in {"createPending", "creating", "configError"} /\ g.file # "none" => m.cfg # 0
  /\ ~persistent => Fleeting(m, g, p)

\* What holds of the members of the roles with a setup package in any case ...
GivenInv ==
  /\ DiskInv
  /\ IdleIsStored
  /\ conns # 0 /\ Counting(stat) /\ Counting(cr)
  /\ phase \in {"update", "members", "blocked"} => cr.hash # 0
  /\ \A r \in Packaged, o \in Ords :
       /\ stat.mem[r][o].state = "ready" => stat.mem[r][o].cfg # 0
       /\ Given(cr.mem[r][o], guest[r][o], pod[r][o], r \in Persistent)

Tracked(m) == m.state = "ready" => m.cfg # 0 /\ m.setup # 0

\* A configure.status file is believed only if it is of this container or the setup has
\* once gone through.
Trusted(m, g) ==
  /\ m.state = "ready" => m.cfg # 0 /\ m.setup # 0 /\ ~m.err
  /\ m.state = "configError" => m.err
  /\ m.state = "createPending" /\ ~m.err /\ g.file # "none" => m.cfg # 0 /\ m.setup # 0
  /\ m.state = "creating" /\ ~m.err /\ g.file # "none" =>
       m.cfg # 0 /\ (g.fcid # m.cing => m.setup # 0)

InTrack(m, g, p, persistent) == Trusted(m, g) /\ (~persistent => Fleeting(m, g, p))

\* ... and while nobody takes up a failed setup blindly.
TrackInv ==
  /\ GivenInv
  /\ \A r \in Scripted, o \in Ords :
       Tracked(stat.mem[r][o]) /\ Trusted(cr.mem[r][o], guest[r][o])

LEMMA GivenOnceBegun ==
  ASSUME NEW m, NEW n, NEW g, NEW h, NEW p, NEW q, NEW persistent \in BOOLEAN,
         Given(m, g, p, persistent), Housed(m, g), Begins(m, n, p, persistent),
         Swept(g, h, p, q)
  PROVE  Given(n, h, q, persistent)
<1>1. NewMember.state = "createPending" /\ BlankGuest.file = "none"
  BY DEF NewMember, NoMember, BlankGuest
<1>2. ~persistent => Fleeting(n, g, p)
  BY <1>1 DEF Given, Fleeting, Begins, Keeps, Housed, Unstarted, ContainerID
<1>3. CASE persistent
  BY <1>1, <1>3 DEF Given, Begins, Housed, Unstarted, Swept
<1>4. CASE ~persistent
  BY <1>1, <1>2, <1>4 DEF Given, Begins, Fleeting, Swept, ContainerID
<1> QED  BY <1>3, <1>4

LEMMA GivenOnceRefreshed ==
  ASSUME NEW m, NEW n, NEW g, NEW h, NEW p, NEW gen, NEW persistent,
         Given(m, g, p, persistent), Refreshes(m, n, g, h, gen), m.cfg # 0 => gen # 0
  PROVE  Given(n, h, p, persistent)
BY DEF Given, Fleeting, Refreshes, Keeps, SameFile

LEMMA GivenOnceStored ==
  ASSUME NEW m, NEW n, NEW g, NEW p, NEW persistent,
         Given(m, g, p, persistent), Stores(m, n)
  PROVE  Given(n, g, p, persistent)
BY DEF Given, Fleeting, Stores, NoMember

LEMMA GivenOutside ==
  ASSUME NEW m, NEW g, NEW h, NEW p, NEW q, NEW persistent \in BOOLEAN,
         Given(m, g, p, persistent), Happens(g, h, p, q, persistent)
  PROVE  Given(m, h, q, persistent)
BY DEF Given, Fleeting, Happens, BlankGuest

LEMMA TrackedOnceBegun ==
  ASSUME NEW m, NEW n, NEW g, NEW h, NEW p, NEW q, NEW persistent \in BOOLEAN,
         InTrack(m, g, p, persistent), Housed(m, g), Begins(m, n, p, persistent),
         Swept(g, h, p, q)
  PROVE  Trusted(n, h)
<1>1. /\ NewMember.state = "createPending" /\ BlankGuest.file = "none"
      /\ ~NewMember.err
  BY DEF NewMember, NoMember, BlankGuest
<1>2. Trusted(n, g)
  BY <1>1 DEF InTrack, Trusted, Fleeting, Begins, Keeps, Housed, Unstarted, ContainerID
<1> QED  BY <1>1, <1>2 DEF Swept, Trusted

LEMMA TrackedOnceRefreshed ==
  ASSUME NEW m, NEW n, NEW g, NEW h, NEW gen,
         Trusted(m, g), Refreshes(m, n, g, h, gen), m.cfg # 0 => gen # 0
  PROVE  Trusted(n, h)
BY DEF Trusted, Refreshes, Keeps, SameFile

LEMMA TrustedOnceHandled ==
  ASSUME NEW m, NEW n, NEW g, NEW h, NEW p, NEW gen, NEW push \in BOOLEAN,
         Trusted(m, g), ScriptHandles(m, n, g, h, p, gen, push), gen # 0,
         Forgets(m, n) /\ ~push => g.file = "none"
  PROVE  Trusted(n, h)
<1>1. BlankGuest.file = "none"
  BY DEF BlankGuest
<1>2. CASE Waits(m, n, g, h, push)
  BY <1>2 DEF Trusted, Waits, Keeps, Forgets
<1>3. CASE Launches(m, n, g, h, p)
  BY <1>3 DEF Trusted, Launches
<1>4. CASE RunsScript(m, n, g, h, p, gen)
  BY <1>4 DEF Trusted, RunsScript, Keeps
<1>5. CASE Readies(m, n, g, h, p, TRUE)
  BY <1>5 DEF Trusted, Readies
<1>6. CASE Breaks(m, n, g, h, gen)
  BY <1>6 DEF Trusted, Breaks, SameFile
<1>7. CASE Leaves(m, n, g, h)
  BY <1>1, <1>7 DEF Trusted, Leaves
<1> QED  BY <1>2, <1>3, <1>4, <1>5, <1>6, <1>7 DEF ScriptHandles

LEMMA FleetingOnceHandled ==
  ASSUME NEW m, NEW n, NEW g, NEW h, NEW p, NEW gen, NEW push,
         Fleeting(m, g, p), PackageHandles(m, n, g, h, p, gen, push), gen # 0
  PROVE  Fleeting(n, h, p)
<1>1. BlankGuest.file = "none"
  BY DEF BlankGuest
<1>2. CASE Waits(m, n, g, h, push)
  BY <1>2 DEF Fleeting, Waits, Keeps, Forgets
<1>3. CASE Launches(m, n, g, h, p)
  BY <1>3 DEF Fleeting, Launches
<1>4. CASE RunsScript(m, n, g, h, p, gen)
  BY <1>4 DEF Fleeting, RunsScript, Keeps, Reaches
<1>5. CASE Readies(m, n, g, h, p, TRUE)
  BY <1>5 DEF Fleeting, Readies
<1>6. CASE Breaks(m, n, g, h, gen)
  BY <1>6 DEF Fleeting, Breaks, SameFile
<1>7. CASE Leaves(m, n, g, h)
  BY <1>1, <1>7 DEF Fleeting, Leaves
<1>8. CASE HandsOut(m, n, g, h, p, gen)
  BY <1>8 DEF Fleeting, HandsOut, Reaches, SameFile
<1> QED  BY <1>2, <1>3, <1>4, <1>5, <1>6, <1>7, <1>8 DEF PackageHandles, ScriptHandles

LEMMA GivenOnceHandled ==
  ASSUME NEW m, NEW n, NEW g, NEW h, NEW p, NEW gen, NEW persistent, NEW push,
         Given(m, g, p, persistent), PackageHandles(m, n, g, h, p, gen, push), gen # 0
  PROVE  Given(n, h, p, persistent)
<1>1. ~persistent => Fleeting(n, h, p)
  BY FleetingOnceHandled DEF Given
<1>2. BlankGuest.file = "none"
  BY DEF BlankGuest
<1>3. n.cfg = 0 =>
        /\ n.state # "ready"
        /\ n.state \in {"createPending", "creating", "configError"} => h.file = "none"
  BY <1>2 DEF Given, PackageHandles, ScriptHandles, Waits, Launches, RunsScript, HandsOut,
                Readies, Breaks, Leaves, SameFile
<1> QED  BY <1>1, <1>3 DEF Given

LEMMA TrackedOnceStored ==
  ASSUME NEW m, NEW n, NEW g, Trusted(m, g), Stores(m, n)
  PROVE  Trusted(n, g)
BY DEF Trusted, Stores, NoMember

LEMMA TrackedOutside ==
  ASSUME NEW m, NEW g, NEW h, NEW p, NEW q, NEW persistent \in BOOLEAN,
         Trusted(m, g), Happens(g, h, p, q, persistent)
  PROVE  Trusted(m, h)
BY DEF Trusted, Happens, BlankGuest

LEMMA PassBegins ==
  ASSUME FirstPass \/ Begin
  PROVE  phase = "idle" /\ phase' # "idle" /\ want' = spec /\ spec' = spec
BY DEF FirstPass, Begin, BeginPass, BeginPassNoCluster, BeginPassNoSset, BeginPassNoService,
       StartPass

\* The first generation comes with the first connection hash.
LEMMA CountingBegins ==
  ASSUME Inv, conns # 0, Counting(stat), FirstPass \/ Begin
  PROVE  Counting(cr') /\ (phase' \in {"update", "members", "blocked"} => cr'.hash # 0)
<1>1. /\ stat.gen \in Nat /\ stat.hash \in Nat
      /\ \A R : Synced(R) \in Status /\ Synced(R).hash = stat.hash /\ Synced(R).gen = stat.gen
  <2>1. ASSUME NEW R
        PROVE  Synced(R) \in Status /\ Synced(R).hash = stat.hash /\ Synced(R).gen = stat.gen
    <3>1. Synced(R) \in Status
      BY SyncedSafe
    <3> QED  BY <3>1 DEF Synced, Inv, TypeOK, Status
  <2>2. stat.gen \in Nat /\ stat.hash \in Nat
    BY DEF Inv, TypeOK, Status
  <2> QED  BY <2>1, <2>2
<1>2. CASE FirstPass
  BY <1>2 DEF FirstPass, Counting, Inv, TypeOK, Status
<1>3. CASE BeginPass \/ BeginPassNoService
  <2>1. cr'.hash = conns /\ cr'.gen = NextGen
    BY <1>1, <1>3 DEF BeginPass, BeginPassNoService, Status
  <2>2. NextGen # 0
    BY <1>1 DEF NextGen, Counting
  <2> QED  BY <2>1, <2>2 DEF Counting
<1>4. CASE BeginPassNoCluster \/ BeginPassNoSset
  <2>1. (\E R : cr' = Synced(R)) /\ phase' = "notify"
    BY <1>4 DEF BeginPassNoCluster, BeginPassNoSset
  <2> QED  BY <1>1, <2>1 DEF Counting
<1> QED  BY <1>2, <1>3, <1>4 DEF Begin

LEMMA GivenInit == Init => GivenInv
<1> SUFFICES ASSUME Init PROVE GivenInv
  OBVIOUS
<1>1. \A r \in Packaged, o \in Ords :
        stat.mem[r][o] = NoMember /\ guest[r][o] = BlankGuest
  BY RoleKinds DEF Init
<1>2. /\ NoMember.state # "ready"
      /\ \A p, persistent : Given(NoMember, BlankGuest, p, persistent)
  BY DEF Given, Fleeting, NoMember, BlankGuest
<1>3. cr = stat /\ stat.hash = 0 /\ conns # 0 /\ phase = "idle"
  BY DEF Init
<1> QED  BY <1>1, <1>2, <1>3, DiskInit DEF GivenInv, IdleIsStored, Counting

LEMMA GivenStep ==
  GivenInv /\ [Next]_vars /\ [~BeginPassOverwritten]_vars /\ [~PassDies]_vars => GivenInv'
<1> SUFFICES ASSUME GivenInv, [Next]_vars, [~BeginPassOverwritten]_vars, [~PassDies]_vars
             PROVE  GivenInv'
  OBVIOUS
<1>1. DiskInv /\ DiskInv' /\ Kinds /\ Inv
  BY DiskStep DEF GivenInv, DiskInv, ListInv
<1>2. IdleIsStored'
  BY <1>1, IdleStep DEF GivenInv
<1>3. conns' # 0
  BY <1>1, ConnectionsStay DEF GivenInv, ChangeConnections, Inv, TypeOK
<1> DEFINE persistent(r) == r \in Persistent
<1>4. \A r \in Packaged, o \in Ords :
        /\ r \in Roles /\ persistent(r) \in BOOLEAN
        /\ stat.mem[r][o].state = "ready" => stat.mem[r][o].cfg # 0
        /\ cr.mem[r][o].state = "ready" => cr.mem[r][o].cfg # 0
        /\ Given(cr.mem[r][o], guest[r][o], pod[r][o], persistent(r))
        /\ Housed(cr.mem[r][o], guest[r][o])
  BY RoleKinds DEF GivenInv, DiskInv, Given
<1>5. \A r \in Roles, o \in Ords : cr.mem[r][o].cfg # 0 => cr.gen # 0
  BY <1>1 DEF Inv, TypeOK, Status, Sound, ListOrdered, Ordered, Member
<1> SUFFICES /\ Counting(stat') /\ Counting(cr')
             /\ phase' \in {"update", "members", "blocked"} => cr'.hash # 0
             /\ \A r \in Packaged, o \in Ords :
                  /\ stat'.mem[r][o].state = "ready" => stat'.mem[r][o].cfg # 0
                  /\ Given(cr'.mem[r][o], guest'[r][o], pod'[r][o], persistent(r))
  BY <1>1, <1>2, <1>3 DEF GivenInv, Counting
<1>6. CASE (FirstPass \/ Begin) /\ Begun
  <2>1. stat' = stat /\ cr = stat
    BY <1>6, PassBegins DEF Begun, GivenInv, IdleIsStored
  <2>2. \A r \in Packaged, o \in Ords :
          /\ Begins(cr.mem[r][o], cr'.mem[r][o], pod[r][o], persistent(r))
          /\ Swept(guest[r][o], guest'[r][o], pod[r][o], pod'[r][o])
    BY <1>4, <1>6, <2>1 DEF Begun
  <2> HIDE DEF persistent
  <2>3. \A r \in Packaged, o \in Ords :
          Given(cr'.mem[r][o], guest'[r][o], pod'[r][o], persistent(r))
    BY <1>4, <2>2, GivenOnceBegun
  <2> QED  BY <1>1, <1>4, <1>6, <2>1, <2>3, CountingBegins DEF GivenInv
<1>7. CASE Refreshing /\ Refreshed
  <2>1. phase' \in {"update", "members", "blocked"} => phase = "update"
    BY <1>7 DEF Refreshing, UpdateReadyMembers, StartNotify, PanicInRole, Deliver
  <2>2. \A r \in Packaged, o \in Ords :
          Given(cr'.mem[r][o], guest'[r][o], pod'[r][o], persistent(r))
    BY <1>4, <1>5, <1>7, GivenOnceRefreshed DEF Refreshed
  <2> QED  BY <1>4, <1>7, <2>1, <2>2 DEF GivenInv, Refreshed, SameHeader, Counting
<1>8. CASE (\E r \in Roles : HandleRole(r)) /\ Handled
  <2>1. cr.gen # 0 /\ cr.hash # 0 /\ phase \in {"members", "blocked"}
    BY <1>8 DEF HandleRole, GivenInv, Counting
  <2>2. \A r \in Packaged, o \in Ords :
          Given(cr'.mem[r][o], guest'[r][o], pod'[r][o], persistent(r))
    <3>1. \A r \in Packaged, o \in Ords :
            /\ PackageHandles(cr.mem[r][o], cr'.mem[r][o], guest[r][o], guest'[r][o],
                              pod[r][o], cr.gen, phase = "members")
            /\ pod'[r][o] = pod[r][o]
      BY <1>8, HandledPackaged
    <3>2. ASSUME NEW r \in Packaged, NEW o \in Ords
          PROVE  Given(cr'.mem[r][o], guest'[r][o], pod[r][o], persistent(r))
      <4> DEFINE m == cr.mem[r][o]
                 n == cr'.mem[r][o]
                 g == guest[r][o]
                 h == guest'[r][o]
                 p == pod[r][o]
                 gen == cr.gen
                 push == phase = "members"
                 pers == persistent(r)
      <4>1. /\ PackageHandles(m, n, g, h, p, gen, push) /\ gen # 0
            /\ Given(m, g, p, pers)
        BY <1>4, <2>1, <3>1
      <4> HIDE DEF m, n, g, h, p, gen, push, pers
      <4>2. Given(n, h, p, pers)
        BY <4>1, GivenOnceHandled
      <4> QED  BY <4>2 DEF n, h, p, pers
    <3> QED  BY <3>1, <3>2
  <2> QED  BY <1>4, <1>8, <2>1, <2>2 DEF GivenInv, Handled, SameHeader, Counting
<1>9. CASE Stored
  <2>1. \A r \in Packaged, o \in Ords :
          Given(cr'.mem[r][o], guest'[r][o], pod'[r][o], persistent(r))
    BY <1>4, <1>9, GivenOnceStored DEF Stored
  <2>2. \A r \in Packaged, o \in Ords :
          stat'.mem[r][o].state = "ready" => stat'.mem[r][o].cfg # 0
    BY <1>9, <2>1 DEF Stored, Given
  <2> QED  BY <1>9, <2>1, <2>2 DEF GivenInv, Stored, SameHeader, Counting
<1>10. CASE Outside
  <2>1. \A r \in Packaged, o \in Ords :
          Happens(guest[r][o], guest'[r][o], pod[r][o], pod'[r][o], persistent(r))
    BY <1>4, <1>10 DEF Outside
  <2>2. \A r \in Packaged, o \in Ords :
          Given(cr.mem[r][o], guest'[r][o], pod'[r][o], persistent(r))
    <3> HIDE DEF persistent
    <3> QED  BY <1>4, <2>1, GivenOutside
  <2> QED  BY <1>4, <1>10, <2>2 DEF GivenInv, Outside
<1>11. CASE UNCHANGED vars
  BY <1>4, <1>11 DEF vars, GivenInv
<1> QED  BY <1>1, <1>6, <1>7, <1>8, <1>9, <1>10, <1>11 DEF Kinds

LEMMA TrackInit == Init => TrackInv
<1> SUFFICES ASSUME Init PROVE TrackInv
  OBVIOUS
<1>1. \A r \in Scripted, o \in Ords :
        stat.mem[r][o] = NoMember /\ guest[r][o] = BlankGuest /\ cr = stat
  BY RoleKinds DEF Init
<1>2. Tracked(NoMember) /\ Trusted(NoMember, BlankGuest)
  BY DEF Tracked, Trusted, NoMember, BlankGuest
<1> QED  BY <1>1, <1>2, GivenInit DEF TrackInv

LEMMA TrackStep ==
  TrackInv /\ [Next]_vars /\ [~BeginPassOverwritten]_vars /\ [~PassDies]_vars
    /\ [~BlindRetry]_vars => TrackInv'
<1> SUFFICES ASSUME TrackInv, [Next]_vars, [~BeginPassOverwritten]_vars, [~PassDies]_vars,
                    [~BlindRetry]_vars
             PROVE  TrackInv'
  OBVIOUS
<1>1. GivenInv /\ GivenInv' /\ DiskInv /\ Kinds /\ Inv
  BY DiskStep, GivenStep DEF TrackInv, GivenInv, DiskInv, ListInv
<1> DEFINE persistent(r) == r \in Persistent
<1>2. \A r \in Scripted, o \in Ords :
        /\ r \in Roles /\ persistent(r) \in BOOLEAN
        /\ Tracked(stat.mem[r][o]) /\ Tracked(cr.mem[r][o])
        /\ Trusted(cr.mem[r][o], guest[r][o])
        /\ InTrack(cr.mem[r][o], guest[r][o], pod[r][o], persistent(r))
        /\ Housed(cr.mem[r][o], guest[r][o])
  BY <1>1, RoleKinds DEF TrackInv, GivenInv, Given, DiskInv, InTrack, Trusted, Tracked
<1>3. \A r \in Roles, o \in Ords : cr.mem[r][o].cfg # 0 => cr.gen # 0
  BY <1>1 DEF Inv, TypeOK, Status, Sound, ListOrdered, Ordered, Member
<1> SUFFICES \A r \in Scripted, o \in Ords :
               Tracked(stat'.mem[r][o]) /\ Trusted(cr'.mem[r][o], guest'[r][o])
  BY <1>1 DEF TrackInv
<1>4. CASE (FirstPass \/ Begin) /\ Begun
  <2>1. stat' = stat /\ cr = stat
    BY <1>1, <1>4, PassBegins DEF Begun, GivenInv, IdleIsStored
  <2>2. \A r \in Scripted, o \in Ords :
          /\ Begins(cr.mem[r][o], cr'.mem[r][o], pod[r][o], persistent(r))
          /\ Swept(guest[r][o], guest'[r][o], pod[r][o], pod'[r][o])
    BY <1>2, <1>4, <2>1 DEF Begun
  <2> HIDE DEF persistent
  <2> QED  BY <1>2, <2>1, <2>2, TrackedOnceBegun
<1>5. CASE Refreshed
  BY <1>2, <1>3, <1>5, TrackedOnceRefreshed DEF Refreshed
<1>6. CASE (\E r \in Roles : HandleRole(r)) /\ Handled
  <2>1. cr.gen # 0 /\ phase \in {"members", "blocked"}
    BY <1>1, <1>6 DEF HandleRole, GivenInv, Counting
  <2> SUFFICES ASSUME NEW r \in Scripted, NEW o \in Ords
               PROVE  Trusted(cr'.mem[r][o], guest'[r][o])
    BY <1>2, <1>6 DEF Handled
  <2> DEFINE m == cr.mem[r][o]
             n == cr'.mem[r][o]
             g == guest[r][o]
             h == guest'[r][o]
             p == pod[r][o]
             gen == cr.gen
             push == phase = "members"
  <2>2. /\ ScriptHandles(m, n, g, h, p, gen, push) /\ gen # 0 /\ push \in BOOLEAN
        /\ Trusted(m, g) /\ (r \notin Persistent => Fleeting(m, g, p))
    BY <1>2, <1>6, <2>1, HandledPackaged, RoleKinds DEF InTrack
  <2>3. Forgets(m, n) /\ ~push => g.file = "none"
    <3>1. CASE ~BlindRetry
      BY <2>1, <2>2, <3>1 DEF BlindRetry, Forgets, Fleeting
    <3>2. CASE UNCHANGED vars
      BY <3>2 DEF vars, Forgets
    <3> QED  BY <3>1, <3>2
  <2> HIDE DEF push, m, n, g, h, p, gen
  <2>4. Trusted(n, h)
    BY <2>2, <2>3, TrustedOnceHandled
  <2> QED  BY <2>4 DEF n, h
<1>7. CASE Stored
  <2>1. \A r \in Scripted, o \in Ords : Trusted(cr'.mem[r][o], guest'[r][o])
    BY <1>2, <1>7, TrackedOnceStored DEF Stored
  <2> QED  BY <1>7, <2>1 DEF Stored, Trusted, Tracked
<1>8. CASE Outside
  <2>1. \A r \in Scripted, o \in Ords :
          Happens(guest[r][o], guest'[r][o], pod[r][o], pod'[r][o], persistent(r))
    BY <1>2, <1>8 DEF Outside
  <2> HIDE DEF persistent
  <2> QED  BY <1>2, <1>8, <2>1, TrackedOutside DEF Outside
<1>9. CASE UNCHANGED vars
  BY <1>2, <1>9 DEF vars
<1> QED  BY <1>1, <1>4, <1>5, <1>6, <1>7, <1>8, <1>9 DEF Kinds

LEMMA RetriedFromScratch ==
  ASSUME TrackInv, [Next]_vars, [~BeginPassOverwritten]_vars, [~PassDies]_vars,
         NEW r \in Scripted, NEW o \in Ords,
         cr.mem[r][o].state = "creating", cr.mem[r][o].setup = 0,
         cr'.mem[r][o].state \in {"ready", "configError"},
         Reaches(pod[r][o], cr.mem[r][o].cing), faults' = faults
  PROVE  guest[r][o].fcid = cr.mem[r][o].cing
<1> DEFINE m == cr.mem[r][o]
           n == cr'.mem[r][o]
           g == guest[r][o]
<1>1. Kinds /\ r \in Roles /\ Trusted(m, g)
  BY DiskStep, RoleKinds DEF TrackInv, GivenInv
<1>2. CASE Handled
  <2>1. /\ ScriptHandles(m, n, g, guest'[r][o], pod[r][o], cr.gen, phase = "members")
        /\ Blames(m, n, g, pod[r][o])
    BY <1>2, HandledPackaged, RoleKinds
  <2>2. ~m.err /\ g.file # "none"
    BY <2>1 DEF ScriptHandles, Waits, Launches, RunsScript, Readies, Breaks, Leaves, Blames
  <2> QED  BY <1>1, <2>2 DEF Trusted
<1>3. ~((FirstPass \/ Begin) /\ Begun)
  <2>1. FirstPass \/ Begin => cr = stat
    BY PassBegins DEF TrackInv, GivenInv, IdleIsStored
  <2> QED  BY <1>1, <2>1 DEF Begun, Begins, NewMember, NoMember
<1>4. ~Refreshed /\ ~Stored /\ ~Outside /\ ~UNCHANGED vars
  BY <1>1 DEF Refreshed, Refreshes, Stored, Stores, NoMember, Outside, vars
<1> QED  BY <1>1, <1>2, <1>3, <1>4 DEF Kinds

\* While no accepted annotation update replaces the copy, no pass dies before its
\* status write and none that hands out no configmeta takes up a failed setup on a
\* volume, a member that has never been through its setup is not judged by a file that
\* an earlier container left on that volume.
THEOREM RetriesStartOver ==
  Spec /\ KeepsCopy /\ [][~PassDies]_vars /\ [][~BlindRetry]_vars => RetryFromScratch
<1>1. TrackInv /\ [Next]_vars /\ [~BeginPassOverwritten]_vars /\ [~PassDies]_vars =>
        [\A r \in Scripted, o \in Ords :
           /\ cr.mem[r][o].state = "creating" /\ cr.mem[r][o].setup = 0
           /\ cr'.mem[r][o].state \in {"ready", "configError"}
           /\ Reaches(pod[r][o], cr.mem[r][o].cing) /\ faults' = faults
           => guest[r][o].fcid = cr.mem[r][o].cing]_cr
  BY RetriedFromScratch
<1> QED  BY <1>1, TrackInit, TrackStep, PTL DEF Spec, KeepsCopy, RetryFromScratch

-----------------------------------------------------------------------------
(* No StatefulSet is left behind. *)

\* The StatefulSet that there is for a role is the one that the status names.
SsetInv ==
  /\ DiskInv
  /\ IdleIsStored
  /\ orphans = {}
  /\ \A r \in Roles : sset[r].live => sset[r].name = cr.name[r] /\ sset[r].name # 0

LEMMA SsetInit == Init => SsetInv
BY DiskInit DEF Init, SsetInv, IdleIsStored

\* Steps of a pass that create and delete no StatefulSet.
LEMMA SsetsStay ==
  ASSUME SsetInv, DiskInv', IdleIsStored', orphans' = orphans,
         \A r \in Roles : /\ sset'[r].live => sset[r].live
                          /\ sset'[r].name = sset[r].name
                          /\ cr'.name[r] = cr.name[r]
  PROVE  SsetInv'
BY DEF SsetInv

LEMMA SsetBegins ==
  ASSUME SsetInv, FirstPass \/ Begin, DiskInv', IdleIsStored'
  PROVE  SsetInv'
<1>1. /\ Inv /\ cr = stat /\ \A r \in Roles : sset[r] \in StatefulSet
  <2>1. phase = "idle"
    BY DEF FirstPass, Begin, BeginPass, BeginPassNoCluster, BeginPassNoSset, BeginPassNoService
  <2> QED  BY <2>1 DEF SsetInv, IdleIsStored, DiskInv, ListInv, Inv, TypeOK
<1>2. CASE FirstPass
  <2>1. cr'.name = stat.name /\ sset' = sset /\ orphans' = orphans
    BY <1>1, <1>2 DEF FirstPass, Inv, TypeOK, Status
  <2> QED  BY <1>1, <2>1, SsetsStay
<1>3. CASE Begin
  <2>1. PICK R : StartPass(R) /\ cr'.name = Synced(R).name
    BY <1>1, <1>3, BegunFrom
  <2>2. \A r \in Roles : cr'.name[r] = IF r \in R THEN RoleName(r) ELSE stat.name[r]
    BY <1>1, <2>1 DEF Synced, Inv, TypeOK, Status
  <2>3. \A r \in Roles : sset[r].live <=> Found(r)
    BY <1>1 DEF SsetInv, Found
  <2>4. \A r \in Roles : Creates(r) => ~sset[r].live
    BY <2>3 DEF Creates
  <2>5. orphans' = {}
    BY <2>1, <2>4 DEF StartPass, Created, SsetInv
  <2>6. ASSUME NEW r \in Roles, sset'[r].live
        PROVE  sset'[r].name = cr'.name[r] /\ sset'[r].name # 0
    <3>1. sset'[r] = IF r \in R THEN RoleSset(r) ELSE sset[r]
      BY <2>1 DEF StartPass
    <3>2. CASE r \notin R
      BY <1>1, <2>2, <2>6, <3>1, <3>2 DEF SsetInv
    <3>3. CASE r \in R /\ Creates(r)
      BY <1>1, <2>2, <3>1, <3>3 DEF RoleSset, RoleName, StatefulSet
    <3>4. CASE r \in R /\ ~Creates(r)
      <4>1. [sset[r] EXCEPT !.live = FALSE].live = FALSE
        BY <1>1 DEF StatefulSet
      <4>2. sset'[r] = sset[r] /\ ~(Retires(r) /\ Found(r))
        BY <2>6, <3>1, <3>4, <4>1 DEF RoleSset
      <4>3. Found(r)
        BY <2>3, <2>6, <4>2
      <4>4. cr'.name[r] = stat.name[r]
        BY <2>2, <3>4, <4>2, <4>3 DEF RoleName
      <4> QED  BY <1>1, <2>6, <4>2, <4>4 DEF SsetInv
    <3> QED  BY <3>2, <3>3, <3>4
  <2> QED  BY <2>5, <2>6 DEF SsetInv
<1> QED  BY <1>2, <1>3

LEMMA SsetStep ==
  SsetInv /\ [Next]_vars /\ [~BeginPassOverwritten]_vars /\ [~PassDies]_vars => SsetInv'
<1> SUFFICES ASSUME SsetInv, [Next]_vars, [~BeginPassOverwritten]_vars, [~PassDies]_vars
             PROVE  SsetInv'
  OBVIOUS
<1>1. DiskInv /\ DiskInv' /\ Kinds /\ Inv /\ \A r \in Roles : sset[r] \in StatefulSet
  BY DiskStep DEF SsetInv, DiskInv, ListInv, Inv, TypeOK
<1>2. IdleIsStored'
  BY <1>1, IdleStep DEF SsetInv
<1>3. CASE FirstPass \/ Begin
  BY <1>1, <1>2, <1>3, SsetBegins
<1>4. CASE Refreshed /\ sset' = sset /\ orphans' = orphans
  BY <1>1, <1>2, <1>4, SsetsStay DEF Refreshed, SameHeader
<1>5. UpdateReadyMembers \/ StartNotify => sset' = sset /\ orphans' = orphans
  BY DEF UpdateReadyMembers, StartNotify
<1>6. \A r \in Roles :
        PanicInRole(r) \/ (\E o \in Ords : Deliver(r, o)) => sset' = sset /\ orphans' = orphans
  BY DEF PanicInRole, Deliver
<1>7. ASSUME NEW r \in Roles, HandleRole(r), Handled PROVE SsetInv'
  <2>1. sset' = Recounted(r) /\ orphans' = orphans /\ cr'.name = cr.name
    BY <1>7 DEF HandleRole, Handled, SameHeader
  <2>2. \A q \in Roles : sset'[q].live = sset[q].live /\ sset'[q].name = sset[q].name
    <3>1. \A n : /\ [sset[r] EXCEPT !.replicas = n].live = sset[r].live
                 /\ [sset[r] EXCEPT !.replicas = n].name = sset[r].name
      BY <1>1 DEF StatefulSet
    <3>2. sset' = sset
          \/ sset' = [sset EXCEPT ![r].replicas = Cardinality(In(r, Requested))]
      BY <2>1 DEF Recounted
    <3> QED  BY <1>1, <3>1, <3>2 DEF Inv, TypeOK
  <2> QED  BY <1>1, <1>2, <2>1, <2>2, SsetsStay
<1>8. CASE WriteStatus /\ Stored
  <2>1. sset' = sset /\ orphans' = orphans /\ cr'.name = cr.name
    BY <1>8 DEF WriteStatus, Stored, SameHeader
  <2> QED  BY <1>1, <1>2, <2>1, SsetsStay
<1>9. CASE Environment \/ UNCHANGED vars
  <2>1. cr' = cr /\ orphans' = orphans
    BY <1>9 DEF Environment, ChangeSpec, ChangeConnections, PodStart, PodStop, PodRestart,
                SsetDelete, ScriptEnds, EnvStep, vars
  <2>2. sset' = sset \/ \E r \in Roles : sset' = [sset EXCEPT ![r].live = FALSE]
    BY <1>9 DEF Environment, ChangeSpec, ChangeConnections, PodStart, PodStop, PodRestart,
                SsetDelete, ScriptEnds, vars
  <2>3. \A r \in Roles : (sset'[r].live => sset[r].live) /\ sset'[r].name = sset[r].name
    <3>1. \A r \in Roles : /\ [sset[r] EXCEPT !.live = FALSE].live = FALSE
                           /\ [sset[r] EXCEPT !.live = FALSE].name = sset[r].name
      BY <1>1 DEF StatefulSet
    <3>2. sset \in [Roles -> StatefulSet]
      BY <1>1 DEF Inv, TypeOK
    <3>3. ASSUME NEW q \in Roles, sset' = [sset EXCEPT ![q].live = FALSE], NEW r \in Roles
          PROVE  sset'[r] = sset[r] \/ sset'[r] = [sset[r] EXCEPT !.live = FALSE]
      BY <3>2, <3>3
    <3> QED  BY <2>2, <3>1, <3>3
  <2> QED  BY <1>1, <1>2, <2>1, <2>3, SsetsStay
<1>10. PassDies => UNCHANGED vars
  OBVIOUS
<1> QED  BY <1>1, <1>3, <1>4, <1>5, <1>6, <1>7, <1>8, <1>9, <1>10 DEF Kinds, Refreshing

\* A cluster at rest has the StatefulSets that its status names and no others, while no
\* pass loses the name that was generated for one it has created: by dying before its
\* status write, or to the reply to its annotation update, which brings back the status
\* of before the pass.
THEOREM SsetsAreNamed == Spec /\ KeepsCopy /\ [][~PassDies]_vars => []RestingSsets
<1>1. SsetInv => RestingSsets
  BY DEF SsetInv, IdleIsStored, RestingSsets, AtRest
<1> QED  BY <1>1, SsetInit, SsetStep, PTL DEF Spec, KeepsCopy

-----------------------------------------------------------------------------
(* Configmeta at rest. *)

\* The counts that the reconciler goes by: those of its copy while a pass is under way.
Wanted == IF phase = "idle" THEN spec ELSE want

\* The members whose guests hold what the status says was uploaded to them.
InForce(m, p, persistent) ==
  \/ persistent /\ m.state \in Requested
  \/ m.state \in {"ready", "configError"} /\ Reaches(p, m.conf)
  \/ m.state = "creating" /\ Reaches(p, m.cing)

\* A role that was taken out of the spec while the status has members of it.
Pending == \E r \in Roles : Wanted[r] = -1 /\ With(cr.mem[r], Requested) # {}

\* A pass that goes by a spec without a role has no members of it in service once
\* the role may be back in the spec, or the status has none.
GoneForGood ==
  phase # "idle" =>
    \A r \in Roles :
      want[r] = -1 /\ (spec[r] # -1 \/ Present(stat.mem[r]) = {}) =>
        With(cr.mem[r], Requested) = {}

\* Without persistent storage a member that starts over has been given nothing.
Blank(m) == m.state = "createPending" => m.cfg = 0 /\ m.setup = 0

\* The configmeta of the current generation is that of the current members.
Current(m, g, p, persistent, gen, listed) ==
  m.cfg # 0 /\ m.cfg = gen /\ InForce(m, p, persistent) => g.meta = listed

AllCurrent(st, listed) ==
  \A r \in Packaged, o \in Ords :
    Current(st.mem[r][o], guest[r][o], pod[r][o], r \in Persistent, st.gen, listed)

\* Members that are yet to come or to go.
Moving == \E r \in Roles : With(cr.mem[r], {"createPending", "deletePending", "deleting"}) # {}

\* With nobody coming or going any generation's configmeta is that of the current members.
Upheld(m, g, p, persistent, listed) ==
  m.state \in {"ready", "creating"} /\ m.cfg # 0 /\ InForce(m, p, persistent) => g.meta = listed

AllUpheld(st, listed) ==
  \A r \in Packaged, o \in Ords :
    Upheld(st.mem[r][o], guest[r][o], pod[r][o], r \in Persistent, listed)

\* The configmeta of a member is that of this generation, if it has any.
UpToDate(m, gen) == GenOk(m.state, m, gen)

MetaInv ==
  /\ GivenInv
  /\ \A r \in Roles, o \in Ords : Aged(cr.mem[r][o], guest[r][o], pod[r][o])
  /\ GoneForGood
  /\ \A r \in Roles \ Persistent, o \in Ords : Blank(cr.mem[r][o])
  /\ phase = "members" => \A r \in Packaged, o \in Ords : UpToDate(cr.mem[r][o], cr.gen)
  /\ ~Pending => AllCurrent(cr, Listed(cr, Wanted))
  /\ ~Pending /\ ~Moving => AllUpheld(cr, Listed(cr, Wanted))

\* Two versions of the status and of the counts that list the same members.
SameInService(a, b) ==
  \A r \in Roles :
    /\ With(a.mem[r], Requested) = With(b.mem[r], Requested)
    /\ a.name[r] = b.name[r] \/ With(a.mem[r], Requested) = {}

LEMMA SameListed ==
  ASSUME NEW a, NEW b, NEW v, NEW w, SameInService(a, b),
         \A r \in Roles : (v[r] >= 0 <=> w[r] >= 0) \/ With(a.mem[r], Requested) = {}
  PROVE  Listed(a, v) = Listed(b, w)
<1>1. ASSUME NEW x
      PROVE  x \in Listed(a, v) <=>
               \E r \in Roles : \E o \in With(a.mem[r], Requested) :
                 v[r] >= 0 /\ x = <<r, a.name[r], o>>
  BY DEF Listed
<1>2. ASSUME NEW x
      PROVE  x \in Listed(b, w) <=>
               \E r \in Roles : \E o \in With(b.mem[r], Requested) :
                 w[r] >= 0 /\ x = <<r, b.name[r], o>>
  BY DEF Listed
<1>3. ASSUME NEW x PROVE x \in Listed(a, v) <=> x \in Listed(b, w)
  BY <1>1, <1>2 DEF SameInService
<1> QED  BY <1>3

\* The start of a pass renames nobody who is there.
LEMMA NamesStay ==
  ASSUME DiskInv, FirstPass \/ Begin, Begun, NEW q \in Roles, NEW x \in Ords,
         stat.mem[q][x].state # "none"
  PROVE  cr'.name[q] = stat.name[q]
<1>1. Inv
  BY DEF DiskInv, ListInv
<1>2. CASE FirstPass
  BY <1>1, <1>2 DEF FirstPass, Inv, TypeOK, Status
<1>3. CASE Begin
  <2>1. PICK R : cr'.mem = Synced(R).mem /\ cr'.name = Synced(R).name
    BY <1>1, <1>3, BegunFrom
  <2>2. cr'.name[q] = IF q \in R THEN RoleName(q) ELSE stat.name[q]
    <3>1. Synced(R).name[q] = IF q \in R THEN RoleName(q) ELSE stat.name[q]
      BY <1>1 DEF Synced, Inv, TypeOK, Status
    <3> QED  BY <2>1, <3>1
  <2>3. Checked(q)[x].state # "none"
    BY <1>1, CheckedAlike DEF Alike, Present
  <2>4. Pop(Checked(q)) # 0
    <3>1. Present(Checked(q)) # {}
      BY <2>3 DEF Present
    <3> QED  BY <3>1, ListSets, FS_EmptySet DEF Pop
  <2> QED  BY <2>2, <2>4 DEF RoleName, Creates, Retires
<1> QED  BY <1>2, <1>3

LEMMA SameNames ==
  ASSUME DiskInv, FirstPass \/ Begin, Begun, NEW r \in Roles,
         With(cr'.mem[r], Requested) = With(stat.mem[r], Requested)
  PROVE  cr'.name[r] = stat.name[r] \/ With(cr'.mem[r], Requested) = {}
BY NamesStay DEF With, Requested

LEMMA BeginListed ==
  ASSUME DiskInv, FirstPass \/ Begin, ~BeginPassNoSset, Begun, cr'.gen = stat.gen
  PROVE  SameInService(cr', stat)
<1> SUFFICES ASSUME NEW r \in Roles
             PROVE  With(cr'.mem[r], Requested) = With(stat.mem[r], Requested)
  BY SameNames DEF SameInService
<1>1. stat.gen \in Nat /\ ~(cr'.gen > stat.gen)
  BY DEF DiskInv, ListInv, Inv, TypeOK, Status
<1>2. ASSUME NEW o \in Ords
      PROVE  cr'.mem[r][o].state \in Requested <=> stat.mem[r][o].state \in Requested
  <2>1. /\ stat.mem[r][o].state = "none" => cr'.mem[r][o].state = "none"
        /\ stat.mem[r][o].state \in Requested => cr'.mem[r][o].state \in Requested
    BY <1>1, GenBegins
  <2>2. cr'.mem[r][o].state \in Requested /\ stat.mem[r][o].state # "none" =>
          stat.mem[r][o].state \in Requested
    BY DEF Begun, Begins, Requested
  <2> QED  BY <2>1, <2>2 DEF Requested
<1> QED  BY <1>2 DEF With

\* A pass that changes who is in service has members that come or go.
LEMMA BeginMoving ==
  ASSUME DiskInv, FirstPass \/ Begin, Begun, cr = stat, ~Moving'
  PROVE  SameInService(cr', stat) /\ ~Moving
<1>1. \A r \in Roles, o \in Ords :
        /\ Begins(stat.mem[r][o], cr'.mem[r][o], pod[r][o], r \in Persistent)
        /\ cr'.mem[r][o].state \notin {"createPending", "deletePending", "deleting"}
  BY DEF Begun, Moving, With
<1>2. \A r \in Roles, o \in Ords : cr'.mem[r][o] = stat.mem[r][o]
  BY <1>1 DEF Begins, NewMember, NoMember
<1>3. ~Moving
  BY <1>1, <1>2 DEF Moving, With
<1>4. \A r \in Roles : With(cr'.mem[r], Requested) = With(stat.mem[r], Requested)
  BY <1>2 DEF With
<1> QED  BY <1>3, <1>4, SameNames DEF SameInService

\* A pass that takes the spec as it is finds every role out of service that has left
\* it, or raises the generation.
LEMMA BeginGone ==
  ASSUME DiskInv, FirstPass \/ Begin, Begun, NEW r \in Roles, spec[r] = -1,
         Present(stat.mem[r]) = {}
  PROVE  With(cr'.mem[r], Requested) = {}
<1> SUFFICES ASSUME NEW o \in Ords PROVE cr'.mem[r][o].state = "none"
  BY DEF With, Requested
<1>1. Inv /\ stat.mem[r][o].state = "none"
  BY DEF DiskInv, ListInv, Present
<1>2. Checked(r)[o].state = "none"
  BY <1>1 DEF Checked, ContainerChecked
<1>3. CASE FirstPass
  BY <1>1, <1>3 DEF FirstPass, Inv, TypeOK, Status
<1>4. CASE Begin
  <2>1. PICK R : cr'.mem = Synced(R).mem
    BY <1>1, <1>4, BegunFrom
  <2>2. cr'.mem[r] = IF r \in R THEN RoleMembers(r) ELSE Checked(r)
    BY <1>1, <2>1 DEF Synced, Inv, TypeOK, Status
  <2>3. Desired(r) = 0 /\ ~Creates(r)
    BY DEF Desired, Creates
  <2>4. Count(Checked(r)) \in Nat /\ ~MustGrow(Checked(r), Desired(r))
    <3>1. Count(Checked(r)) \in Nat
      BY ListSets, FS_CardinalityType DEF Count
    <3> QED  BY <2>3, <3>1 DEF MustGrow
  <2>5. RoleMembers(r) \in {Checked(r), AllStranded(Checked(r)), Shrunk(Checked(r), 0)}
    BY <2>3, <2>4 DEF RoleMembers, Creates, Restores, Resizes, Resized
  <2>6. Checked(r)[o] \in Member
    BY <1>1, CheckedSafe DEF Members
  <2>7. AllStranded(Checked(r))[o].state = "none" /\ Shrunk(Checked(r), 0)[o].state = "none"
    BY <1>2, <2>6 DEF AllStranded, Shrunk, Stranded, Dropped, Member
  <2> QED  BY <1>2, <2>2, <2>5, <2>7
<1> QED  BY <1>3, <1>4

LEMMA PendingBegins ==
  ASSUME DiskInv, cr = stat, phase = "idle", Pending, FirstPass \/ Begin, ~BeginPassNoSset,
         Begun, cr'.gen = stat.gen, want' = spec, phase' # "idle"
  PROVE  Pending'
BY BeginListed DEF Pending, Wanted, SameInService

LEMMA CurrentOnceBegun ==
  ASSUME NEW m, NEW n, NEW g, NEW h, NEW p, NEW q, NEW persistent \in BOOLEAN,
         NEW gen, NEW listed, Current(m, g, p, persistent, gen, listed),
         Begins(m, n, p, persistent),
         h # g \/ q # p => n.state = "none" \/ n = NewMember
  PROVE  Current(n, h, q, persistent, gen, listed)
<1>1. NewMember.cfg = 0
  BY DEF NewMember, NoMember
<1> QED  BY <1>1 DEF Current, InForce, Begins, Keeps, Requested

\* Nobody has been given the configmeta of a generation that has just begun.
LEMMA OutdatedOnceBegun ==
  ASSUME NEW m \in Member, NEW n, NEW h, NEW p, NEW q, NEW persistent \in BOOLEAN,
         NEW gen \in Nat, NEW next \in Nat, NEW listed,
         Ordered(m, gen), next > gen, Begins(m, n, p, persistent)
  PROVE  Current(n, h, q, persistent, next, listed)
<1>1. NewMember.cfg = 0 /\ m.cfg \in Nat /\ m.cfg <= gen /\ m.cfg # next
  BY DEF NewMember, NoMember, Member, Ordered
<1> QED  BY <1>1 DEF Current, InForce, Begins, Keeps, Requested

LEMMA CurrentOnceRefreshed ==
  ASSUME NEW m, NEW n, NEW g, NEW h, NEW p, NEW persistent, NEW gen, NEW listed,
         Current(m, g, p, persistent, gen, listed), Refreshes(m, n, g, h, gen),
         Fed(m, n, g, h, listed)
  PROVE  Current(n, h, p, persistent, gen, listed)
BY DEF Current, InForce, Refreshes, Keeps, Fed, Requested

LEMMA CurrentOnceHandled ==
  ASSUME NEW m, NEW n, NEW g, NEW h, NEW p, NEW persistent \in BOOLEAN, NEW gen, NEW listed,
         NEW push, Current(m, g, p, persistent, gen, listed),
         PackageHandles(m, n, g, h, p, gen, push), Fed(m, n, g, h, listed),
         ~persistent => Blank(m)
  PROVE  Current(n, h, p, persistent, gen, listed)
<1> SUFFICES ASSUME h.meta = g.meta, n.cfg = m.cfg, n.cfg # 0, InForce(n, p, persistent)
             PROVE  InForce(m, p, persistent)
  BY DEF Current, Fed, InForce, Requested
<1>1. CASE Waits(m, n, g, h, push) \/ RunsScript(m, n, g, h, p, gen)
  BY <1>1 DEF Waits, RunsScript, Keeps, InForce
<1>2. CASE Launches(m, n, g, h, p)
  BY <1>2 DEF Launches, InForce, Blank, Requested
<1>3. CASE Readies(m, n, g, h, p, TRUE) \/ Breaks(m, n, g, h, gen)
  BY <1>3 DEF Readies, Breaks, InForce, Requested
<1>4. CASE Leaves(m, n, g, h)
  BY <1>4 DEF Leaves, InForce, Requested
<1>5. CASE HandsOut(m, n, g, h, p, gen)
  BY <1>5 DEF HandsOut, InForce, Requested
<1> QED  BY <1>1, <1>2, <1>3, <1>4, <1>5 DEF PackageHandles, ScriptHandles

LEMMA CurrentOnceStored ==
  ASSUME NEW m, NEW n, NEW g, NEW p, NEW persistent, NEW gen, NEW listed,
         Current(m, g, p, persistent, gen, listed), Stores(m, n)
  PROVE  Current(n, g, p, persistent, gen, listed)
BY DEF Current, Stores, NoMember

LEMMA CurrentOutside ==
  ASSUME NEW m \in Member, NEW g, NEW h, NEW p \in Pod, NEW q, NEW persistent \in BOOLEAN,
         NEW gen, NEW listed, Aged(m, g, p),
         Current(m, g, p, persistent, gen, listed), Happens(g, h, p, q, persistent)
  PROVE  Current(m, h, q, persistent, gen, listed)
<1>1. m.conf \in Nat /\ m.cing \in Nat /\ p.cid \in Nat
  BY DEF Member, Pod
<1> QED  BY <1>1 DEF Current, InForce, Reaches, Happens, Aged

LEMMA BlankOnceBegun ==
  ASSUME NEW m, NEW n, NEW p, Blank(m), Begins(m, n, p, FALSE)
  PROVE  Blank(n)
BY DEF Blank, Begins, NewMember, NoMember

LEMMA BlankOnceRefreshed ==
  ASSUME NEW m, NEW n, NEW g, NEW h, NEW gen, Blank(m), Refreshes(m, n, g, h, gen)
  PROVE  Blank(n)
BY DEF Blank, Refreshes

LEMMA BlankOnceHandled ==
  ASSUME NEW m, NEW n, NEW g, NEW h, NEW r, NEW p, NEW gen, NEW push,
         Blank(m), Handles(m, n, g, h, r, p, gen, push)
  PROVE  Blank(n)
BY DEF Blank, Handles, Waits, Forgets, Launches, RunsScript, HandsOut, Readies, Breaks,
       Leaves

LEMMA UpheldOnceBegun ==
  ASSUME NEW m, NEW n, NEW g, NEW h, NEW p, NEW q, NEW persistent, NEW listed,
         Upheld(m, g, p, persistent, listed), Begins(m, n, p, persistent),
         h # g \/ q # p => n.state = "none" \/ n = NewMember
  PROVE  Upheld(n, h, q, persistent, listed)
BY DEF Upheld, Begins, NewMember, NoMember

LEMMA UpheldOnceRefreshed ==
  ASSUME NEW m, NEW n, NEW g, NEW h, NEW p, NEW persistent, NEW gen, NEW listed,
         Upheld(m, g, p, persistent, listed), Refreshes(m, n, g, h, gen), Fed(m, n, g, h, listed)
  PROVE  Upheld(n, h, p, persistent, listed)
BY DEF Upheld, InForce, Refreshes, Keeps, Fed

\* A pass that hands out no configmeta has nobody come or go.
LEMMA UpheldOnceBlocked ==
  ASSUME NEW m, NEW n, NEW g, NEW h, NEW p, NEW persistent, NEW gen, NEW listed,
         Upheld(m, g, p, persistent, listed), PackageHandles(m, n, g, h, p, gen, FALSE),
         Fed(m, n, g, h, listed)
  PROVE  Upheld(n, h, p, persistent, listed)
<1>1. CASE Waits(m, n, g, h, FALSE) \/ RunsScript(m, n, g, h, p, gen)
  BY <1>1 DEF Upheld, Waits, RunsScript, Keeps, InForce, Fed
<1>2. CASE Readies(m, n, g, h, p, TRUE) \/ Breaks(m, n, g, h, gen)
  BY <1>2 DEF Upheld, Readies, Breaks, InForce, Requested
<1>3. CASE HandsOut(m, n, g, h, p, gen)
  BY <1>3 DEF Upheld, HandsOut, InForce, Fed
<1> QED  BY <1>1, <1>2, <1>3 DEF PackageHandles, ScriptHandles

LEMMA UpheldOutside ==
  ASSUME NEW m \in Member, NEW g, NEW h, NEW p \in Pod, NEW q, NEW persistent \in BOOLEAN,
         NEW listed, Aged(m, g, p),
         Upheld(m, g, p, persistent, listed), Happens(g, h, p, q, persistent)
  PROVE  Upheld(m, h, q, persistent, listed)
<1>1. m.conf \in Nat /\ m.cing \in Nat /\ p.cid \in Nat
  BY DEF Member, Pod
<1> QED  BY <1>1 DEF Upheld, InForce, Reaches, Happens, Aged

\* Which counts each kind of step goes by.
LEMMA PassGoesOn ==
  ASSUME Refreshing \/ \E r \in Roles : HandleRole(r)
  PROVE  phase # "idle" /\ phase' # "idle" /\ want' = want /\ spec' = spec
<1>1. UpdateReadyMembers \/ StartNotify =>
        phase # "idle" /\ phase' # "idle" /\ want' = want /\ spec' = spec
  BY DEF UpdateReadyMembers, StartNotify
<1>2. \A r \in Roles : HandleRole(r) =>
        phase # "idle" /\ phase' # "idle" /\ want' = want /\ spec' = spec
  BY DEF HandleRole
<1>3. \A r \in Roles, o \in Ords : Deliver(r, o) =>
        phase # "idle" /\ phase' # "idle" /\ want' = want /\ spec' = spec
  BY DEF Deliver
<1>4. \A r \in Roles : PanicInRole(r) =>
        phase # "idle" /\ phase' # "idle" /\ want' = want /\ spec' = spec
  BY DEF PanicInRole, passVars
<1> QED  BY <1>1, <1>2, <1>3, <1>4 DEF Refreshing

LEMMA SpecOutside ==
  ASSUME Inv, Environment \/ UNCHANGED vars
  PROVE  /\ want' = want
         /\ \A r \in Roles :
              spec'[r] # spec[r] => spec[r] # -1 \/ stat.name[r] = 0
<1>1. ASSUME NEW r \in Roles, NEW n \in Want, ChangeSpec(r, n)
      PROVE  /\ want' = want
             /\ \A q \in Roles : spec'[q] # spec[q] => spec[q] # -1 \/ stat.name[q] = 0
  BY <1>1 DEF ChangeSpec, passVars, Inv, TypeOK
<1>2. ChangeConnections \/ UNCHANGED vars => want' = want /\ spec' = spec
  BY DEF ChangeConnections, passVars, vars
<1>3. \A r \in Roles, o \in Ords :
        \/ PodStart(r, o) \/ PodStop(r, o)
        \/ \E how \in {"absent", "down"} : PodRestart(r, o, how)
        \/ \E ok \in BOOLEAN : ScriptEnds(r, o, ok)
        => want' = want /\ spec' = spec
  BY DEF PodStart, PodStop, PodRestart, ScriptEnds, EnvStep, passVars
<1>4. \A r \in Roles : SsetDelete(r) => want' = want /\ spec' = spec
  BY DEF SsetDelete, EnvStep, passVars
<1> QED  BY <1>1, <1>2, <1>3, <1>4 DEF Environment

\* What a pass does to its members leaves those in service in service.
LEMMA InServiceStays ==
  ASSUME Refreshed \/ Handled, NEW r \in Roles
  PROVE  With(cr'.mem[r], Requested) = With(cr.mem[r], Requested)
<1>1. ASSUME NEW o \in Ords
      PROVE  cr'.mem[r][o].state \in Requested <=> cr.mem[r][o].state \in Requested
  <2>1. CASE Refreshed
    BY <2>1 DEF Refreshed, Refreshes
  <2>2. CASE Handled
    BY <2>2 DEF Handled, Handles, Waits, Launches, RunsScript, HandsOut, Readies, Breaks, Leaves,
                Requested
  <2> QED  BY <2>1, <2>2
<1> QED  BY <1>1 DEF With

LEMMA GoneStep ==
  ASSUME DiskInv, GoneForGood, [Next]_vars, [~BeginPassOverwritten]_vars, [~PassDies]_vars
  PROVE  GoneForGood'
<1>1. Kinds /\ Inv /\ Nameless(stat)
  BY DiskStep DEF DiskInv, ListInv
<1>2. CASE (FirstPass \/ Begin) /\ Begun
  BY <1>2, PassBegins, BeginGone DEF GoneForGood, Begun
<1>3. ASSUME stat' = stat, spec' = spec, want' = want, phase # "idle", Refreshed \/ Handled
      PROVE  GoneForGood'
  BY <1>3, InServiceStays DEF GoneForGood
<1>4. CASE Refreshing /\ Refreshed
  BY <1>3, <1>4, PassGoesOn DEF Refreshed
<1>5. CASE (\E r \in Roles : HandleRole(r)) /\ Handled
  BY <1>3, <1>5, PassGoesOn DEF Handled
<1>6. CASE Stored
  BY <1>6 DEF Stored, GoneForGood
<1>7. CASE (Environment \/ UNCHANGED vars) /\ Outside
  BY <1>1, <1>7, SpecOutside DEF Outside, GoneForGood, Nameless
<1> QED  BY <1>1, <1>2, <1>4, <1>5, <1>6, <1>7 DEF Kinds, vars, GoneForGood

LEMMA BlankStep ==
  ASSUME DiskInv, IdleIsStored, [Next]_vars, [~BeginPassOverwritten]_vars, [~PassDies]_vars,
         NEW r \in Roles \ Persistent, NEW o \in Ords, Blank(cr.mem[r][o])
  PROVE  Blank(cr'.mem[r][o])
<1>1. Kinds
  BY DiskStep
<1>2. CASE (FirstPass \/ Begin) /\ Begun
  <2>1. (r \in Persistent) = FALSE
    OBVIOUS
  <2>2. Begins(cr.mem[r][o], cr'.mem[r][o], pod[r][o], FALSE)
    BY <1>2, <2>1, PassBegins DEF Begun, IdleIsStored
  <2> QED  BY <2>2, BlankOnceBegun
<1>3. CASE Refreshed
  BY <1>3, BlankOnceRefreshed DEF Refreshed
<1>4. CASE Handled
  BY <1>4, BlankOnceHandled DEF Handled
<1>5. CASE Stored
  BY <1>5 DEF Stored, Stores, Blank, NoMember
<1>6. CASE Outside \/ UNCHANGED vars
  BY <1>6 DEF Outside, vars
<1> QED  BY <1>1, <1>2, <1>3, <1>4, <1>5, <1>6 DEF Kinds

\* Nothing but the start of a pass changes who is in service.
LEMMA ListStays ==
  ASSUME MetaInv, [Next]_vars, [~BeginPassOverwritten]_vars, [~PassDies]_vars,
         ~((FirstPass \/ Begin) /\ Begun), ~Pending'
  PROVE  ~Pending /\ cr'.gen = cr.gen /\ Listed(cr, Wanted)' = Listed(cr, Wanted)
<1>1. DiskInv /\ DiskInv' /\ Kinds /\ Inv /\ Inv' /\ Nameless(stat) /\ IdleIsStored
  BY DiskStep DEF MetaInv, GivenInv, DiskInv, ListInv
<1>2. \A r \in Roles : /\ Wanted[r] \in Want /\ Wanted'[r] \in Want
                       /\ spec[r] \in Want /\ want[r] \in Want
  BY <1>1 DEF Inv, TypeOK, Wanted
<1>3. ASSUME phase # "idle", phase' # "idle", want' = want, SameHeader(cr, cr'),
             Refreshed \/ Handled
      PROVE  ~Pending /\ cr'.gen = cr.gen /\ Listed(cr, Wanted)' = Listed(cr, Wanted)
  <2>1. Wanted = want /\ Wanted' = want /\ cr'.gen = cr.gen
    BY <1>3 DEF Wanted, SameHeader
  <2>2. ~Pending
    BY <1>3, <2>1, InServiceStays DEF Pending
  <2>3. SameInService(cr', cr)
    BY <1>3, InServiceStays DEF SameInService, SameHeader
  <2> QED  BY <2>1, <2>2, <2>3, SameListed
<1>4. CASE Refreshing /\ Refreshed
  BY <1>3, <1>4, PassGoesOn DEF Refreshed
<1>5. CASE (\E r \in Roles : HandleRole(r)) /\ Handled
  BY <1>3, <1>5, PassGoesOn DEF Handled
<1>6. CASE WriteStatus /\ Stored
  <2>1. /\ Wanted = want /\ Wanted' = spec /\ cr'.gen = cr.gen /\ spec' = spec
        /\ phase # "idle"
    BY <1>6 DEF Wanted, WriteStatus, Stored, SameHeader
  <2>2. SameInService(cr', cr)
    BY <1>6 DEF Stored, SameInService, SameHeader, With, Stores, NoMember, Requested
  <2>3. ASSUME NEW r \in Roles
        PROVE  (spec[r] >= 0 <=> want[r] >= 0) \/ With(cr'.mem[r], Requested) = {}
    <3>1. spec[r] = -1 => With(cr'.mem[r], Requested) = {}
      BY <2>1 DEF Pending
    <3>2. want[r] = -1 /\ spec[r] # -1 => With(cr.mem[r], Requested) = {}
      BY <2>1 DEF MetaInv, GoneForGood
    <3> QED  BY <1>2, <2>2, <3>1, <3>2, MaxMembersAssumption DEF SameInService, Want
  <2>4. ~Pending
    BY <2>1, <2>2 DEF Pending, SameInService, MetaInv, GoneForGood
  <2> QED  BY <2>1, <2>2, <2>3, <2>4, SameListed
<1>7. CASE (Environment \/ UNCHANGED vars) /\ Outside
  <2>1. /\ want' = want /\ cr' = cr /\ stat' = stat /\ phase' = phase
        /\ \A r \in Roles : spec'[r] # spec[r] => spec[r] # -1 \/ stat.name[r] = 0
    BY <1>1, <1>7, SpecOutside DEF Outside
  <2>2. ASSUME NEW r \in Roles
        PROVE  Wanted'[r] = Wanted[r] \/ Wanted[r] # -1 \/ With(cr.mem[r], Requested) = {}
    <3>1. Present(cr.mem[r]) = {} => With(cr.mem[r], Requested) = {}
      BY DEF Present, With, Requested
    <3> QED  BY <1>1, <2>1, <3>1 DEF Wanted, IdleIsStored, Nameless
  <2>3. ~Pending
    BY <2>1, <2>2 DEF Pending
  <2>4. ASSUME NEW r \in Roles
        PROVE  (Wanted'[r] >= 0 <=> Wanted[r] >= 0) \/ With(cr.mem[r], Requested) = {}
    <3>1. /\ Wanted'[r] = -1 => With(cr.mem[r], Requested) = {}
          /\ Wanted[r] = -1 => With(cr.mem[r], Requested) = {}
      BY <2>1, <2>3 DEF Pending
    <3> QED  BY <1>2, <3>1, MaxMembersAssumption DEF Want
  <2>5. SameInService(cr, cr)
    BY DEF SameInService
  <2> QED  BY <2>1, <2>3, <2>4, <2>5, SameListed
<1>8. CASE UNCHANGED vars
  BY <1>8 DEF vars, Pending, Wanted, Listed
<1> QED  BY <1>1, <1>4, <1>5, <1>6, <1>7, <1>8 DEF Kinds

\* What the steps do to the members of the roles with a setup package.
PackagedKinds(listed) ==
  \/ pod' = pod /\ \A r \in Packaged, o \in Ords :
       /\ Refreshes(cr.mem[r][o], cr'.mem[r][o], guest[r][o], guest'[r][o], cr.gen)
       /\ Fed(cr.mem[r][o], cr'.mem[r][o], guest[r][o], guest'[r][o], listed)
  \/ /\ pod' = pod /\ phase \in {"members", "blocked"}
     /\ \A r \in Packaged, o \in Ords :
          /\ PackageHandles(cr.mem[r][o], cr'.mem[r][o], guest[r][o], guest'[r][o], pod[r][o],
                            cr.gen, phase = "members")
          /\ Fed(cr.mem[r][o], cr'.mem[r][o], guest[r][o], guest'[r][o], listed)
  \/ pod' = pod /\ guest' = guest /\ \A r \in Packaged, o \in Ords :
       Stores(cr.mem[r][o], cr'.mem[r][o])
  \/ cr' = cr /\ \A r \in Packaged, o \in Ords :
       Happens(guest[r][o], guest'[r][o], pod[r][o], pod'[r][o], r \in Persistent)

LEMMA StepsOfPackaged ==
  ASSUME MetaInv, [Next]_vars, [~BeginPassOverwritten]_vars, [~PassDies]_vars,
         ~((FirstPass \/ Begin) /\ Begun)
  PROVE  PackagedKinds(Listed(cr, Wanted))
<1>1. Kinds /\ \A r \in Packaged : r \in Roles
  BY DiskStep, RoleKinds DEF MetaInv, GivenInv
<1>2. CASE Refreshing /\ Refreshed
  BY <1>1, <1>2, PassGoesOn DEF Refreshed, PackagedKinds, Wanted
<1>3. CASE (\E r \in Roles : HandleRole(r)) /\ Handled
  <2>1. phase \in {"members", "blocked"} /\ Wanted = want
    BY <1>3 DEF HandleRole, Wanted
  <2>2. \A r \in Packaged, o \in Ords :
          /\ PackageHandles(cr.mem[r][o], cr'.mem[r][o], guest[r][o], guest'[r][o], pod[r][o],
                            cr.gen, phase = "members")
          /\ Fed(cr.mem[r][o], cr'.mem[r][o], guest[r][o], guest'[r][o], Listed(cr, want))
    BY <1>3, HandledPackaged
  <2>3. pod' = pod
    BY <1>3 DEF Handled
  <2> QED  BY <2>1, <2>2, <2>3 DEF PackagedKinds
<1>4. CASE Stored
  BY <1>1, <1>4 DEF Stored, PackagedKinds
<1>5. CASE Outside
  BY <1>1, <1>5 DEF Outside, PackagedKinds
<1>6. CASE UNCHANGED vars
  BY <1>6 DEF vars, PackagedKinds, Stores
<1> QED  BY <1>1, <1>2, <1>3, <1>4, <1>5, <1>6 DEF Kinds

LEMMA CurrentStep ==
  ASSUME MetaInv, [Next]_vars, [~BeginPassOverwritten]_vars, [~PassDies]_vars,
         [~BeginPassNoSset]_vars, ~Pending'
  PROVE  AllCurrent(cr, Listed(cr, Wanted))'
<1>1. DiskInv /\ Inv /\ IdleIsStored /\ cr.gen \in Nat /\ cr'.gen \in Nat
  <2>1. DiskInv /\ DiskInv'
    BY DiskStep DEF MetaInv, GivenInv
  <2> QED  BY <2>1 DEF MetaInv, GivenInv, DiskInv, ListInv, Inv, TypeOK, Status
<1> DEFINE persistent(r) == r \in Persistent
<1>2. \A r \in Packaged, o \in Ords :
        /\ r \in Roles /\ cr.mem[r][o] \in Member /\ pod[r][o] \in Pod
        /\ Ordered(cr.mem[r][o], cr.gen)
        /\ Aged(cr.mem[r][o], guest[r][o], pod[r][o])
        /\ persistent(r) \in BOOLEAN /\ (~persistent(r) => Blank(cr.mem[r][o]))
  BY <1>1, RoleKinds DEF MetaInv, Inv, TypeOK, Status, Sound, ListOrdered
<1>3. CASE (FirstPass \/ Begin) /\ Begun
  <2>1. /\ phase = "idle" /\ phase' # "idle" /\ want' = spec /\ cr = stat
        /\ Wanted = spec /\ Wanted' = spec
    BY <1>1, <1>3, PassBegins DEF IdleIsStored, Wanted
  <2>2. ~BeginPassNoSset
    BY <2>1 DEF vars
  <2>3. \A r \in Packaged, o \in Ords :
          /\ Begins(cr.mem[r][o], cr'.mem[r][o], pod[r][o], persistent(r))
          /\ guest'[r][o] # guest[r][o] \/ pod'[r][o] # pod[r][o] =>
               cr'.mem[r][o].state = "none" \/ cr'.mem[r][o] = NewMember
    BY <1>2, <1>3, <2>1 DEF Begun
  <2>4. CASE cr'.gen = stat.gen
    <3>1. ~Pending
      BY <1>1, <1>3, <2>1, <2>2, <2>4, PendingBegins
    <3>2. Listed(cr', spec) = Listed(cr, spec)
      BY <1>1, <1>3, <2>1, <2>2, <2>4, BeginListed, SameListed
    <3> DEFINE listed == Listed(cr, spec)
    <3>3. \A r \in Packaged, o \in Ords :
            Current(cr.mem[r][o], guest[r][o], pod[r][o], persistent(r), cr.gen, listed)
      BY <2>1, <3>1 DEF MetaInv, AllCurrent
    <3> HIDE DEF listed, persistent
    <3>4. \A r \in Packaged, o \in Ords :
            Current(cr'.mem[r][o], guest'[r][o], pod'[r][o], persistent(r), cr.gen, listed)
      BY <1>2, <2>3, <3>3, CurrentOnceBegun
    <3> QED  BY <2>1, <2>4, <3>2, <3>4 DEF AllCurrent, listed, persistent
  <2>5. CASE cr'.gen # stat.gen
    <3>1. cr'.gen > cr.gen
      BY <1>1, <1>3, <2>1, <2>2, <2>5, GenBegins
    <3> DEFINE listed == Listed(cr', spec)
    <3> HIDE DEF listed, persistent
    <3>2. \A r \in Packaged, o \in Ords :
            Current(cr'.mem[r][o], guest'[r][o], pod'[r][o], persistent(r), cr'.gen, listed)
      BY <1>1, <1>2, <2>3, <3>1, OutdatedOnceBegun
    <3> QED  BY <2>1, <3>2 DEF AllCurrent, listed, persistent
  <2> QED  BY <2>4, <2>5
<1>4. CASE ~((FirstPass \/ Begin) /\ Begun)
  <2> DEFINE listed == Listed(cr, Wanted)
  <2>1. ~Pending /\ cr'.gen = cr.gen /\ Listed(cr, Wanted)' = listed
    BY <1>4, ListStays
  <2>2. PackagedKinds(listed)
    BY <1>4, StepsOfPackaged
  <2>3. \A r \in Packaged, o \in Ords :
          Current(cr.mem[r][o], guest[r][o], pod[r][o], persistent(r), cr.gen, listed)
    BY <2>1 DEF MetaInv, AllCurrent
  <2> HIDE DEF listed, persistent
  <2> SUFFICES ASSUME NEW r \in Packaged, NEW o \in Ords
               PROVE  Current(cr'.mem[r][o], guest'[r][o], pod'[r][o], persistent(r), cr.gen,
                              listed)
    BY <2>1 DEF AllCurrent, persistent
  <2>4. CASE /\ pod' = pod
             /\ Refreshes(cr.mem[r][o], cr'.mem[r][o], guest[r][o], guest'[r][o], cr.gen)
             /\ Fed(cr.mem[r][o], cr'.mem[r][o], guest[r][o], guest'[r][o], listed)
    BY <2>3, <2>4, CurrentOnceRefreshed
  <2>5. ASSUME NEW push, pod' = pod,
               PackageHandles(cr.mem[r][o], cr'.mem[r][o], guest[r][o], guest'[r][o],
                              pod[r][o], cr.gen, push),
               Fed(cr.mem[r][o], cr'.mem[r][o], guest[r][o], guest'[r][o], listed)
        PROVE  Current(cr'.mem[r][o], guest'[r][o], pod'[r][o], persistent(r), cr.gen, listed)
    <3> DEFINE pers == persistent(r)
    <3>1. /\ Current(cr.mem[r][o], guest[r][o], pod[r][o], pers, cr.gen, listed)
          /\ pers \in BOOLEAN /\ (~pers => Blank(cr.mem[r][o]))
      BY <1>2, <2>3
    <3> HIDE DEF pers
    <3>2. Current(cr'.mem[r][o], guest'[r][o], pod[r][o], pers, cr.gen, listed)
      BY <2>5, <3>1, CurrentOnceHandled
    <3> QED  BY <2>5, <3>2 DEF pers
  <2>6. CASE pod' = pod /\ guest' = guest /\ Stores(cr.mem[r][o], cr'.mem[r][o])
    BY <2>3, <2>6, CurrentOnceStored
  <2>7. CASE cr' = cr /\ Happens(guest[r][o], guest'[r][o], pod[r][o], pod'[r][o], persistent(r))
    BY <1>2, <2>3, <2>7, CurrentOutside
  <2> QED  BY <2>2, <2>4, <2>5, <2>6, <2>7 DEF PackagedKinds, persistent
<1> QED  BY <1>3, <1>4

\* A pass that goes on to hand out configmeta finds no member of an older generation.
LEMMA GenOkOnceHandled ==
  ASSUME NEW m, NEW n, NEW g, NEW h, NEW p, NEW gen, NEW push,
         UpToDate(m, gen), PackageHandles(m, n, g, h, p, gen, push)
  PROVE  UpToDate(n, gen)
BY DEF UpToDate, GenOk, PackageHandles, ScriptHandles, Waits, Launches, RunsScript, HandsOut,
       Readies, Breaks, Leaves

LEMMA GenOkStays ==
  ASSUME NEW listed, PackagedKinds(listed), phase = "members",
         NEW r \in Packaged, NEW o \in Ords,
         UpToDate(cr.mem[r][o], cr.gen)
  PROVE  UpToDate(cr'.mem[r][o], cr.gen)
<1>1. ASSUME Refreshes(cr.mem[r][o], cr'.mem[r][o], guest[r][o], guest'[r][o], cr.gen)
      PROVE  UpToDate(cr'.mem[r][o], cr.gen)
  BY <1>1 DEF UpToDate, GenOk, Refreshes
<1>2. ASSUME NEW push,
             PackageHandles(cr.mem[r][o], cr'.mem[r][o], guest[r][o], guest'[r][o], pod[r][o],
                            cr.gen, push)
      PROVE  UpToDate(cr'.mem[r][o], cr.gen)
  BY <1>2, GenOkOnceHandled
<1>3. CASE Stores(cr.mem[r][o], cr'.mem[r][o]) \/ cr' = cr
  BY <1>3 DEF UpToDate, GenOk, Stores, NoMember
<1> QED  BY <1>1, <1>2, <1>3 DEF PackagedKinds

LEMMA GenOkStep ==
  ASSUME MetaInv, [Next]_vars, [~BeginPassOverwritten]_vars, [~PassDies]_vars,
         phase' = "members", NEW r \in Packaged, NEW o \in Ords
  PROVE  UpToDate(cr'.mem[r][o], cr'.gen)
<1>1. Kinds /\ Inv /\ r \in Roles
  BY DiskStep, RoleKinds DEF MetaInv, GivenInv, DiskInv, ListInv
<1>2. ~(FirstPass \/ Begin)
  BY DEF FirstPass, Begin, BeginPass, BeginPassNoCluster, BeginPassNoSset, BeginPassNoService
<1>3. CASE phase = "members"
  <2>1. cr'.gen = cr.gen
    BY <1>1, <1>2 DEF Kinds, Refreshed, Handled, Stored, Outside, SameHeader, vars
  <2>2. UpToDate(cr'.mem[r][o], cr.gen)
    BY <1>2, <1>3, StepsOfPackaged, GenOkStays DEF MetaInv
  <2> QED  BY <2>1, <2>2
<1>4. CASE phase # "members"
  <2>1. UpdateReadyMembers
    BY <1>1, <1>2, <1>4 DEF Kinds, Stored, Outside, vars, HandleRole, Refreshing, StartNotify,
                            PanicInRole, Deliver
  <2>2. PICK mem : /\ cr' = [cr EXCEPT !.mem = mem]
                   /\ \A q \in Roles, x \in Ords : GenOk(snap[q][x], mem[q][x], cr.gen)
    BY <2>1 DEF UpdateReadyMembers
  <2>3. cr'.mem = mem /\ cr'.gen = cr.gen
    BY <1>1, <2>2 DEF Inv, TypeOK, Status
  <2>4. snap[r][o] = cr.mem[r][o].state
    BY <1>1, <2>1 DEF UpdateReadyMembers, MetaInv, GivenInv, DiskInv, ListInv, SnapIsCurrent,
                      States
  <2>5. cr'.mem[r][o].state = cr.mem[r][o].state
    <3>1. Refreshed
      BY <1>1, <2>1, UpdateReadyMembersRefreshed DEF MetaInv, GivenInv, DiskInv
    <3> QED  BY <1>1, <3>1 DEF Refreshed, Refreshes
  <2> QED  BY <1>1, <2>2, <2>3, <2>4, <2>5 DEF UpToDate
<1> QED  BY <1>3, <1>4

\* The members that come or go are handled in the passes that hand out configmeta.
LEMMA MovingStays ==
  ASSUME DiskInv, [Next]_vars, [~BeginPassOverwritten]_vars, [~PassDies]_vars,
         ~((FirstPass \/ Begin) /\ Begun), phase # "members", ~Moving'
  PROVE  ~Moving
<1>1. Kinds
  BY DiskStep
<1>2. ASSUME NEW r \in Roles, NEW o \in Ords,
             cr.mem[r][o].state \in {"createPending", "deletePending", "deleting"}
      PROVE  cr'.mem[r][o].state = cr.mem[r][o].state
  <2>1. CASE Refreshed
    BY <2>1 DEF Refreshed, Refreshes
  <2>2. CASE Handled
    BY <1>2, <2>2 DEF Handled, Handles, Waits, RunsScript, HandsOut, Readies, Breaks
  <2>3. CASE Stored
    BY <1>2, <2>3 DEF Stored, Stores
  <2>4. CASE Outside \/ UNCHANGED vars
    BY <2>4 DEF Outside, vars
  <2> QED  BY <1>1, <2>1, <2>2, <2>3, <2>4 DEF Kinds
<1> QED  BY <1>2 DEF Moving, With

LEMMA UpheldStep ==
  ASSUME MetaInv, [Next]_vars, [~BeginPassOverwritten]_vars, [~PassDies]_vars,
         [~BeginPassNoSset]_vars, ~Pending', ~Moving'
  PROVE  AllUpheld(cr, Listed(cr, Wanted))'
<1>1. DiskInv /\ Inv /\ IdleIsStored
  BY DEF MetaInv, GivenInv, DiskInv, ListInv
<1> DEFINE persistent(r) == r \in Persistent
<1>2. \A r \in Packaged, o \in Ords :
        /\ r \in Roles /\ cr.mem[r][o] \in Member /\ pod[r][o] \in Pod
        /\ Aged(cr.mem[r][o], guest[r][o], pod[r][o]) /\ persistent(r) \in BOOLEAN
  BY <1>1, RoleKinds DEF MetaInv, Inv, TypeOK, Status
<1>3. CASE (FirstPass \/ Begin) /\ Begun
  <2>1. /\ phase = "idle" /\ cr = stat /\ Wanted = spec /\ Wanted' = spec
    BY <1>1, <1>3, PassBegins DEF IdleIsStored, Wanted
  <2>2. SameInService(cr', cr) /\ ~Moving
    BY <1>1, <1>3, <2>1, BeginMoving
  <2>3. ~Pending
    BY <2>1, <2>2 DEF Pending, SameInService
  <2>4. Listed(cr', spec) = Listed(cr, spec)
    BY <2>2, SameListed
  <2> DEFINE listed == Listed(cr, spec)
  <2>5. \A r \in Packaged, o \in Ords :
          /\ Upheld(cr.mem[r][o], guest[r][o], pod[r][o], persistent(r), listed)
          /\ Begins(cr.mem[r][o], cr'.mem[r][o], pod[r][o], persistent(r))
          /\ guest'[r][o] # guest[r][o] \/ pod'[r][o] # pod[r][o] =>
               cr'.mem[r][o].state = "none" \/ cr'.mem[r][o] = NewMember
    BY <1>2, <1>3, <2>1, <2>2, <2>3 DEF MetaInv, AllUpheld, Begun
  <2> HIDE DEF listed, persistent
  <2>6. \A r \in Packaged, o \in Ords :
          Upheld(cr'.mem[r][o], guest'[r][o], pod'[r][o], persistent(r), listed)
    BY <2>5, UpheldOnceBegun
  <2> QED  BY <2>1, <2>4, <2>6 DEF AllUpheld, listed, persistent
<1>4. CASE ~((FirstPass \/ Begin) /\ Begun)
  <2> DEFINE listed == Listed(cr, Wanted)
  <2>1. ~Pending /\ cr'.gen = cr.gen /\ Listed(cr, Wanted)' = listed
    BY <1>4, ListStays
  <2>2. PackagedKinds(listed)
    BY <1>4, StepsOfPackaged
  <2>3. phase # "members" =>
          \A r \in Packaged, o \in Ords :
            Upheld(cr.mem[r][o], guest[r][o], pod[r][o], persistent(r), listed)
    BY <1>1, <1>4, <2>1, MovingStays DEF MetaInv, AllUpheld
  <2>4. \A r \in Packaged, o \in Ords :
          Current(cr'.mem[r][o], guest'[r][o], pod'[r][o], persistent(r), cr.gen, listed)
    BY <2>1, CurrentStep DEF AllCurrent
  <2> HIDE DEF listed, persistent
  <2> SUFFICES ASSUME NEW r \in Packaged, NEW o \in Ords
               PROVE  Upheld(cr'.mem[r][o], guest'[r][o], pod'[r][o], persistent(r), listed)
    BY <2>1 DEF AllUpheld, persistent
  <2>5. CASE phase = "members"
    <3>1. UpToDate(cr'.mem[r][o], cr.gen)
      BY <2>2, <2>5, GenOkStays DEF MetaInv
    <3> QED  BY <2>4, <3>1 DEF UpToDate, GenOk, Upheld, Current
  <2>6. CASE phase # "members"
    <3>1. Upheld(cr.mem[r][o], guest[r][o], pod[r][o], persistent(r), listed)
      BY <2>3, <2>6
    <3>2. CASE /\ pod' = pod
               /\ Refreshes(cr.mem[r][o], cr'.mem[r][o], guest[r][o], guest'[r][o], cr.gen)
               /\ Fed(cr.mem[r][o], cr'.mem[r][o], guest[r][o], guest'[r][o], listed)
      BY <3>1, <3>2, UpheldOnceRefreshed
    <3>3. CASE /\ pod' = pod
               /\ PackageHandles(cr.mem[r][o], cr'.mem[r][o], guest[r][o], guest'[r][o],
                                 pod[r][o], cr.gen, FALSE)
               /\ Fed(cr.mem[r][o], cr'.mem[r][o], guest[r][o], guest'[r][o], listed)
      BY <3>1, <3>3, UpheldOnceBlocked
    <3>4. CASE pod' = pod /\ guest' = guest /\ Stores(cr.mem[r][o], cr'.mem[r][o])
      BY <3>1, <3>4 DEF Stores, Upheld, NoMember
    <3>5. CASE cr' = cr /\ Happens(guest[r][o], guest'[r][o], pod[r][o], pod'[r][o],
                                   persistent(r))
      BY <1>2, <3>1, <3>5, UpheldOutside
    <3> QED  BY <2>2, <2>6, <3>2, <3>3, <3>4, <3>5 DEF PackagedKinds, persistent
  <2> QED  BY <2>5, <2>6
<1> QED  BY <1>3, <1>4

LEMMA MetaInit == Init => MetaInv
<1> SUFFICES ASSUME Init PROVE MetaInv
  OBVIOUS
<1>1. GivenInv /\ OnceInv
  BY GivenInit, OnceInit
<1>2. \A r \in Roles, o \in Ords : cr.mem[r][o] = NoMember
  BY DEF Init
<1>3. /\ GoneForGood /\ phase # "members"
      /\ \A r \in Roles \ Persistent, o \in Ords : Blank(cr.mem[r][o])
  BY <1>2 DEF Init, GoneForGood, Blank, NoMember
<1>4. \A r \in Packaged, o \in Ords : \A g, p, persistent, gen, listed :
        /\ Current(cr.mem[r][o], g, p, persistent, gen, listed)
        /\ Upheld(cr.mem[r][o], g, p, persistent, listed)
  BY <1>2, RoleKinds DEF Current, Upheld, NoMember
<1> QED  BY <1>1, <1>3, <1>4 DEF MetaInv, OnceInv, AllCurrent, AllUpheld

LEMMA MetaStep ==
  MetaInv /\ [Next]_vars /\ [~BeginPassOverwritten]_vars /\ [~PassDies]_vars
    /\ [~BeginPassNoSset]_vars => MetaInv'
<1> SUFFICES ASSUME MetaInv, [Next]_vars, [~BeginPassOverwritten]_vars, [~PassDies]_vars,
                    [~BeginPassNoSset]_vars
             PROVE  MetaInv'
  OBVIOUS
<1>1. GivenInv' /\ DiskInv /\ IdleIsStored
  BY GivenStep DEF MetaInv, GivenInv
<1>2. OnceInv'
  BY <1>1, OnceStep DEF MetaInv, OnceInv
<1>3. GoneForGood'
  BY <1>1, GoneStep DEF MetaInv
<1>4. \A r \in Roles \ Persistent, o \in Ords : Blank(cr'.mem[r][o])
  BY <1>1, BlankStep DEF MetaInv
<1>5. phase' = "members" => \A r \in Packaged, o \in Ords : UpToDate(cr'.mem[r][o], cr'.gen)
  BY GenOkStep
<1>6. ~Pending' => AllCurrent(cr, Listed(cr, Wanted))'
  BY CurrentStep
<1>7. ~Pending' /\ ~Moving' => AllUpheld(cr, Listed(cr, Wanted))'
  BY UpheldStep
<1> QED  BY <1>1, <1>2, <1>3, <1>4, <1>5, <1>6, <1>7 DEF MetaInv, OnceInv

\* At rest every ready member of a role with a setup package has configmeta that lists
\* the members in service, whatever generation it was given it for: members come and go
\* only in passes that have brought everybody else up to the generation.  This needs
\* every pass to reach its status write, and no new StatefulSet to be refused: a pass
\* that is refused one ends after it has named others and before it raises the generation.
THEOREM MetaAtRest ==
  Spec /\ KeepsCopy /\ [][~PassDies]_vars /\ [][~BeginPassNoSset]_vars => []RestingMeta
<1>1. MetaInv => RestingMeta
  <2> SUFFICES ASSUME MetaInv, AtRest, NEW i \in Instances
               PROVE  guest[i[1]][i[2]].meta = Listed(stat, spec)
    BY DEF RestingMeta
  <2>1. PICK r \in Packaged, o \in Ords : i = <<r, o>> /\ stat.mem[r][o].state = "ready"
    BY DEF Instances
  <2>2. /\ cr = stat /\ Wanted = spec /\ r \in Roles
        /\ \A q \in Roles : Present(stat.mem[q]) = With(stat.mem[q], {"ready", "configError"})
        /\ \A q \in Roles : spec[q] = -1 => Present(stat.mem[q]) = {}
    BY RoleKinds DEF MetaInv, GivenInv, IdleIsStored, AtRest, Settled, Wanted
  <2>3. ~Pending
    BY <2>2 DEF Pending, With, Present, Requested
  <2>4. ~Moving
    BY <2>2 DEF Moving, With, Present
  <2>5. Upheld(stat.mem[r][o], guest[r][o], pod[r][o], r \in Persistent, Listed(stat, spec))
    BY <2>2, <2>3, <2>4 DEF MetaInv, AllUpheld
  <2>6. pod[r][o] = [phase |-> "up", cid |-> stat.mem[r][o].conf]
    <3>1. o \in Present(stat.mem[r])
      BY <2>1 DEF Present
    <3> QED  BY <2>2, <3>1 DEF AtRest, Settled
  <2>7. stat.mem[r][o].cfg # 0
    BY <2>1 DEF MetaInv, GivenInv
  <2> QED  BY <2>1, <2>5, <2>6, <2>7 DEF Upheld, InForce, Reaches
<1> QED  BY <1>1, MetaInit, MetaStep, PTL DEF Spec, KeepsCopy

-----------------------------------------------------------------------------
(* What the app instances are going to know. *)

\* The last of the queued commands that names a node is the i-th.
LastWord(i, node, pend) ==
  /\ i \in DOMAIN pend /\ node \in pend[i].nodes
  /\ \A j \in DOMAIN pend : node \in pend[j].nodes => j <= i

Unnamed(node, pend) == \A i \in DOMAIN pend : node \notin pend[i].nodes

\* Once all that is queued has been delivered, the app knows the node, or does not.
WillKnow(node, pend, view) ==
  \/ \E i \in DOMAIN pend : LastWord(i, node, pend) /\ pend[i].op = "addnodes"
  \/ Unnamed(node, pend) /\ node \in view

WontKnow(node, pend, view) ==
  \/ \E i \in DOMAIN pend : LastWord(i, node, pend) /\ pend[i].op = "delnodes"
  \/ Unnamed(node, pend) /\ node \notin view

\* The commands run are those that have been queued.
LEMMA ToldLast ==
  ASSUME NEW view, NEW pend, NEW node, NEW i \in DOMAIN pend, DOMAIN pend \subseteq Nat,
         LastWord(i, node, pend)
  PROVE  node \in Told(view, pend, DOMAIN pend) <=> pend[i].op = "addnodes"
<1> DEFINE names(n) == {j \in DOMAIN pend : n \in pend[j].nodes}
           ops      == UNION {pend[j].nodes : j \in DOMAIN pend}
           last(n)  == CHOOSE j \in names(n) : \A k \in names(n) : k <= j
<1>1. i \in names(node) /\ \A k \in names(node) : k <= i
  BY DEF LastWord
<1>2. last(node) \in names(node) /\ \A k \in names(node) : k <= last(node)
  BY <1>1
<1>3. last(node) = i
  BY <1>1, <1>2
<1>4. node \in ops /\ names(node) # {}
  BY <1>1
<1>5. Told(view, pend, DOMAIN pend) =
        {n \in view \cup ops : IF names(n) = {} THEN n \in view
                               ELSE pend[last(n)].op = "addnodes"}
  BY DEF Told
<1> QED  BY <1>3, <1>4, <1>5

LEMMA ToldUnnamed ==
  ASSUME NEW view, NEW pend, NEW node, Unnamed(node, pend)
  PROVE  node \in Told(view, pend, DOMAIN pend) <=> node \in view
BY DEF Unnamed, Told

LEMMA ToldNothing == ASSUME NEW view PROVE Told(view, NoNotify, DOMAIN NoNotify) = view
BY DEF Told, NoNotify

LEMMA KnowsOnceTold ==
  ASSUME NEW view, NEW pend \in Seq(Notify), NEW node
  PROVE  LET now == Told(view, pend, DOMAIN pend)
         IN  /\ WillKnow(node, pend, view) => WillKnow(node, NoNotify, now)
             /\ WontKnow(node, pend, view) => WontKnow(node, NoNotify, now)
<1>1. DOMAIN pend \subseteq Nat
  OBVIOUS
<1>2. ASSUME WillKnow(node, pend, view) PROVE node \in Told(view, pend, DOMAIN pend)
  BY <1>1, <1>2, ToldLast, ToldUnnamed DEF WillKnow
<1>3. ASSUME WontKnow(node, pend, view) PROVE node \notin Told(view, pend, DOMAIN pend)
  BY <1>1, <1>3, ToldLast, ToldUnnamed DEF WontKnow
<1>4. Unnamed(node, NoNotify)
  BY DEF Unnamed, NoNotify
<1> QED  BY <1>2, <1>3, <1>4 DEF WillKnow, WontKnow

\* One more command.
LEMMA WordsAppended ==
  ASSUME NEW pend \in Seq(Notify), NEW cmd \in Notify, NEW node, NEW view
  PROVE  LET more == Append(pend, cmd)
         IN  /\ node \in cmd.nodes /\ cmd.op = "addnodes" => WillKnow(node, more, view)
             /\ node \in cmd.nodes /\ cmd.op = "delnodes" => WontKnow(node, more, view)
             /\ node \notin cmd.nodes /\ WillKnow(node, pend, view)
                  => WillKnow(node, more, view)
             /\ node \notin cmd.nodes /\ WontKnow(node, pend, view)
                  => WontKnow(node, more, view)
<1> DEFINE more == Append(pend, cmd)
           n == Len(pend)
<1>1. /\ n \in Nat /\ DOMAIN pend = 1 .. n /\ DOMAIN more = 1 .. (n + 1)
      /\ more[n + 1] = cmd /\ \A i \in 1 .. n : more[i] = pend[i]
  OBVIOUS
<1> HIDE DEF more, n
<1>2. node \in cmd.nodes => LastWord(n + 1, node, more) /\ n + 1 \in DOMAIN more
  BY <1>1 DEF LastWord
<1>3. node \notin cmd.nodes =>
        /\ \A i \in DOMAIN pend : LastWord(i, node, pend) =>
             LastWord(i, node, more) /\ i \in DOMAIN more /\ more[i].op = pend[i].op
        /\ Unnamed(node, pend) => Unnamed(node, more)
  BY <1>1 DEF LastWord, Unnamed
<1>4. more[n + 1].op = cmd.op
  BY <1>1
<1>5. /\ node \in cmd.nodes /\ cmd.op = "addnodes" => WillKnow(node, more, view)
      /\ node \in cmd.nodes /\ cmd.op = "delnodes" => WontKnow(node, more, view)
  BY <1>2, <1>4 DEF WillKnow, WontKnow
<1>6. /\ node \notin cmd.nodes /\ WillKnow(node, pend, view) => WillKnow(node, more, view)
      /\ node \notin cmd.nodes /\ WontKnow(node, pend, view) => WontKnow(node, more, view)
  BY <1>3 DEF WillKnow, WontKnow
<1> QED  BY <1>5, <1>6 DEF more

\* The app instances that have been set up with what is in their guests.
Knows(m, p, persistent) ==
  /\ m.state \in {"ready", "createPending", "creating"} /\ InForce(m, p, persistent)
  /\ ~m.err /\ m.setup # 0

\* The members whose first setup script has been started.
Learns(m, g, p) ==
  /\ m.state = "creating" /\ Reaches(p, m.cing)
  /\ ~m.err /\ m.setup = 0 /\ g.file # "none"

\* What the configure.status file says of them.  A member that has not been set up has
\* nothing queued for it.
SetUp(m, g, p, persistent) ==
  /\ Knows(m, p, persistent) => g.file = "ok" /\ (m.state = "creating" => g.fcid # m.cing)
  /\ Learns(m, g, p) /\ g.file = "ok" => g.view = g.meta
  /\ m.state \in {"createPending", "creating"} /\ ~m.err /\ m.setup = 0 => m.pend = NoNotify

\* What the steps of a pass do to what is queued for a member: new notifications and
\* deliveries (quiet: nothing else is going on that may be worth a notification), and
\* the command that the handling of a role gives rise to.
Tells(m, n, g, h, quiet) ==
  /\ \/ n.pend = m.pend /\ h.view = g.view
     \/ n.pend = NoNotify /\ h.view = Told(g.view, m.pend, DOMAIN m.pend)
  /\ m.state # "ready" =>
       n.setup = m.setup /\ n.pend = m.pend /\ h.view = g.view /\ h.meta = g.meta
  /\ n.setup # m.setup => quiet

StartsAfresh(m, n, g) ==
  \/ m.err /\ ~n.err
  \/ m.state = "creating" /\ n.state = "ready" /\ g.file = "ok" /\ g.fcid = m.cing

\* Whoever asks for the command has it queued.
Asks(gen, setup, cmd, events) == cmd.nodes # {} /\ cmd.op \in events /\ setup # gen

Hears(m, n, g, gen, cmd, events) ==
  n.state \in {"ready", "createPending", "creating"} /\ ~n.err =>
    LET old == IF StartsAfresh(m, n, g) THEN NoNotify ELSE m.pend
    IN  n.pend = IF n.setup # 0 /\ Asks(gen, n.setup, cmd, events) THEN Append(old, cmd)
                 ELSE old

\* A pass starts with a new pod and disk only where a new member, or none, is.
SweptFor(n, g, h, p, q) == h # g \/ q # p => n.state = "none" \/ n = NewMember

LEMMA KnowsOnceBegun ==
  ASSUME NEW m, NEW n, NEW g, NEW h, NEW p, NEW q, NEW persistent \in BOOLEAN,
         Trusted(m, g), SetUp(m, g, p, persistent), Begins(m, n, p, persistent),
         SweptFor(n, g, h, p, q)
  PROVE  /\ SetUp(n, h, q, persistent)
         /\ Knows(n, q, persistent) =>
              Knows(m, p, persistent) /\ n.setup = m.setup /\ n.pend = m.pend /\ h = g
         /\ Learns(n, h, q) => n = m /\ h = g /\ q = p
<1>1. /\ NewMember.state = "createPending" /\ NewMember.setup = 0 /\ ~NewMember.err
      /\ NewMember.pend = NoNotify
  BY DEF NewMember, NoMember
<1>2. CASE n = m
  BY <1>1, <1>2 DEF SetUp, Knows, Learns, SweptFor
<1>3. CASE n.state \in {"none", "deletePending", "deleting"} \/ n = NewMember
  BY <1>1, <1>3 DEF SetUp, Knows, Learns, SweptFor
<1>4. CASE /\ n.state = "createPending" /\ n.err = m.err
           /\ m.state \in {"ready", "configError"} /\ n # NewMember
           /\ IF persistent THEN n.setup = m.setup /\ n.pend = m.pend
                            ELSE n.setup = 0 /\ n.pend = NoNotify
  BY <1>4 DEF SetUp, Knows, Learns, Trusted, InForce, Requested, SweptFor
<1> QED  BY <1>1, <1>2, <1>3, <1>4 DEF Begins

LEMMA KnowsOnceRefreshed ==
  ASSUME NEW m, NEW n, NEW g, NEW h, NEW p, NEW gen, NEW persistent \in BOOLEAN, NEW quiet,
         Trusted(m, g), SetUp(m, g, p, persistent), Refreshes(m, n, g, h, gen),
         Tells(m, n, g, h, quiet)
  PROVE  /\ SetUp(n, h, p, persistent)
         /\ Knows(n, p, persistent) => Knows(m, p, persistent)
         /\ Learns(n, h, p) => Learns(m, g, p) /\ h.meta = g.meta
<1>1. Knows(n, p, persistent) => Knows(m, p, persistent)
  BY DEF Knows, InForce, Refreshes, Keeps, Tells, Trusted, Requested
<1>2. Learns(n, h, p) => Learns(m, g, p) /\ h.meta = g.meta /\ h.view = g.view
  BY DEF Learns, Refreshes, Keeps, SameFile, Tells
<1> QED  BY <1>1, <1>2 DEF SetUp, Refreshes, Keeps, SameFile, Tells

\* Without persistent storage a member starts over from nothing.
Emptied(m, persistent) == ~persistent => Blank(m)

\* What becomes of a member that its role's handling leaves or makes one that knows:
\* either it was one and has the command queued behind what there was, or it has just
\* learned.
Informed(m, n, g, h, p, gen, persistent, cmd, events) ==
  /\ h.view = g.view
  /\ \/ /\ Knows(m, p, persistent) /\ n.setup = m.setup
        /\ n.pend = IF Asks(gen, n.setup, cmd, events) THEN Append(m.pend, cmd) ELSE m.pend
     \/ /\ Learns(m, g, p) /\ g.file = "ok"
        /\ n.pend = IF Asks(gen, n.setup, cmd, events) THEN Append(NoNotify, cmd)
                    ELSE NoNotify

LEMMA KnowsOnceHandled ==
  ASSUME NEW m, NEW n, NEW g, NEW h, NEW p, NEW gen, NEW persistent \in BOOLEAN,
         NEW push, NEW cmd, NEW events, Trusted(m, g), SetUp(m, g, p, persistent),
         ScriptHandles(m, n, g, h, p, gen, push), Hears(m, n, g, gen, cmd, events),
         Emptied(m, persistent), Knows(n, p, persistent)
  PROVE  Informed(m, n, g, h, p, gen, persistent, cmd, events)
<1>1. /\ n.state \in {"ready", "createPending", "creating"} /\ ~n.err /\ n.setup # 0
      /\ InForce(n, p, persistent)
  BY DEF Knows
<1>2. CASE Waits(m, n, g, h, push)
  <2>1. m.err = n.err /\ n.setup = m.setup /\ Knows(m, p, persistent) /\ h = g
    BY <1>1, <1>2 DEF Waits, Forgets, Knows, InForce, Keeps
  <2>2. ~StartsAfresh(m, n, g)
    BY <1>2, <2>1 DEF StartsAfresh, Waits
  <2> QED  BY <1>1, <2>1, <2>2 DEF Hears, Informed
<1>3. CASE Launches(m, n, g, h, p)
  <2>1. m.err = n.err /\ n.setup = m.setup /\ h = g
    BY <1>3 DEF Launches
  <2>2. Knows(m, p, persistent)
    BY <1>1, <1>3, <2>1 DEF Launches, Knows, InForce, Emptied, Blank, Requested
  <2>3. ~StartsAfresh(m, n, g)
    BY <1>3, <2>1 DEF StartsAfresh, Launches
  <2> QED  BY <1>1, <2>1, <2>2, <2>3 DEF Hears, Informed
<1>4. CASE RunsScript(m, n, g, h, p, gen)
  <2>1. ~m.err /\ m.setup # 0 /\ Knows(m, p, persistent)
    BY <1>1, <1>4 DEF RunsScript, Knows, InForce
  <2> QED  BY <1>4, <2>1 DEF RunsScript, SetUp, Settles
<1>5. CASE Readies(m, n, g, h, p, TRUE)
  <2>1. h = g /\ ~m.err /\ ~n.err /\ g.file = "ok" /\ m.state = "creating" /\ Reaches(p, m.cing)
    BY <1>5 DEF Readies
  <2>2. CASE g.fcid = m.cing
    <3>1. m.setup = 0
      BY <2>1, <2>2 DEF SetUp, Knows, InForce
    <3>2. Learns(m, g, p)
      BY <2>1, <3>1 DEF Learns
    <3>3. StartsAfresh(m, n, g)
      BY <1>5, <2>2 DEF StartsAfresh, Readies
    <3> QED  BY <1>1, <2>1, <3>2, <3>3 DEF Hears, Informed
  <2>3. CASE g.fcid # m.cing
    <3>1. n.setup = m.setup /\ Knows(m, p, persistent)
      BY <1>1, <1>5, <2>1, <2>3 DEF Readies, Knows, InForce
    <3>2. ~StartsAfresh(m, n, g)
      BY <2>1, <2>3 DEF StartsAfresh
    <3> QED  BY <1>1, <2>1, <3>1, <3>2 DEF Hears, Informed
  <2> QED  BY <2>2, <2>3
<1>6. CASE Breaks(m, n, g, h, gen) \/ Leaves(m, n, g, h)
  BY <1>1, <1>6 DEF Breaks, Leaves
<1> QED  BY <1>2, <1>3, <1>4, <1>5, <1>6 DEF ScriptHandles

LEMMA LearnsOnceHandled ==
  ASSUME NEW m, NEW n, NEW g, NEW h, NEW p, NEW gen, NEW push \in BOOLEAN, NEW listed,
         Trusted(m, g), Aged(m, g, p), ScriptHandles(m, n, g, h, p, gen, push),
         Fed(m, n, g, h, listed), Forgets(m, n) /\ ~push => g.file = "none", Learns(n, h, p)
  PROVE  \/ Learns(m, g, p) /\ h = g
         \/ h.meta = listed /\ h.file = "running"
<1>1. CASE Waits(m, n, g, h, push)
  BY <1>1 DEF Waits, Keeps, Learns, Forgets
<1>2. CASE Launches(m, n, g, h, p)
  BY <1>2 DEF Launches, Learns, Trusted
<1>3. CASE RunsScript(m, n, g, h, p, gen)
  <2>1. ~SameFile(g, h)
    BY <1>3 DEF RunsScript, SameFile, Settles, Aged
  <2> QED  BY <1>3, <2>1 DEF RunsScript, Fed
<1>4. CASE Readies(m, n, g, h, p, TRUE) \/ Breaks(m, n, g, h, gen) \/ Leaves(m, n, g, h)
  BY <1>4 DEF Readies, Breaks, Leaves, Learns
<1> QED  BY <1>1, <1>2, <1>3, <1>4 DEF ScriptHandles

LEMMA SetUpOnceHandled ==
  ASSUME NEW m, NEW n, NEW g, NEW h, NEW p, NEW gen, NEW persistent \in BOOLEAN,
         NEW push \in BOOLEAN, NEW cmd, NEW events, NEW listed, Trusted(m, g),
         SetUp(m, g, p, persistent), Aged(m, g, p), g.fcid \in Nat, p.cid \in Nat,
         ScriptHandles(m, n, g, h, p, gen, push), Fed(m, n, g, h, listed),
         Hears(m, n, g, gen, cmd, events), Emptied(m, persistent),
         Forgets(m, n) /\ ~push => g.file = "none"
  PROVE  SetUp(n, h, p, persistent)
<1>1. Knows(n, p, persistent) => h.file = "ok" /\ (n.state = "creating" => h.fcid # n.cing)
  <2> SUFFICES ASSUME Knows(n, p, persistent)
               PROVE  h.file = "ok" /\ (n.state = "creating" => h.fcid # n.cing)
    OBVIOUS
  <2>1. Knows(m, p, persistent) \/ (Learns(m, g, p) /\ g.file = "ok")
    <3>1. Informed(m, n, g, h, p, gen, persistent, cmd, events)
      BY KnowsOnceHandled
    <3> QED  BY <3>1 DEF Informed
  <2>2. g.file = "ok" /\ (m.state = "creating" /\ n.setup # 0 /\ m.setup # 0 => g.fcid # m.cing)
    BY <2>1 DEF SetUp, Knows, Learns
  <2> QED  BY <2>1, <2>2
        DEF ScriptHandles, Waits, Launches, RunsScript, Readies, Breaks, Leaves, Knows, Keeps,
            Aged, Settles, Forgets, Learns
<1>2. Learns(n, h, p) /\ h.file = "ok" => h.view = h.meta
  <2>1. Learns(n, h, p) => (Learns(m, g, p) /\ h = g) \/ h.file = "running"
    BY LearnsOnceHandled
  <2> QED  BY <2>1 DEF SetUp
<1>3. n.state \in {"createPending", "creating"} /\ ~n.err /\ n.setup = 0 => n.pend = NoNotify
  <2> SUFFICES ASSUME n.state \in {"createPending", "creating"}, ~n.err, n.setup = 0
               PROVE  n.pend = NoNotify
    OBVIOUS
  <2>1. StartsAfresh(m, n, g) \/ m.pend = NoNotify
    <3>1. CASE Waits(m, n, g, h, push) \/ Launches(m, n, g, h, p)
      BY <3>1 DEF Waits, Launches, Forgets, StartsAfresh, SetUp
    <3>2. CASE RunsScript(m, n, g, h, p, gen)
      BY <3>2 DEF RunsScript, StartsAfresh, SetUp
    <3>3. CASE Readies(m, n, g, h, p, TRUE) \/ Breaks(m, n, g, h, gen) \/ Leaves(m, n, g, h)
      BY <3>3 DEF Readies, Breaks, Leaves
    <3> QED  BY <3>1, <3>2, <3>3 DEF ScriptHandles
  <2> QED  BY <2>1 DEF Hears
<1> QED  BY <1>1, <1>2, <1>3 DEF SetUp

LEMMA KnowsOutside ==
  ASSUME NEW m \in Member, NEW g, NEW h, NEW p \in Pod, NEW q, NEW persistent \in BOOLEAN,
         Aged(m, g, p), SetUp(m, g, p, persistent), Happens(g, h, p, q, persistent)
  PROVE  /\ SetUp(m, h, q, persistent)
         /\ Knows(m, q, persistent) => Knows(m, p, persistent) /\ h.view = g.view
         /\ Learns(m, h, q) => Learns(m, g, p) /\ h.meta = g.meta
<1>1. m.conf \in Nat /\ m.cing \in Nat /\ p.cid \in Nat /\ BlankGuest.file = "none"
  BY DEF Member, Pod, BlankGuest
<1>2. CASE h = g /\ q = p
  BY <1>2 DEF SetUp, Knows, Learns
<1>3. CASE p.phase # "up" /\ q.phase = "up" /\ q.cid = p.cid + 1 /\ h = g
  BY <1>1, <1>3 DEF SetUp, Knows, Learns, InForce, Reaches, Aged
<1>4. CASE /\ q.phase \in {"absent", "down"} /\ q.cid = p.cid
           /\ h = IF persistent THEN g ELSE BlankGuest
  BY <1>1, <1>4 DEF SetUp, Knows, Learns, InForce, Reaches
<1>5. CASE /\ q = p /\ g.file = "running" /\ h.file \in {"ok", "fail"} /\ h.fcid = g.fcid
           /\ h.meta = g.meta /\ h.view = IF h.file = "ok" THEN g.meta ELSE g.view
  BY <1>5 DEF SetUp, Knows, Learns
<1> QED  BY <1>2, <1>3, <1>4, <1>5 DEF Happens

-----------------------------------------------------------------------------
(* What the steps of a pass have to say. *)

Active == {"ready", "createPending", "creating"}

\* Those with notifications to be sent are ready, and whoever is active was so when
\* the member pass began.
NotesInv ==
  /\ phase = "deliver" => \A r \in Roles, o \in Ords :
       <<r, o>> \in mail => cr.mem[r][o].state = "ready"
  /\ phase \in {"members", "blocked"} => \A r \in Roles, o \in Ords :
       cr.mem[r][o].state \in Active => snap[r][o] \in Active

LEMMA NotesStep ==
  DiskInv /\ NotesInv /\ [Next]_vars /\ [~BeginPassOverwritten]_vars => NotesInv'
<1> SUFFICES ASSUME DiskInv, NotesInv, [Next]_vars, [~BeginPassOverwritten]_vars
             PROVE  NotesInv'
  OBVIOUS
<1>1. Kinds /\ Inv /\ SnapIsCurrent
  BY DiskStep DEF DiskInv, ListInv
<1>2. CASE FirstPass \/ Begin
  <2>1. phase' \in {"notify", "update"}
    BY <1>2 DEF FirstPass, Begin, BeginPass, BeginPassNoCluster, BeginPassNoSset,
                BeginPassNoService
  <2> QED  BY <2>1 DEF NotesInv
<1>3. Refreshed => \A r \in Roles, o \in Ords : cr'.mem[r][o].state = cr.mem[r][o].state
  BY DEF Refreshed, Refreshes
<1>4. CASE UpdateReadyMembers /\ Refreshed
  <2>1. snap' = States(cr) /\ phase' # "deliver"
    BY <1>1, <1>4 DEF UpdateReadyMembers, SnapIsCurrent
  <2> QED  BY <1>3, <1>4, <2>1 DEF NotesInv, States
<1>5. CASE StartNotify /\ Refreshed
  <2>1. /\ phase' \in {"write", "deliver"}
        /\ \A r \in Roles, o \in Ords : <<r, o>> \in mail' => cr.mem[r][o].state = "ready"
    BY <1>5 DEF StartNotify
  <2> QED  BY <1>3, <1>5, <2>1 DEF NotesInv
<1>6. ASSUME NEW r \in Roles, NEW o \in Ords, Deliver(r, o), Refreshed PROVE NotesInv'
  <2>1. mail' \subseteq mail /\ phase = "deliver" /\ phase' \in {"write", "deliver"}
    BY <1>6 DEF Deliver
  <2> QED  BY <1>3, <1>6, <2>1 DEF NotesInv
<1>10. ASSUME NEW r \in Roles, PanicInRole(r) PROVE NotesInv'
  BY <1>10 DEF PanicInRole, NotesInv
<1>7. CASE (\E r \in Roles : HandleRole(r)) /\ Handled
  <2>1. snap' = snap /\ phase \in {"members", "blocked"} /\ phase' \in {phase, "notify"}
    BY <1>7 DEF HandleRole
  <2>2. \A r \in Roles, o \in Ords :
          cr'.mem[r][o].state \in Active => cr.mem[r][o].state \in Active
    BY <1>7 DEF Handled, Handles, Waits, Launches, RunsScript, HandsOut,
                Readies, Breaks, Leaves, Active
  <2> QED  BY <2>1, <2>2 DEF NotesInv
<1>8. CASE Stored \/ Lost
  BY <1>8 DEF Stored, Lost, NotesInv
<1>9. CASE (Environment \/ UNCHANGED vars) /\ Outside
  <2>1. mail' = mail /\ snap' = snap
    BY <1>9 DEF Environment, ChangeSpec, ChangeConnections, PodStart, PodStop, PodRestart,
                SsetDelete, ScriptEnds, EnvStep, passVars, vars
  <2> QED  BY <1>9, <2>1 DEF Outside, NotesInv
<1> QED  BY <1>1, <1>2, <1>4, <1>5, <1>6, <1>7, <1>8, <1>9, <1>10 DEF Kinds, Refreshing

\* A delivery in which some commands get through and some do not.
DeliversPart ==
  \E r \in Roles, o \in Ords :
    Deliver(r, o) /\ cr'.mem[r][o].pend \notin {NoNotify, cr.mem[r][o].pend}

LEMMA UpdateChanges ==
  ASSUME ListInv, UpdateReadyMembers, NEW r \in Roles, NEW o \in Ords
  PROVE  /\ cr'.mem[r][o] \in {cr.mem[r][o], [cr.mem[r][o] EXCEPT !.cfg = cr.gen]}
         /\ \/ guest'[r][o] = guest[r][o]
            \/ /\ cr.mem[r][o].state = "ready"
               /\ guest'[r][o] = [guest[r][o] EXCEPT !.meta = configmeta]
<1> DEFINE reachable == {i \in Outdated :
                           Reaches(pod[i[1]][i[2]], cr.mem[i[1]][i[2]].conf)}
           new(upd) == [q \in Roles |-> [x \in Ords |->
                          IF <<q, x>> \in upd THEN [cr.mem[q][x] EXCEPT !.cfg = cr.gen]
                                              ELSE cr.mem[q][x]]]
           files(up) == [q \in Roles |-> [x \in Ords |->
                          IF <<q, x>> \in up THEN [guest[q][x] EXCEPT !.meta = configmeta]
                                             ELSE guest[q][x]]]
<1>1. PICK upd \in SUBSET Outdated : \E up \in SUBSET Outdated :
        cr' = [cr EXCEPT !.mem = new(upd)] /\ guest' = files(up)
  <2>1. PICK failing \in SUBSET reachable : \E late \in SUBSET failing :
          /\ cr' = [cr EXCEPT !.mem = new(reachable \ failing)]
          /\ guest' = files((reachable \ failing) \cup late)
    BY Zenon DEF UpdateReadyMembers
  <2>2. PICK late \in SUBSET failing :
          /\ cr' = [cr EXCEPT !.mem = new(reachable \ failing)]
          /\ guest' = files((reachable \ failing) \cup late)
    BY <2>1
  <2>3. /\ reachable \ failing \in SUBSET Outdated
        /\ (reachable \ failing) \cup late \in SUBSET Outdated
    OBVIOUS
  <2> HIDE DEF new, files, reachable
  <2> QED  BY <2>2, <2>3
<1>2. PICK up \in SUBSET Outdated : cr' = [cr EXCEPT !.mem = new(upd)] /\ guest' = files(up)
  BY <1>1
<1> DEFINE m == cr.mem[r][o]
           g == guest[r][o]
<1>3. Inv /\ snap = States(cr)
  BY DEF ListInv, SnapIsCurrent, UpdateReadyMembers
<1>4. cr'.mem[r][o] \in {m, [m EXCEPT !.cfg = cr.gen]}
  BY <1>2, <1>3 DEF Inv, TypeOK, Status
<1>5. guest'[r][o] = IF <<r, o>> \in up THEN [g EXCEPT !.meta = configmeta] ELSE g
  BY <1>2
<1>6. <<r, o>> \in up => m.state = "ready"
  BY <1>3 DEF Outdated, States
<1> QED  BY <1>4, <1>5, <1>6

LEMMA UpdateTells ==
  ASSUME ListInv, UpdateReadyMembers, NEW r \in Roles, NEW o \in Ords
  PROVE  Tells(cr.mem[r][o], cr'.mem[r][o], guest[r][o], guest'[r][o], ~Transitional)
<1> DEFINE m == cr.mem[r][o]
           g == guest[r][o]
<1>1. m \in Member /\ g \in Guest
  BY DEF ListInv, Inv, TypeOK, Status
<1>2. /\ LET n == [m EXCEPT !.cfg = cr.gen] IN n.pend = m.pend /\ n.setup = m.setup
      /\ \A x : [g EXCEPT !.meta = x].view = g.view
  BY <1>1 DEF Member, Guest
<1>3. /\ cr'.mem[r][o] \in {m, [m EXCEPT !.cfg = cr.gen]}
      /\ \/ guest'[r][o] = g
         \/ m.state = "ready" /\ guest'[r][o] = [g EXCEPT !.meta = configmeta]
  BY UpdateChanges
<1> HIDE DEF m, g
<1>4. Tells(m, cr'.mem[r][o], g, guest'[r][o], ~Transitional)
  BY <1>2, <1>3 DEF Tells
<1> QED  BY <1>4 DEF m, g

LEMMA NotifyTells ==
  ASSUME Inv, StartNotify, NEW r \in Roles, NEW o \in Ords
  PROVE  Tells(cr.mem[r][o], cr'.mem[r][o], guest[r][o], guest'[r][o], ~Transitional)
<1> DEFINE m == cr.mem[r][o]
           n == cr'.mem[r][o]
<1>1. m \in Member /\ guest' = guest
  BY DEF Inv, TypeOK, Status, StartNotify
<1>2. n = m \/ (n = [m EXCEPT !.setup = m.cfg] /\ m.state = "ready" /\ ~Transitional)
  BY DEF StartNotify, Inv, TypeOK, Status
<1>3. [m EXCEPT !.setup = m.cfg].pend = m.pend
  BY <1>1 DEF Member
<1> HIDE DEF m, n
<1>4. Tells(m, n, guest[r][o], guest'[r][o], ~Transitional)
  BY <1>1, <1>2, <1>3 DEF Tells
<1> QED  BY <1>4 DEF m, n

LEMMA IntervalSize ==
  ASSUME NEW n \in Nat
  PROVE  IsFiniteSet(1 .. n) /\ Cardinality(1 .. n) = n
<1>1. 1 \in Int /\ n \in Int /\ n - 1 + 1 = n /\ (1 > n <=> n = 0)
  OBVIOUS
<1> QED  BY <1>1, FS_Interval

\* A queue of which all is kept, or nothing.
LEMMA KeptAll ==
  ASSUME NEW pend \in Seq(Notify), NEW kept \in SUBSET DOMAIN pend,
         NEW s \in [1 .. Cardinality(kept) -> kept],
         [i \in DOMAIN s |-> pend[s[i]]] \in {NoNotify, pend}
  PROVE  \/ kept = {} /\ [i \in DOMAIN s |-> pend[s[i]]] = NoNotify
         \/ kept = DOMAIN pend /\ [i \in DOMAIN s |-> pend[s[i]]] = pend
<1> DEFINE left == [i \in DOMAIN s |-> pend[s[i]]]
           n == Len(pend)
<1>1. n \in Nat /\ DOMAIN pend = 1 .. n
  OBVIOUS
<1>2. IsFiniteSet(1 .. n) /\ Cardinality(1 .. n) = n
  BY <1>1, IntervalSize
<1>3. IsFiniteSet(kept) /\ Cardinality(kept) \in Nat
  BY <1>1, <1>2, FS_Subset, FS_CardinalityType
<1>4. DOMAIN left = 1 .. Cardinality(kept)
  OBVIOUS
<1>5. CASE left = NoNotify
  <2>1. 1 .. Cardinality(kept) = {}
    BY <1>4, <1>5 DEF NoNotify
  <2>2. Cardinality(kept) = 0
    BY <1>3, <2>1
  <2> QED  BY <1>3, <1>5, <2>2, FS_EmptySet
<1>6. CASE left = pend
  <2>1. 1 .. Cardinality(kept) = 1 .. n
    BY <1>1, <1>4, <1>6
  <2> HIDE DEF n
  <2>2. Cardinality(kept) = n
    <3> DEFINE k == Cardinality(kept)
    <3>1. k \in Nat /\ 1 .. k = 1 .. n
      BY <1>3, <2>1
    <3> HIDE DEF k
    <3>2. k = n
      <4>1. k > n => k \in 1 .. k /\ k \notin 1 .. n
        BY <1>1, <3>1
      <4>2. n > k => n \in 1 .. n /\ n \notin 1 .. k
        BY <1>1, <3>1
      <4> QED  BY <1>1, <3>1, <4>1, <4>2
    <3> QED  BY <3>2 DEF k
  <2>3. kept = 1 .. n
    BY <1>1, <1>2, <2>2, FS_Subset
  <2> QED  BY <1>1, <1>6, <2>3
<1> QED  BY <1>5, <1>6

LEMMA ToldNone == ASSUME NEW view, NEW pend PROVE Told(view, pend, {}) = view
<1>1. UNION {pend[i].nodes : i \in {}} = {}
  OBVIOUS
<1> QED  BY <1>1 DEF Told

LEMMA DeliverTells ==
  ASSUME Inv, NotesInv, NEW r \in Roles, NEW o \in Ords, Deliver(r, o), ~DeliversPart,
         NEW q \in Roles, NEW x \in Ords
  PROVE  Tells(cr.mem[q][x], cr'.mem[q][x], guest[q][x], guest'[q][x], ~Transitional)
<1> DEFINE m == cr.mem[r][o]
           all == DOMAIN m.pend
           left(s) == [i \in DOMAIN s |-> m.pend[s[i]]]
           setup(kept) == IF kept # all /\ ~Transitional THEN m.cfg ELSE m.setup
           new(s, kept) == [m EXCEPT !.pend = left(s), !.setup = setup(kept)]
           told(kept) == [guest[r][o] EXCEPT !.view = Told(@, m.pend, all \ kept)]
<1> PICK kept \in SUBSET all : \E s \in [1 .. Cardinality(kept) -> kept] :
      /\ cr' = [cr EXCEPT !.mem[r][o] = new(s, kept)]
      /\ guest' = [guest EXCEPT ![r][o] = told(kept)]
  BY DEF Deliver
<1>1. PICK s \in [1 .. Cardinality(kept) -> kept] :
        /\ cr' = [cr EXCEPT !.mem[r][o] = new(s, kept)]
        /\ guest' = [guest EXCEPT ![r][o] = told(kept)]
  OBVIOUS
<1>2. m \in Member /\ guest[r][o] \in Guest
  BY DEF Inv, TypeOK, Status
<1>3. /\ new(s, kept).pend = left(s) /\ new(s, kept).setup = setup(kept)
      /\ told(kept).view = Told(guest[r][o].view, m.pend, all \ kept)
      /\ told(kept).meta = guest[r][o].meta
  <2> HIDE DEF left, setup, m
  <2> QED  BY <1>2 DEF Member, Guest
<1> HIDE DEF new, told
<1>4. /\ cr'.mem[q][x] = IF q = r /\ x = o THEN new(s, kept) ELSE cr.mem[q][x]
      /\ guest'[q][x] = IF q = r /\ x = o THEN told(kept) ELSE guest[q][x]
  BY <1>1 DEF Inv, TypeOK, Status
<1>5. CASE ~(q = r /\ x = o)
  BY <1>4, <1>5 DEF Tells
<1>6. CASE q = r /\ x = o
  <2>1. m.state = "ready"
    BY DEF NotesInv, Deliver
  <2>2. left(s) \in {NoNotify, m.pend}
    <3>1. cr'.mem[r][o].pend = left(s)
      BY <1>3, <1>4, <1>6
    <3> QED  BY <3>1 DEF DeliversPart
  <2>3. m.pend \in Seq(Notify)
    BY <1>2 DEF Member
  <2>4. \/ kept = {} /\ left(s) = NoNotify
        \/ kept = all /\ left(s) = m.pend
    <3> HIDE DEF m
    <3> QED  BY <2>2, <2>3, KeptAll
  <2>5. setup(kept) # m.setup => ~Transitional
    OBVIOUS
  <2>6. kept = all => /\ setup(kept) = m.setup
                      /\ Told(guest[r][o].view, m.pend, all \ kept) = guest[r][o].view
    <3>1. kept = all => all \ kept = {}
      OBVIOUS
    <3> QED  BY <3>1, ToldNone
  <2>7. kept = {} => all \ kept = all
    OBVIOUS
  <2> DEFINE view == guest[r][o].view
  <2> HIDE DEF left, setup, all, view
  <2>8. CASE kept = {} /\ left(s) = NoNotify
    BY <1>3, <1>4, <1>6, <2>1, <2>5, <2>7, <2>8 DEF Tells, all
  <2>9. CASE kept = all /\ left(s) = m.pend
    BY <1>3, <1>4, <1>6, <2>1, <2>6, <2>9 DEF Tells
  <2> QED  BY <2>4, <2>8, <2>9
<1> QED  BY <1>5, <1>6

-----------------------------------------------------------------------------
(* What the handling of a role gives rise to. *)

NodeOf(st, r, o) == <<r, st.name[r], o>>

\* A setup that is retried, or whose script has run in this very container, leaves
\* nothing queued.
LEMMA ConfiguredHears ==
  ASSUME NEW m \in Member, m.state = "creating", NEW g \in Guest, NEW r, NEW p, NEW gen,
         NEW push \in BOOLEAN, NEW fault
  PROVE  LET s == Configured(m, r, p, g, gen, push, fault)
         IN  /\ s.conf = m.conf
             /\ ~s.err =>
                  s.pend = IF m.err \/ (s.state = "ready" /\ g.file = "ok" /\ g.fcid = m.cing)
                             THEN NoNotify ELSE m.pend
<1> DEFINE s == Configured(m, r, p, g, gen, push, fault)
           retried == Retried(m)
           pushed  == [retried EXCEPT !.cfg = gen]
           caught  == CaughtUp(m, g)
<1>1. /\ retried \in Member /\ retried.conf = m.conf /\ retried.state = "creating"
      /\ retried.pend = IF m.err THEN NoNotify ELSE m.pend
  <2>1. retried \in Member
    BY RetriedSafe
  <2> QED  BY <2>1 DEF Retried, Member
<1>2. /\ pushed.conf = m.conf /\ pushed.pend = retried.pend /\ pushed.state = "creating"
      /\ LET x == [pushed EXCEPT !.state = "ready"]
         IN  x.state = "ready" /\ x.conf = m.conf /\ x.pend = pushed.pend
      /\ Failed(pushed).err /\ Failed(pushed).conf = m.conf
      /\ Failed(retried).err /\ Failed(retried).conf = m.conf
  <2> HIDE DEF retried
  <2> QED  BY <1>1 DEF Failed, Member
<1>3. /\ caught \in Member /\ caught.conf = m.conf
      /\ caught.pend = IF g.fcid = m.cing THEN NoNotify ELSE m.pend
  <2>1. caught \in Member
    BY CaughtUpSafe
  <2> QED  BY <2>1 DEF CaughtUp, Member
<1> HIDE DEF retried, pushed, caught
<1>4. /\ Failed(caught).err /\ Failed(caught).conf = m.conf
      /\ LET x == [caught EXCEPT !.state = "ready"]
         IN  x.state = "ready" /\ x.conf = m.conf /\ x.pend = caught.pend
  BY <1>3 DEF Failed, Member
<1>5. \/ s \in {Failed(retried), Failed(pushed), retried, pushed}
      \/ (m.err \/ g.file # "ok") /\ s = [pushed EXCEPT !.state = "ready"]
      \/ ~m.err /\ s \in {m, Failed(caught)}
      \/ ~m.err /\ g.file = "ok" /\ s = [caught EXCEPT !.state = "ready"]
  <2>1. Settles(m, g) =>
          /\ ~m.err
          /\ \/ Reread(m, g, fault) \in {m, Failed(caught)}
             \/ g.file = "ok" /\ Reread(m, g, fault) = [caught EXCEPT !.state = "ready"]
    BY DEF Settles, Reread, caught
  <2>2. ~Settles(m, g) => m.err \/ g.file # "ok"
    BY DEF Settles
  <2>3. Uploads(m, p, g, push, fault) => ~Settles(m, g)
    BY DEF Uploads
  <2> QED  BY <2>1, <2>2, <2>3 DEF Configured, retried, pushed
<1> HIDE DEF s
<1> QED  BY <1>1, <1>2, <1>3, <1>4, <1>5 DEF s

LEMMA UnpackagedConf ==
  ASSUME NEW m \in Member, NEW fault PROVE Unpackaged(m, fault).conf = m.conf
BY DEF Unpackaged, Failed, Member

LEMMA QueuedPend ==
  ASSUME NEW m \in Member, NEW q, NEW s, NEW op, NEW nodes
  PROVE  LET n == Queued(q, m, s, op, nodes)
             c == Concluded(n)
         IN  /\ n.pend = IF nodes # {} /\ Informs(q, m, s) /\ op \in EventList[q]
                           THEN Append(m.pend, [op |-> op, nodes |-> nodes]) ELSE m.pend
             /\ c.pend = n.pend
<1> DEFINE n == Queued(q, m, s, op, nodes)
           more == Append(m.pend, [op |-> op, nodes |-> nodes])
<1> HIDE DEF more
<1>1. ASSUME NEW x \in {m, [m EXCEPT !.pend = more]}
      PROVE  [x EXCEPT !.conf = x.cing, !.cing = 0].pend = x.pend
  BY DEF Member
<1>2. n \in {m, [m EXCEPT !.pend = more]}
  BY DEF Queued, more
<1>3. n.pend = IF nodes # {} /\ Informs(q, m, s) /\ op \in EventList[q] THEN more ELSE m.pend
  BY DEF Queued, Member, more
<1> HIDE DEF n
<1>4. Concluded(n).pend = n.pend
  BY <1>1, <1>2 DEF Concluded
<1> QED  BY <1>3, <1>4 DEF n, more

\* What the handling of role r leads to, and the command queued for whoever has been
\* set up: it names those who arrived, or those who are about to leave when nobody
\* of the role is being created.
Announces(cmd) ==
  /\ \A q \in Roles, o \in Ords :
       LET m == cr.mem[q][o]
           n == cr'.mem[q][o]
       IN  /\ q \in Packaged => Hears(m, n, guest[q][o], cr.gen, cmd, EventList[q])
           /\ m.conf = 0 /\ n.conf # 0 =>
                cmd.op = "addnodes" /\ NodeOf(cr, q, o) \in cmd.nodes
           /\ m.state = "deletePending" /\ n.state # "deletePending" =>
                \/ With(cr.mem[q], {"creating"}) # {}
                \/ cmd.op = "delnodes" /\ NodeOf(cr, q, o) \in cmd.nodes
           /\ n.state = "creating" /\ m.state # "creating" =>
                With(cr'.mem[q], {"deletePending"}) = {}
  /\ \A node \in cmd.nodes : \E q \in Roles, o \in Ords :
       /\ node = NodeOf(cr, q, o)
       /\ cr.mem[q][o].state = IF cmd.op = "addnodes" THEN "creating" ELSE "deletePending"

LEMMA HandleRoleAnnounces ==
  ASSUME ListInv, NotesInv, NEW r \in Roles, HandleRole(r), Handled
  PROVE  \E cmd \in Notify : Announces(cmd)
<1> DEFINE creating == In(r, {"creating"})
           set(f, cleaned) ==
             [o \in Ords |->
               IF o \in creating THEN Setup(r, o, f[o])
               ELSE IF phase = "blocked" THEN cr.mem[r][o]
               ELSE IF snap[r][o] = "createPending" THEN Launched(r, o)
               ELSE IF snap[r][o] \in {"deletePending", "deleting"}
                 THEN Removed(r, o, cleaned)
               ELSE cr.mem[r][o]]
           added(f, cleaned) == Named(r, Arrived(r, set(f, cleaned)))
           dropped == IF phase = "members" /\ creating = {}
                        THEN Named(r, Departed(r)) ELSE {}
           op == IF creating # {} THEN "addnodes" ELSE "delnodes"
           told(f, cleaned, q, o) ==
             Queued(q, IF q = r THEN set(f, cleaned)[o] ELSE cr.mem[q][o], snap[q][o], op,
                    added(f, cleaned) \cup dropped)
           new(f, cleaned) ==
             [q \in Roles |-> [o \in Ords |->
               IF q = r /\ o \in creating THEN Concluded(told(f, cleaned, q, o))
               ELSE told(f, cleaned, q, o)]]
<1>1. PICK f \in FaultChoices(r), cleaned \in SUBSET Cleanable(r) :
        cr' = [cr EXCEPT !.mem = new(f, cleaned)]
  BY DEF HandleRole
<1>2. r \in todo /\ phase \in {"members", "blocked"}
  BY DEF HandleRole
<1>3. /\ Inv /\ \A q \in Roles, o \in Ords : cr.mem[q][o] \in Member /\ guest[q][o] \in Guest
      /\ \A o \in Ords : snap[r][o] = cr.mem[r][o].state
      /\ \A q \in Roles : cr.name[q] \in Nat
  BY <1>2 DEF ListInv, Inv, TypeOK, Status, SnapIsCurrent
<1>17. Departed(r) = In(r, {"deletePending"})
  BY <1>3 DEF Departed, In
<1>4. \A o \in Ords : set(f, cleaned)[o] \in Member
  BY <1>3, SetupSafe, LaunchedSafe, RemovedSafe
<1>5. \A q \in Roles, o \in Ords :
        cr'.mem[q][o] = IF q = r /\ o \in creating THEN Concluded(told(f, cleaned, q, o))
                        ELSE told(f, cleaned, q, o)
  <2>1. cr'.mem = new(f, cleaned)
    BY <1>1, <1>3 DEF Inv, TypeOK, Status
  <2> HIDE DEF told, creating
  <2> QED  BY <2>1
<1> DEFINE nodes == added(f, cleaned) \cup dropped
           cmd == [op |-> op, nodes |-> nodes]
           was(q, o) == IF q = r THEN set(f, cleaned)[o] ELSE cr.mem[q][o]
<1>6. cmd \in Notify /\ cmd.op = op /\ cmd.nodes = nodes
  <2>1. Arrived(r, set(f, cleaned)) \subseteq Ords /\ Departed(r) \subseteq Ords
    BY DEF Arrived, Departed, In
  <2>2. \A S \in SUBSET Ords : Named(r, S) \subseteq Node
    BY <1>3 DEF Named, Node
  <2> HIDE DEF set, creating
  <2>3. nodes \subseteq Node
    BY <2>1, <2>2
  <2> HIDE DEF nodes
  <2> QED  BY <2>3 DEF Notify

\* The members of the role before the notifications.
<1>7. ASSUME NEW o \in Ords, o \in creating
      PROVE  LET m == cr.mem[r][o]
                 s == was(r, o)
             IN  /\ m.state = "creating" /\ s.conf = m.conf
                 /\ r \in Packaged /\ ~s.err =>
                      s.pend = IF \/ m.err
                                  \/ /\ s.state = "ready"
                                     /\ guest[r][o].file = "ok" /\ guest[r][o].fcid = m.cing
                                 THEN NoNotify ELSE m.pend
  <2>1. cr.mem[r][o].state = "creating" /\ was(r, o) = Setup(r, o, f[o])
    BY <1>3, <1>7 DEF In
  <2> DEFINE m == cr.mem[r][o]
             g == guest[r][o]
             s == was(r, o)
             push == phase = "members"
  <2>2. IF r \in Packaged THEN s = Configured(m, r, pod[r][o], g, cr.gen, push, f[o])
        ELSE s = Unpackaged(m, f[o])
    <3> HIDE DEF was
    <3> QED  BY <2>1 DEF Setup
  <2>3. m \in Member /\ m.state = "creating" /\ g \in Guest /\ push \in BOOLEAN
    BY <1>3, <2>1
  <2> HIDE DEF m, g, s, push, set, creating
  <2>4. CASE r \in Packaged
    BY <2>2, <2>3, <2>4, ConfiguredHears DEF m, g, s
  <2>5. CASE r \notin Packaged
    BY <2>2, <2>3, <2>5, UnpackagedConf DEF m, g, s
  <2> QED  BY <2>4, <2>5
<1>8. ASSUME NEW q \in Roles, NEW o \in Ords, ~(q = r /\ o \in creating)
      PROVE  LET m == cr.mem[q][o]
                 s == was(q, o)
             IN  /\ q = r => m.state # "creating"
                 /\ s.conf = m.conf /\ s.pend = m.pend /\ s.err = m.err
                 /\ q = r /\ m.state = "deletePending" =>
                      (s.state = "deletePending" <=> phase = "blocked")
                 /\ s.state = "creating" /\ m.state # "creating" => q = r /\ phase = "members"
                 /\ q # r => s.state = m.state
  <2> DEFINE m == cr.mem[q][o]
  <2>1. CASE q # r
    BY <2>1
  <2>2. CASE q = r
    <3>1. m \in Member /\ m.state = snap[r][o] /\ m.state # "creating"
      BY <1>3, <1>8, <2>2 DEF In
    <3>2. \/ was(q, o) = m /\ (m.state = "deletePending" => phase = "blocked")
          \/ was(q, o) = Launched(r, o) /\ m.state = "createPending" /\ phase = "members"
          \/ was(q, o) = Removed(r, o, cleaned) /\ phase = "members"
             /\ m.state \in {"deletePending", "deleting"}
      BY <1>2, <1>8, <2>2, <3>1
    <3>3. LET x == [m EXCEPT !.state = "creating", !.cing = pod[r][o].cid]
          IN  x.conf = m.conf /\ x.pend = m.pend /\ x.err = m.err
      BY <3>1 DEF Member
    <3>4. \A st : LET x == [m EXCEPT !.state = st]
                  IN  x.conf = m.conf /\ x.pend = m.pend /\ x.err = m.err /\ x.state = st
      BY <3>1 DEF Member
    <3>5. Launched(r, o) \in {m, [m EXCEPT !.state = "creating", !.cing = pod[r][o].cid]}
      BY <2>2 DEF Launched
    <3>6. m.state \in {"deletePending", "deleting"} =>
            Removed(r, o, cleaned) \in
              {[m EXCEPT !.state = "gone"], [m EXCEPT !.state = "deleting"]}
      <4> DEFINE st == IF o \in cleaned THEN "gone"
                       ELSE IF snap[r][o] = "deletePending" THEN "deleting" ELSE m.state
      <4>1. Removed(r, o, cleaned) = [m EXCEPT !.state = st]
        BY <2>2 DEF Removed
      <4>2. m.state \in {"deletePending", "deleting"} => st \in {"gone", "deleting"}
        BY <3>1
      <4> HIDE DEF m, st
      <4> QED  BY <4>1, <4>2
    <3> DEFINE s == was(q, o)
    <3> HIDE DEF was
    <3>7. \/ s = m /\ (m.state = "deletePending" => phase = "blocked")
          \/ /\ s.conf = m.conf /\ s.pend = m.pend /\ s.err = m.err /\ phase = "members"
             /\ \/ m.state = "createPending" /\ s.state = "creating"
                \/ m.state \in {"deletePending", "deleting"} /\ s.state \in {"gone", "deleting"}
      <4>1. CASE s = m /\ (m.state = "deletePending" => phase = "blocked")
        BY <4>1
      <4>2. CASE s = Launched(r, o) /\ m.state = "createPending" /\ phase = "members"
        <5>1. [m EXCEPT !.state = "creating", !.cing = pod[r][o].cid].state = "creating"
          BY <3>1 DEF Member
        <5> HIDE DEF m, s
        <5> QED  BY <3>3, <3>5, <4>2, <5>1
      <4>3. CASE /\ s = Removed(r, o, cleaned) /\ phase = "members"
                 /\ m.state \in {"deletePending", "deleting"}
        <5> HIDE DEF m, s
        <5> QED  BY <3>4, <3>6, <4>3
      <4> QED  BY <3>2, <4>1, <4>2, <4>3
    <3> HIDE DEF m, s
    <3>8. m.state # "creating" /\ phase \in {"members", "blocked"}
      BY <1>2, <3>1
    <3> QED  BY <2>2, <3>7, <3>8 DEF m, s
  <2> QED  BY <2>1, <2>2
<1>9. ASSUME NEW q \in Roles, NEW o \in Ords
      PROVE  LET n == cr'.mem[q][o]
                 s == was(q, o)
             IN  /\ s \in Member /\ n.state = s.state /\ n.err = s.err /\ n.setup = s.setup
                 /\ n.pend = IF nodes # {} /\ Informs(q, s, snap[q][o]) /\ op \in EventList[q]
                               THEN Append(s.pend, cmd) ELSE s.pend
                 /\ n.conf # s.conf => q = r /\ o \in creating /\ s.state # "creating"
  <2>1. was(q, o) \in Member
    BY <1>3, <1>4
  <2>2. told(f, cleaned, q, o) = Queued(q, was(q, o), snap[q][o], op, nodes)
    OBVIOUS
  <2>3. cr'.mem[q][o] = IF q = r /\ o \in creating THEN Concluded(told(f, cleaned, q, o))
                        ELSE told(f, cleaned, q, o)
    BY <1>5
  <2> DEFINE s == was(q, o)
             n == Queued(q, s, snap[q][o], op, nodes)
             c == Concluded(n)
             more == Append(s.pend, cmd)
  <2> HIDE DEF s, op, nodes, told, creating
  <2>4. /\ Keeps(s, n) /\ n.state = s.state /\ n.err = s.err /\ n.setup = s.setup
        /\ c.state = s.state /\ c.err = s.err /\ c.setup = s.setup
        /\ s.state = "creating" => Keeps(s, c)
    BY <2>1, QueuedKeeps DEF s
  <2>5. /\ n.pend = IF nodes # {} /\ Informs(q, s, snap[q][o]) /\ op \in EventList[q]
                      THEN more ELSE s.pend
        /\ c.pend = n.pend
    BY <2>1, QueuedPend DEF s
  <2>6. cr'.mem[q][o] = IF q = r /\ o \in creating THEN c ELSE n
    BY <2>2, <2>3 DEF s
  <2> HIDE DEF n, c, more
  <2> QED  BY <2>1, <2>4, <2>5, <2>6 DEF Keeps, s, more
<1> HIDE DEF was
<1>16. \A q \in Roles, o \in Ords :
         cr'.mem[q][o].state = was(q, o).state /\ cr'.mem[q][o].err = was(q, o).err
  <2> HIDE DEF nodes, cmd, op
  <2> QED  BY <1>9

\* What the command says.
<1>10. ASSUME NEW node \in cmd.nodes
       PROVE  \E q \in Roles, o \in Ords :
                /\ node = NodeOf(cr, q, o)
                /\ cr.mem[q][o].state =
                     IF cmd.op = "addnodes" THEN "creating" ELSE "deletePending"
  <2>1. \A o \in Ords : node = <<r, cr.name[r], o>> => node = NodeOf(cr, r, o)
    BY DEF NodeOf
  <2>2. CASE creating # {}
    <3>1. node \in added(f, cleaned) /\ op = "addnodes"
      BY <1>6, <2>2
    <3>2. PICK o \in creating : node = <<r, cr.name[r], o>>
      BY <3>1 DEF Named, Arrived
    <3>3. o \in Ords /\ cr.mem[r][o].state = "creating"
      BY <1>3 DEF In
    <3> QED  BY <1>6, <2>1, <3>1, <3>2, <3>3
  <2>3. CASE creating = {}
    <3>1. node \in dropped /\ op = "delnodes"
      BY <1>6, <2>3 DEF Arrived, Named
    <3>2. PICK o \in Departed(r) : node = <<r, cr.name[r], o>>
      BY <3>1 DEF Named
    <3>3. o \in Ords /\ cr.mem[r][o].state = "deletePending"
      BY <1>3, <1>17 DEF In
    <3> QED  BY <1>6, <2>1, <3>1, <3>2, <3>3
  <2> QED  BY <2>2, <2>3
<1>11. ASSUME NEW q \in Packaged, NEW o \in Ords
       PROVE  Hears(cr.mem[q][o], cr'.mem[q][o], guest[q][o], cr.gen, cmd, EventList[q])
  <2> DEFINE m == cr.mem[q][o]
             n == cr'.mem[q][o]
             g == guest[q][o]
             s == was(q, o)
             more(old) == Append(old, cmd)
             none == nodes = {} \/ op \notin EventList[q] \/ n.setup \in {0, cr.gen}
  <2> SUFFICES ASSUME n.state \in Active, ~n.err
               PROVE  n.pend = IF none THEN IF StartsAfresh(m, n, g) THEN NoNotify ELSE m.pend
                               ELSE more(IF StartsAfresh(m, n, g) THEN NoNotify ELSE m.pend)
    BY <1>6 DEF Hears, Asks, Active
  <2>1. q \in Roles
    BY RoleKinds
  <2>2. m.state \in Active
    BY <2>1 DEF Handled, Handles, Waits, Launches, RunsScript, HandsOut,
                   Readies, Breaks, Leaves, Active
  <2>3. snap[q][o] \in Active
    BY <1>2, <2>1, <2>2 DEF NotesInv
  <2>4. Informs(q, s, snap[q][o]) <=> s.setup \notin {0, cr.gen}
    BY <2>3 DEF Informs, Active
  <2>5. /\ n.state = s.state /\ n.err = s.err /\ n.setup = s.setup
        /\ n.pend = IF nodes # {} /\ Informs(q, s, snap[q][o]) /\ op \in EventList[q]
                      THEN more(s.pend) ELSE s.pend
    <3> HIDE DEF nodes, cmd, op
    <3> QED  BY <1>9, <2>1
  <2>6. s.pend = IF StartsAfresh(m, n, g) THEN NoNotify ELSE m.pend
    <3>1. CASE q = r /\ o \in creating
      BY <1>7, <2>1, <2>5, <3>1 DEF StartsAfresh
    <3>2. CASE ~(q = r /\ o \in creating)
      BY <1>8, <2>1, <2>5, <3>2 DEF StartsAfresh
    <3> QED  BY <3>1, <3>2
  <2> HIDE DEF m, n, g, s, more, nodes, op
  <2> QED  BY <2>4, <2>5, <2>6
<1>12. ASSUME NEW q \in Roles, NEW o \in Ords, cr.mem[q][o].conf = 0, cr'.mem[q][o].conf # 0
       PROVE  cmd.op = "addnodes" /\ NodeOf(cr, q, o) \in cmd.nodes
  <2>1. was(q, o).conf = 0
    BY <1>7, <1>8, <1>12
  <2>2. q = r /\ o \in creating /\ was(q, o).state # "creating"
    BY <1>9, <1>12, <2>1
  <2>3. o \in Arrived(r, set(f, cleaned))
    BY <2>1, <2>2 DEF Arrived, was
  <2>4. NodeOf(cr, q, o) \in added(f, cleaned)
    BY <2>2, <2>3 DEF Named, NodeOf
  <2> QED  BY <1>6, <2>2, <2>4
<1>13. ASSUME NEW q \in Roles, NEW o \in Ords, cr.mem[q][o].state = "deletePending",
              cr'.mem[q][o].state # "deletePending"
       PROVE  \/ With(cr.mem[q], {"creating"}) # {}
              \/ cmd.op = "delnodes" /\ NodeOf(cr, q, o) \in cmd.nodes
  <2>1. ~(q = r /\ o \in creating) /\ was(q, o).state # "deletePending"
    BY <1>7, <1>9, <1>13
  <2>2. q = r /\ phase = "members"
    BY <1>2, <1>8, <1>13, <2>1
  <2>3. With(cr.mem[r], {"creating"}) = creating
    BY <1>3 DEF With, In
  <2>4. creating = {} => NodeOf(cr, q, o) \in dropped /\ op = "delnodes"
    BY <1>3, <1>13, <1>17, <2>2 DEF In, Named, NodeOf
  <2> QED  BY <1>6, <2>2, <2>3, <2>4
<1>14. ASSUME NEW q \in Roles, NEW o \in Ords, cr'.mem[q][o].state = "creating",
              cr.mem[q][o].state # "creating"
       PROVE  With(cr'.mem[q], {"deletePending"}) = {}
  <2>1. q = r /\ phase = "members"
    <3>1. ~(q = r /\ o \in creating) /\ was(q, o).state = "creating"
      BY <1>7, <1>14, <1>16
    <3> HIDE DEF creating
    <3> QED  BY <1>8, <1>14, <3>1
  <2>2. ASSUME NEW x \in Ords PROVE cr'.mem[q][x].state # "deletePending"
    <3>1. cr.mem[q][x].state # "deletePending" => cr'.mem[q][x].state # "deletePending"
      BY DEF Handled, Handles, Waits, Launches, RunsScript, HandsOut, Readies, Breaks,
             Leaves
    <3>2. cr.mem[q][x].state = "deletePending" => ~(q = r /\ x \in creating)
      BY <1>7, <2>1
    <3>3. cr.mem[q][x].state = "deletePending" => was(q, x).state # "deletePending"
      <4> HIDE DEF creating
      <4> QED  BY <1>8, <2>1, <3>2
    <3> QED  BY <1>16, <3>1, <3>3
  <2> QED  BY <2>2 DEF With
<1>15. Announces(cmd)
  <2> HIDE DEF cmd
  <2> QED  BY <1>10, <1>11, <1>12, <1>13, <1>14 DEF Announces
<1> QED  BY <1>6, <1>15

-----------------------------------------------------------------------------
(* Members whose script is never run. *)

\* Without a script there is no configure.status file, no generation of a setup, and
\* nothing is ever queued.
Untracked(m, g) ==
  /\ g.file = "none"
  /\ m.state = "ready" => ~m.err
  /\ m.state = "configError" => m.err
  /\ m.state \in Active /\ ~m.err => m.setup = 0 /\ m.pend = NoNotify

UntrackedInv ==
  /\ TrackInv
  /\ NotesInv
  /\ \A r \in Packaged \ Scripted, o \in Ords :
       /\ stat.mem[r][o].state = "ready" => stat.mem[r][o].setup = 0
       /\ Untracked(cr.mem[r][o], guest[r][o])

LEMMA UntrackedOnceBegun ==
  ASSUME NEW m, NEW n, NEW g, NEW h, NEW p, NEW q, NEW persistent \in BOOLEAN,
         Untracked(m, g), Begins(m, n, p, persistent), Swept(g, h, p, q)
  PROVE  Untracked(n, h)
<1>1. /\ NewMember.state = "createPending" /\ NewMember.setup = 0
      /\ NewMember.pend = NoNotify /\ BlankGuest.file = "none"
  BY DEF NewMember, NoMember, BlankGuest
<1>2. h.file = "none"
  BY <1>1 DEF Untracked, Swept
<1> QED  BY <1>1, <1>2 DEF Untracked, Begins, Active

LEMMA RefreshedUntold ==
  ASSUME ListInv, Refreshing, NEW r \in Roles, NEW o \in Ords,
         cr.mem[r][o].setup = 0, cr.mem[r][o].pend = NoNotify
  PROVE  cr'.mem[r][o].setup = 0 /\ cr'.mem[r][o].pend = NoNotify
<1> DEFINE m == cr.mem[r][o]
<1>1. m \in Member /\ Inv
  BY DEF ListInv, Inv, TypeOK, Status
<1>2. CASE UpdateReadyMembers
  <2>1. \A x : LET n == [m EXCEPT !.cfg = x] IN n.setup = m.setup /\ n.pend = m.pend
    BY <1>1 DEF Member
  <2>2. cr'.mem[r][o] \in {m, [m EXCEPT !.cfg = cr.gen]}
    BY <1>2, UpdateChanges
  <2> QED  BY <2>1, <2>2
<1>3. CASE StartNotify
  BY <1>1, <1>3 DEF StartNotify, Inv, TypeOK, Status
<1>4. CASE \E q \in Roles : PanicInRole(q)
  BY <1>4 DEF PanicInRole
<1>5. ASSUME NEW q \in Roles, NEW x \in Ords, Deliver(q, x)
      PROVE  cr'.mem[r][o].setup = 0 /\ cr'.mem[r][o].pend = NoNotify
  <2> DEFINE all == DOMAIN cr.mem[q][x].pend
             left(s) == [i \in DOMAIN s |-> cr.mem[q][x].pend[s[i]]]
             setup(kept) == IF kept # all /\ ~Transitional THEN cr.mem[q][x].cfg
                            ELSE cr.mem[q][x].setup
             new(s, kept) == [cr.mem[q][x] EXCEPT !.pend = left(s), !.setup = setup(kept)]
  <2>1. PICK kept \in SUBSET all : \E s \in [1 .. Cardinality(kept) -> kept] :
          cr' = [cr EXCEPT !.mem[q][x] = new(s, kept)]
    BY <1>5 DEF Deliver
  <2>2. PICK s \in [1 .. Cardinality(kept) -> kept] :
          cr' = [cr EXCEPT !.mem[q][x] = new(s, kept)]
    BY <2>1
  <2>3. CASE q = r /\ x = o
    <3>1. all = {} /\ kept = {}
      BY <2>3 DEF NoNotify
    <3>2. setup(kept) = 0
      BY <2>3, <3>1
    <3>3. left(s) = NoNotify
      <4>1. Cardinality(kept) = 0
        BY <3>1, FS_EmptySet
      <4>2. DOMAIN s = {}
        BY <4>1
      <4> QED  BY <4>2 DEF NoNotify
    <3>4. new(s, kept).setup = setup(kept) /\ new(s, kept).pend = left(s)
      <4> HIDE DEF setup, left
      <4> QED  BY <1>1, <2>3 DEF Member
    <3>5. cr'.mem[r][o] = new(s, kept)
      <4> HIDE DEF new
      <4> QED  BY <1>1, <2>2, <2>3 DEF Inv, TypeOK, Status
    <3> QED  BY <3>2, <3>3, <3>4, <3>5
  <2>4. CASE ~(q = r /\ x = o)
    <3> HIDE DEF new
    <3>1. cr'.mem[r][o] = cr.mem[r][o]
      BY <1>1, <2>2, <2>4 DEF Inv, TypeOK, Status
    <3> QED  BY <3>1
  <2> QED  BY <2>3, <2>4
<1> QED  BY <1>2, <1>3, <1>4, <1>5 DEF Refreshing

LEMMA UntrackedOnceHandled ==
  ASSUME NEW m, NEW n, NEW g, NEW h, NEW r \in Packaged \ Scripted, NEW p, NEW gen, NEW push,
         NEW cmd, NEW events, Untracked(m, g), Handles(m, n, g, h, r, p, gen, push),
         Hears(m, n, g, gen, cmd, events)
  PROVE  Untracked(n, h)
<1>1. r \notin Scripted /\ (r \in Packaged) = TRUE /\ BlankGuest.file = "none"
  BY DEF BlankGuest
<1>2. /\ h.file = "none"
      /\ n.state = "ready" => ~n.err
      /\ n.state = "configError" => n.err
      /\ n.state \in Active /\ ~n.err =>
           /\ n.setup = 0
           /\ m.state \in Active /\ (m.err \/ m.pend = NoNotify)
  BY <1>1 DEF Untracked, Handles, Waits, Forgets, Launches, HandsOut, Readies, Breaks, Leaves,
              SameFile, Active
<1> QED  BY <1>2 DEF Untracked, Hears, StartsAfresh, Active

LEMMA UntrackedOutside ==
  ASSUME NEW m, NEW g, NEW h, NEW p, NEW q, NEW persistent \in BOOLEAN,
         Untracked(m, g), Happens(g, h, p, q, persistent)
  PROVE  Untracked(m, h)
BY DEF Untracked, Happens, BlankGuest

LEMMA UntrackedInit == Init => UntrackedInv
<1> SUFFICES ASSUME Init PROVE UntrackedInv
  OBVIOUS
<1>1. \A r \in Packaged, o \in Ords :
        stat.mem[r][o] = NoMember /\ guest[r][o] = BlankGuest /\ cr = stat
  BY RoleKinds DEF Init
<1>2. NoMember.state # "ready" /\ Untracked(NoMember, BlankGuest)
  BY DEF Untracked, NoMember, BlankGuest, Active
<1>3. NotesInv
  BY DEF Init, NotesInv
<1> QED  BY <1>1, <1>2, <1>3, TrackInit DEF UntrackedInv

LEMMA UntrackedStep ==
  UntrackedInv /\ [Next]_vars /\ [~BeginPassOverwritten]_vars /\ [~PassDies]_vars
    /\ [~BlindRetry]_vars => UntrackedInv'
<1> SUFFICES ASSUME UntrackedInv, [Next]_vars, [~BeginPassOverwritten]_vars,
                    [~PassDies]_vars, [~BlindRetry]_vars
             PROVE  UntrackedInv'
  OBVIOUS
<1>1. /\ TrackInv' /\ NotesInv' /\ Kinds
      /\ GivenInv /\ NotesInv /\ DiskInv /\ ListInv /\ IdleIsStored
  BY TrackStep, NotesStep, DiskStep DEF UntrackedInv, TrackInv, GivenInv, DiskInv
<1> DEFINE persistent(r) == r \in Persistent
<1>2. \A r \in Packaged \ Scripted, o \in Ords :
        /\ r \in Roles /\ persistent(r) \in BOOLEAN
        /\ stat.mem[r][o].state = "ready" => stat.mem[r][o].setup = 0
        /\ cr.mem[r][o].state = "ready" => cr.mem[r][o].setup = 0
        /\ Untracked(cr.mem[r][o], guest[r][o])
  BY RoleKinds DEF UntrackedInv, Untracked, Active
<1> SUFFICES \A r \in Packaged \ Scripted, o \in Ords :
               /\ stat'.mem[r][o].state = "ready" => stat'.mem[r][o].setup = 0
               /\ Untracked(cr'.mem[r][o], guest'[r][o])
  BY <1>1 DEF UntrackedInv
<1>3. CASE (FirstPass \/ Begin) /\ Begun
  <2>1. stat' = stat /\ cr = stat
    BY <1>1, <1>3, PassBegins DEF Begun, IdleIsStored
  <2>2. \A r \in Packaged \ Scripted, o \in Ords :
          /\ Begins(cr.mem[r][o], cr'.mem[r][o], pod[r][o], persistent(r))
          /\ Swept(guest[r][o], guest'[r][o], pod[r][o], pod'[r][o])
    BY <1>2, <1>3, <2>1 DEF Begun
  <2> HIDE DEF persistent
  <2> QED  BY <1>2, <2>1, <2>2, UntrackedOnceBegun
<1>4. CASE Refreshing /\ Refreshed
  <2>1. ASSUME NEW r \in Packaged \ Scripted, NEW o \in Ords
        PROVE  Untracked(cr'.mem[r][o], guest'[r][o])
    <3>1. /\ cr'.mem[r][o].state = cr.mem[r][o].state /\ cr'.mem[r][o].err = cr.mem[r][o].err
          /\ guest'[r][o].file = guest[r][o].file
      BY <1>2, <1>4 DEF Refreshed, Refreshes, SameFile
    <3>2. cr.mem[r][o].setup = 0 /\ cr.mem[r][o].pend = NoNotify =>
            cr'.mem[r][o].setup = 0 /\ cr'.mem[r][o].pend = NoNotify
      BY <1>1, <1>2, <1>4, RefreshedUntold
    <3> QED  BY <1>2, <3>1, <3>2 DEF Untracked
  <2> QED  BY <1>2, <1>4, <2>1 DEF Refreshed
<1>5. CASE (\E r \in Roles : HandleRole(r)) /\ Handled
  <2>1. PICK cmd \in Notify : Announces(cmd)
    BY <1>1, <1>5, HandleRoleAnnounces
  <2> DEFINE push == phase = "members"
  <2>2. \A r \in Packaged \ Scripted, o \in Ords :
          /\ Handles(cr.mem[r][o], cr'.mem[r][o], guest[r][o], guest'[r][o], r, pod[r][o],
                     cr.gen, push)
          /\ Hears(cr.mem[r][o], cr'.mem[r][o], guest[r][o], cr.gen, cmd, EventList[r])
    BY <1>2, <1>5, <2>1 DEF Handled, Announces
  <2> HIDE DEF push
  <2> QED  BY <1>2, <1>5, <2>2, UntrackedOnceHandled DEF Handled
<1>6. CASE Stored
  <2>1. \A r \in Packaged \ Scripted, o \in Ords :
          cr'.mem[r][o] \in {cr.mem[r][o], NoMember} /\ guest' = guest
    BY <1>2, <1>6 DEF Stored, Stores
  <2>2. \A r \in Packaged \ Scripted, o \in Ords : Untracked(cr'.mem[r][o], guest'[r][o])
    BY <1>2, <2>1 DEF Untracked, NoMember, Active
  <2> QED  BY <1>6, <2>2 DEF Stored, Untracked, Active
<1>7. CASE Outside
  <2>1. \A r \in Packaged \ Scripted, o \in Ords :
          Happens(guest[r][o], guest'[r][o], pod[r][o], pod'[r][o], persistent(r))
    BY <1>2, <1>7 DEF Outside
  <2> HIDE DEF persistent
  <2> QED  BY <1>2, <1>7, <2>1, UntrackedOutside DEF Outside
<1>8. CASE UNCHANGED vars
  BY <1>2, <1>8 DEF vars
<1> QED  BY <1>1, <1>3, <1>4, <1>5, <1>6, <1>7, <1>8 DEF Kinds

\* While no accepted annotation update replaces the copy, no pass dies before its
\* status write and none that hands out no configmeta takes up a failed setup on a
\* volume, a ready member of a role with a setup package has been given configmeta; it
\* has a generation of its setup, and so is told of changes, if and only if its app
\* asks for the setup script to be run: then it got ready on a script of this very
\* container, or on that of a setup that had gone through.
THEOREM ReadyMembersTracked ==
  Spec /\ KeepsCopy /\ [][~PassDies]_vars /\ [][~BlindRetry]_vars => []ReadyIsTracked
<1>1. UntrackedInv => ReadyIsTracked
  BY DEF UntrackedInv, TrackInv, GivenInv, Tracked, ReadyIsTracked, Scripted
<1> QED  BY <1>1, UntrackedInit, UntrackedStep, PTL DEF Spec, KeepsCopy

-----------------------------------------------------------------------------
(* Who has been set up, and with what. *)

SetUpInv ==
  /\ MetaInv
  /\ TrackInv
  /\ NotesInv
  /\ \A r \in Scripted, o \in Ords :
       SetUp(cr.mem[r][o], guest[r][o], pod[r][o], r \in Persistent)

\* What a step may mean for those who know and those who are learning: nothing ...
Rests(m, n, g, h, p, q, persistent) ==
  /\ Knows(n, q, persistent) =>
       /\ Knows(m, p, persistent)
       /\ n.setup = m.setup /\ n.pend = m.pend /\ h.view = g.view
  /\ Learns(n, h, q) => Learns(m, g, p) /\ h.meta = g.meta

\* ... that they are told what has been queued, or found to be up to date ...
CatchesUp(m, n, g, h, p, persistent, quiet) ==
  /\ Knows(n, p, persistent) => Knows(m, p, persistent) /\ Tells(m, n, g, h, quiet)
  /\ Learns(n, h, p) => Learns(m, g, p) /\ h.meta = g.meta

\* ... or that there is news.
TakesIn(m, n, g, h, p, gen, persistent, cmd, events, listed) ==
  /\ Knows(n, p, persistent) => Informed(m, n, g, h, p, gen, persistent, cmd, events)
  /\ Learns(n, h, p) => (Learns(m, g, p) /\ h.meta = g.meta) \/ h.meta = listed

AllRest ==
  \A r \in Scripted, o \in Ords :
    Rests(cr.mem[r][o], cr'.mem[r][o], guest[r][o], guest'[r][o], pod[r][o], pod'[r][o],
          r \in Persistent)

AllCatchUp ==
  \A r \in Scripted, o \in Ords :
    CatchesUp(cr.mem[r][o], cr'.mem[r][o], guest[r][o], guest'[r][o], pod[r][o],
              r \in Persistent, ~Transitional)

AllTakeIn(cmd) ==
  \A r \in Scripted, o \in Ords :
    TakesIn(cr.mem[r][o], cr'.mem[r][o], guest[r][o], guest'[r][o], pod[r][o], cr.gen,
            r \in Persistent, cmd, EventList[r], Listed(cr, want))

ViewKinds ==
  \/ (FirstPass \/ Begin) /\ ~BeginPassNoSset /\ Begun /\ AllRest
  \/ Refreshing /\ Refreshed /\ AllCatchUp
  \/ (\E r \in Roles : HandleRole(r)) /\ Handled
     /\ \E cmd \in Notify : Announces(cmd) /\ AllTakeIn(cmd)
  \/ WriteStatus /\ Stored /\ AllRest
  \/ (Environment \/ UNCHANGED vars) /\ Outside /\ AllRest

LEMMA ScriptedHandled ==
  ASSUME TrackInv, Handled, phase \in {"members", "blocked"}, [~BlindRetry]_vars,
         NEW r \in Scripted, NEW o \in Ords
  PROVE  LET push == phase = "members"
         IN  /\ ScriptHandles(cr.mem[r][o], cr'.mem[r][o], guest[r][o], guest'[r][o], pod[r][o],
                              cr.gen, push)
             /\ Forgets(cr.mem[r][o], cr'.mem[r][o]) /\ ~push => guest[r][o].file = "none"
             /\ Fed(cr.mem[r][o], cr'.mem[r][o], guest[r][o], guest'[r][o], Listed(cr, want))
<1>1. r \in Packaged /\ r \in Roles
  BY RoleKinds
<1>2. /\ ScriptHandles(cr.mem[r][o], cr'.mem[r][o], guest[r][o], guest'[r][o], pod[r][o],
                       cr.gen, phase = "members")
      /\ Fed(cr.mem[r][o], cr'.mem[r][o], guest[r][o], guest'[r][o], Listed(cr, want))
  BY <1>1, HandledPackaged
<1>3. InTrack(cr.mem[r][o], guest[r][o], pod[r][o], r \in Persistent)
  BY <1>1 DEF TrackInv, GivenInv, Given, InTrack
<1>4. Forgets(cr.mem[r][o], cr'.mem[r][o]) /\ phase # "members" => guest[r][o].file = "none"
  <2>1. CASE ~BlindRetry
    BY <1>1, <1>3, <2>1 DEF BlindRetry, Forgets, Fleeting, InTrack
  <2>2. CASE UNCHANGED vars
    BY <2>2 DEF vars, Forgets
  <2> QED  BY <2>1, <2>2
<1> QED  BY <1>2, <1>4

LEMMA SetUpInit == Init => SetUpInv
<1> SUFFICES ASSUME Init PROVE SetUpInv
  OBVIOUS
<1>1. \A r \in Roles, o \in Ords : cr.mem[r][o] = NoMember
  BY DEF Init
<1>2. \A g, p, persistent : SetUp(NoMember, g, p, persistent)
  BY DEF SetUp, Knows, Learns, NoMember
<1>3. NotesInv
  BY DEF Init, NotesInv
<1> QED  BY <1>1, <1>2, <1>3, MetaInit, TrackInit, RoleKinds DEF SetUpInv

LEMMA SetUpStep ==
  /\ SetUpInv /\ [Next]_vars
  /\ [~BeginPassOverwritten]_vars /\ [~PassDies]_vars /\ [~BlindRetry]_vars
  /\ [~BeginPassNoSset]_vars /\ [~DeliversPart]_vars
  => SetUpInv' /\ ViewKinds
<1> SUFFICES ASSUME SetUpInv, [Next]_vars, [~BeginPassOverwritten]_vars, [~PassDies]_vars,
                    [~BlindRetry]_vars, [~BeginPassNoSset]_vars, [~DeliversPart]_vars
             PROVE  SetUpInv' /\ ViewKinds
  OBVIOUS
<1>1. /\ MetaInv' /\ TrackInv' /\ NotesInv' /\ Kinds
      /\ TrackInv /\ NotesInv /\ DiskInv /\ ListInv /\ Inv /\ IdleIsStored
  BY MetaStep, TrackStep, NotesStep, DiskStep DEF SetUpInv, MetaInv, GivenInv, DiskInv, ListInv
<1>2. \A r \in Scripted, o \in Ords :
        /\ r \in Roles /\ cr.mem[r][o] \in Member /\ pod[r][o] \in Pod /\ guest[r][o] \in Guest
        /\ Trusted(cr.mem[r][o], guest[r][o])
        /\ Aged(cr.mem[r][o], guest[r][o], pod[r][o])
        /\ Emptied(cr.mem[r][o], r \in Persistent)
        /\ SetUp(cr.mem[r][o], guest[r][o], pod[r][o], r \in Persistent)
  BY <1>1, RoleKinds
     DEF SetUpInv, MetaInv, GivenInv, TrackInv, Emptied, Inv, TypeOK, Status
<1> DEFINE AllSetUp == \A r \in Scripted, o \in Ords :
                         SetUp(cr'.mem[r][o], guest'[r][o], pod'[r][o], r \in Persistent)
<1>3. CASE (FirstPass \/ Begin) /\ Begun
  <2>1. ~BeginPassNoSset /\ phase = "idle" /\ cr = stat
    <3>1. phase = "idle" /\ phase' # "idle"
      BY <1>3, PassBegins
    <3>2. ~UNCHANGED vars
      BY <3>1 DEF vars
    <3> QED  BY <1>1, <3>1, <3>2 DEF IdleIsStored
  <2>2. ASSUME NEW r \in Scripted, NEW o \in Ords
        PROVE  /\ SetUp(cr'.mem[r][o], guest'[r][o], pod'[r][o], r \in Persistent)
               /\ Rests(cr.mem[r][o], cr'.mem[r][o], guest[r][o], guest'[r][o], pod[r][o],
                        pod'[r][o], r \in Persistent)
    <3> DEFINE persistent == r \in Persistent
    <3>1. /\ Trusted(cr.mem[r][o], guest[r][o])
          /\ SetUp(cr.mem[r][o], guest[r][o], pod[r][o], persistent)
          /\ Begins(cr.mem[r][o], cr'.mem[r][o], pod[r][o], persistent)
          /\ SweptFor(cr'.mem[r][o], guest[r][o], guest'[r][o], pod[r][o], pod'[r][o])
          /\ persistent \in BOOLEAN
      BY <1>2, <1>3, <2>1 DEF Begun, SweptFor
    <3> HIDE DEF persistent
    <3>2. /\ SetUp(cr'.mem[r][o], guest'[r][o], pod'[r][o], persistent)
          /\ Rests(cr.mem[r][o], cr'.mem[r][o], guest[r][o], guest'[r][o], pod[r][o],
                   pod'[r][o], persistent)
      BY <3>1, KnowsOnceBegun DEF Rests
    <3> QED  BY <3>2 DEF persistent
  <2> QED  BY <1>1, <1>3, <2>1, <2>2 DEF SetUpInv, ViewKinds, AllRest
<1>4. CASE Refreshing /\ Refreshed
  <2>1. ASSUME NEW r \in Scripted, NEW o \in Ords
        PROVE  Tells(cr.mem[r][o], cr'.mem[r][o], guest[r][o], guest'[r][o], ~Transitional)
    <3>1. ASSUME NEW q \in Roles, NEW x \in Ords, Deliver(q, x)
          PROVE  ~DeliversPart
      <4>1. DeliversPart => ~UNCHANGED vars
        BY DEF DeliversPart, vars
      <4> QED  BY <4>1
    <3>2. \A q \in Roles : PanicInRole(q) =>
            Tells(cr.mem[r][o], cr'.mem[r][o], guest[r][o], guest'[r][o], ~Transitional)
      BY DEF PanicInRole, Tells
    <3> QED  BY <1>1, <1>2, <1>4, <3>1, <3>2, UpdateTells, NotifyTells, DeliverTells
             DEF Refreshing
  <2>2. ASSUME NEW r \in Scripted, NEW o \in Ords
        PROVE  /\ SetUp(cr'.mem[r][o], guest'[r][o], pod'[r][o], r \in Persistent)
               /\ CatchesUp(cr.mem[r][o], cr'.mem[r][o], guest[r][o], guest'[r][o], pod[r][o],
                            r \in Persistent, ~Transitional)
    <3> DEFINE persistent == r \in Persistent
               quiet == ~Transitional
    <3>1. /\ Trusted(cr.mem[r][o], guest[r][o])
          /\ SetUp(cr.mem[r][o], guest[r][o], pod[r][o], persistent)
          /\ Refreshes(cr.mem[r][o], cr'.mem[r][o], guest[r][o], guest'[r][o], cr.gen)
          /\ Tells(cr.mem[r][o], cr'.mem[r][o], guest[r][o], guest'[r][o], quiet)
          /\ persistent \in BOOLEAN /\ pod' = pod
      BY <1>2, <1>4, <2>1 DEF Refreshed
    <3> HIDE DEF persistent, quiet
    <3>2. /\ SetUp(cr'.mem[r][o], guest'[r][o], pod[r][o], persistent)
          /\ CatchesUp(cr.mem[r][o], cr'.mem[r][o], guest[r][o], guest'[r][o], pod[r][o],
                       persistent, quiet)
      BY <3>1, KnowsOnceRefreshed DEF CatchesUp
    <3> QED  BY <3>1, <3>2 DEF persistent, quiet
  <2> QED  BY <1>1, <1>4, <2>2 DEF SetUpInv, ViewKinds, AllCatchUp
<1>5. CASE (\E r \in Roles : HandleRole(r)) /\ Handled
  <2>1. PICK cmd \in Notify : Announces(cmd)
    BY <1>1, <1>5, HandleRoleAnnounces
  <2>2. phase \in {"members", "blocked"} /\ pod' = pod
    BY <1>5 DEF HandleRole, Handled
  <2>3. ASSUME NEW r \in Scripted, NEW o \in Ords
        PROVE  /\ SetUp(cr'.mem[r][o], guest'[r][o], pod'[r][o], r \in Persistent)
               /\ TakesIn(cr.mem[r][o], cr'.mem[r][o], guest[r][o], guest'[r][o], pod[r][o],
                          cr.gen, r \in Persistent, cmd, EventList[r], Listed(cr, want))
    <3> DEFINE m == cr.mem[r][o]
               n == cr'.mem[r][o]
               g == guest[r][o]
               h == guest'[r][o]
               p == pod[r][o]
               gen == cr.gen
               persistent == r \in Persistent
               push == phase = "members"
               listed == Listed(cr, want)
               events == EventList[r]
    <3>1. /\ ScriptHandles(m, n, g, h, p, gen, push) /\ Fed(m, n, g, h, listed)
          /\ Forgets(m, n) /\ ~push => g.file = "none"
      BY <1>1, <1>5, <2>2, ScriptedHandled
    <3>2. Hears(m, n, g, gen, cmd, events)
      BY <1>2, <2>1, RoleKinds DEF Announces
    <3>3. /\ Trusted(m, g) /\ SetUp(m, g, p, persistent) /\ Aged(m, g, p)
          /\ Emptied(m, persistent)
          /\ g.fcid \in Nat /\ p.cid \in Nat /\ persistent \in BOOLEAN /\ push \in BOOLEAN
      BY <1>2 DEF Guest, Pod
    <3> HIDE DEF m, n, g, h, p, gen, persistent, push, listed, events
    <3>4. SetUp(n, h, p, persistent)
      BY <3>1, <3>2, <3>3, SetUpOnceHandled
    <3>5. Knows(n, p, persistent) => Informed(m, n, g, h, p, gen, persistent, cmd, events)
      BY <3>1, <3>2, <3>3, KnowsOnceHandled
    <3>6. Learns(n, h, p) => (Learns(m, g, p) /\ h.meta = g.meta) \/ h.meta = listed
      BY <3>1, <3>3, LearnsOnceHandled
    <3> QED  BY <2>2, <3>4, <3>5, <3>6
             DEF TakesIn, m, n, g, h, p, gen, persistent, listed, events
  <2> QED  BY <1>1, <1>5, <2>1, <2>3 DEF SetUpInv, ViewKinds, AllTakeIn
<1>6. CASE WriteStatus /\ Stored
  <2>1. ASSUME NEW r \in Scripted, NEW o \in Ords
        PROVE  /\ SetUp(cr'.mem[r][o], guest'[r][o], pod'[r][o], r \in Persistent)
               /\ Rests(cr.mem[r][o], cr'.mem[r][o], guest[r][o], guest'[r][o], pod[r][o],
                        pod'[r][o], r \in Persistent)
    <3>1. /\ cr'.mem[r][o] = cr.mem[r][o] \/ cr'.mem[r][o] = NoMember
          /\ guest' = guest /\ pod' = pod
      BY <1>2, <1>6 DEF Stored, Stores
    <3> QED  BY <1>2, <3>1 DEF Rests, SetUp, Knows, Learns, NoMember
  <2> QED  BY <1>1, <1>6, <2>1 DEF SetUpInv, ViewKinds, AllRest
<1>7. CASE (Environment \/ UNCHANGED vars) /\ Outside
  <2>1. ASSUME NEW r \in Scripted, NEW o \in Ords
        PROVE  /\ SetUp(cr'.mem[r][o], guest'[r][o], pod'[r][o], r \in Persistent)
               /\ Rests(cr.mem[r][o], cr'.mem[r][o], guest[r][o], guest'[r][o], pod[r][o],
                        pod'[r][o], r \in Persistent)
    <3> DEFINE persistent == r \in Persistent
    <3>1. /\ Happens(guest[r][o], guest'[r][o], pod[r][o], pod'[r][o], persistent)
          /\ SetUp(cr.mem[r][o], guest[r][o], pod[r][o], persistent)
          /\ persistent \in BOOLEAN /\ cr' = cr
      BY <1>2, <1>7 DEF Outside
    <3> HIDE DEF persistent
    <3>2. /\ SetUp(cr'.mem[r][o], guest'[r][o], pod'[r][o], persistent)
          /\ Rests(cr.mem[r][o], cr'.mem[r][o], guest[r][o], guest'[r][o], pod[r][o],
                   pod'[r][o], persistent)
      BY <1>2, <3>1, KnowsOutside DEF Rests
    <3> QED  BY <3>2 DEF persistent
  <2> QED  BY <1>1, <1>7, <2>1 DEF SetUpInv, ViewKinds, AllRest
<1>8. CASE PassDies /\ Lost
  <2>1. UNCHANGED vars
    BY <1>8
  <2>2. phase = "idle"
    BY <1>8, <2>1 DEF Lost, vars
  <2>3. \A r \in Roles : ~DiesInRole(r)
    BY <2>2 DEF DiesInRole
  <2>4. ~Crash
    BY <2>2 DEF Crash
  <2> QED  BY <1>8, <2>3, <2>4 DEF PassDies
<1> QED  BY <1>1, <1>3, <1>4, <1>5, <1>6, <1>7, <1>8 DEF Kinds

-----------------------------------------------------------------------------
(* Every app instance is told of all members. *)

\* The members that the configmeta lists.
Serves(st, wanted, q, x) == st.mem[q][x].state \in Requested /\ wanted[q] >= 0

LEMMA ListedIs ==
  ASSUME NEW st, NEW wanted, NEW node
  PROVE  node \in Listed(st, wanted) <=>
           \E q \in Roles, x \in Ords : node = NodeOf(st, q, x) /\ Serves(st, wanted, q, x)
<1>1. node \in Listed(st, wanted) <=>
        \E q \in Roles : \E x \in With(st.mem[q], Requested) :
          wanted[q] >= 0 /\ node = <<q, st.name[q], x>>
  BY DEF Listed
<1> QED  BY <1>1 DEF With, Serves, NodeOf

\* A member c is news to m until it has been through its setup: whoever has not
\* processed the generation that c came with will be told.
WillHear(m, gen, view, c, node) ==
  (m.setup # gen /\ c.conf = 0) \/ WillKnow(node, m.pend, view)

HasAll(m, g, gen) ==
  \A q \in Roles, x \in Ords :
    Serves(cr, Wanted, q, x) => WillHear(m, gen, g.view, cr.mem[q][x], NodeOf(cr, q, x))

AllTold ==
  \A r \in Listening, o \in Ords :
    /\ Learns(cr.mem[r][o], guest[r][o], pod[r][o]) =>
         Listed(cr, Wanted) \subseteq guest[r][o].meta
    /\ Knows(cr.mem[r][o], pod[r][o], r \in Persistent) =>
         HasAll(cr.mem[r][o], guest[r][o], cr.gen)

ToldAllInv == SetUpInv /\ AllTold

\* Those in service after the start of a pass were so before, under the same name, or
\* are new and belong to a new generation.
LEMMA BeginServes ==
  ASSUME DiskInv, FirstPass \/ Begin, ~BeginPassNoSset, Begun, NEW q \in Roles, NEW x \in Ords,
         cr'.mem[q][x].state \in Requested
  PROVE  \/ /\ stat.mem[q][x].state \in Requested
            /\ cr'.mem[q][x].conf = stat.mem[q][x].conf
            /\ NodeOf(cr', q, x) = NodeOf(stat, q, x)
         \/ cr'.mem[q][x].conf = 0 /\ cr'.gen > stat.gen
<1>1. Begins(stat.mem[q][x], cr'.mem[q][x], pod[q][x], q \in Persistent)
  BY DEF Begun
<1>2. NewMember.conf = 0
  BY DEF NewMember, NoMember
<1>3. CASE stat.mem[q][x].state = "none"
  BY <1>1, <1>2, <1>3, GenBegins DEF Begins, Requested
<1>4. CASE stat.mem[q][x].state # "none"
  <2>1. cr'.name[q] = stat.name[q]
    BY <1>4, NamesStay
  <2> QED  BY <1>1, <1>2, <1>4, <2>1 DEF Begins, Keeps, Requested, NodeOf
<1> QED  BY <1>3, <1>4

\* A pass that finds somebody being created leaves the lists as they are.
LEMMA BeginPostponed ==
  ASSUME DiskInv, FirstPass \/ Begin, Begun, NEW r \in Roles, NEW o \in Ords,
         cr'.mem[r][o].state = "creating"
  PROVE  SameInService(cr', stat)
<1>1. Inv /\ ListInv
  BY DEF DiskInv, ListInv
<1>2. CASE FirstPass
  <2>1. cr'.mem = stat.mem /\ cr'.name = stat.name
    BY <1>1, <1>2 DEF FirstPass, Inv, TypeOK, Status
  <2> QED  BY <2>1 DEF SameInService
<1>3. CASE Begin
  <2>1. PICK R : /\ R = {} \/ ~Postponed
                 /\ cr'.mem = Synced(R).mem /\ cr'.name = Synced(R).name
    BY <1>1, <1>3, BegunFrom
  <2>2. stat.mem[r][o].state = "creating"
    BY DEF Begun, Begins, NewMember, NoMember
  <2>3. R = {}
    BY <2>1, <2>2 DEF Postponed, Checked, ContainerChecked, With
  <2>4. \A q \in Roles : cr'.mem[q] = Checked(q) /\ cr'.name[q] = stat.name[q]
    BY <1>1, <2>1, <2>3 DEF Synced, Inv, TypeOK, Status
  <2>5. ASSUME NEW q \in Roles
        PROVE  With(cr'.mem[q], Requested) = With(stat.mem[q], Requested)
    <3>1. Alike(stat.mem[q], Checked(q))
      BY <1>1, CheckedAlike
    <3> QED  BY <2>4, <3>1 DEF Alike
  <2> QED  BY <2>4, <2>5 DEF SameInService
<1> QED  BY <1>2, <1>3

\* Nobody is put into service, or listed anew, but by the start of a pass.
Lasting ==
  /\ cr'.gen = cr.gen
  /\ \A q \in Roles, x \in Ords :
       Serves(cr, Wanted, q, x)' =>
         Serves(cr, Wanted, q, x) /\ NodeOf(cr, q, x)' = NodeOf(cr, q, x)

LEMMA GoesOnLasting ==
  ASSUME Refreshed \/ Handled, phase # "idle", phase' # "idle", want' = want
  PROVE  Lasting
<1>1. SameHeader(cr, cr') /\ Wanted = want /\ Wanted' = want
  BY DEF Refreshed, Handled, Wanted
<1>2. \A q \in Roles, x \in Ords :
        cr'.mem[q][x].state \in Requested <=> cr.mem[q][x].state \in Requested
  BY InServiceStays DEF With
<1> QED  BY <1>1, <1>2 DEF Lasting, Serves, NodeOf, SameHeader

LEMMA WrittenLasting ==
  ASSUME Inv, GoneForGood, WriteStatus, Stored
  PROVE  Lasting
<1>1. /\ SameHeader(cr, cr') /\ Wanted = want /\ Wanted' = spec /\ phase # "idle"
  BY DEF Stored, SameHeader, WriteStatus, Wanted
<1>2. \A q \in Roles, x \in Ords :
        cr'.mem[q][x].state \in Requested => cr'.mem[q][x] = cr.mem[q][x]
  BY DEF Stored, Stores, NoMember, Requested
<1>3. ASSUME NEW q \in Roles, NEW x \in Ords, spec[q] >= 0, cr.mem[q][x].state \in Requested
      PROVE  want[q] >= 0
  <2>1. spec[q] \in Want /\ want[q] \in Want
    BY DEF Inv, TypeOK
  <2>2. x \in With(cr.mem[q], Requested)
    BY <1>3 DEF With
  <2>3. want[q] # -1
    BY <1>1, <1>3, <2>1, <2>2, MaxMembersAssumption DEF GoneForGood, Want
  <2> QED  BY <2>1, <2>3, MaxMembersAssumption DEF Want
<1> QED  BY <1>1, <1>2, <1>3 DEF Lasting, Serves, NodeOf, SameHeader

LEMMA OutsideLasting ==
  ASSUME Inv, Nameless(stat), IdleIsStored, Environment \/ UNCHANGED vars, Outside
  PROVE  Lasting
<1>1. /\ want' = want /\ cr' = cr /\ phase' = phase
      /\ \A q \in Roles : spec'[q] # spec[q] => spec[q] # -1 \/ stat.name[q] = 0
  BY SpecOutside DEF Outside
<1>2. ASSUME NEW q \in Roles, NEW x \in Ords, cr.mem[q][x].state \in Requested, Wanted'[q] >= 0
      PROVE  Wanted[q] >= 0
  <2>1. CASE Wanted'[q] = Wanted[q]
    BY <1>2, <2>1
  <2>2. CASE Wanted'[q] # Wanted[q]
    <3>1. phase = "idle" /\ spec'[q] # spec[q] /\ Wanted[q] = spec[q] /\ cr = stat
      BY <1>1, <2>2 DEF Wanted, IdleIsStored
    <3>2. stat.name[q] # 0
      BY <1>2, <3>1 DEF Nameless, Present, Requested
    <3>3. spec[q] # -1 /\ spec[q] \in Want
      BY <1>1, <3>1, <3>2 DEF Inv, TypeOK
    <3> QED  BY <3>1, <3>3, MaxMembersAssumption DEF Want
  <2> QED  BY <2>1, <2>2
<1> QED  BY <1>1, <1>2 DEF Lasting, Serves, NodeOf

LEMMA LastingListed == ASSUME Lasting PROVE Listed(cr, Wanted)' \subseteq Listed(cr, Wanted)
<1> SUFFICES ASSUME NEW node \in Listed(cr, Wanted)' PROVE node \in Listed(cr, Wanted)
  OBVIOUS
<1>1. node \in Listed(cr', Wanted')
  OBVIOUS
<1>2. PICK q \in Roles, x \in Ords : node = NodeOf(cr', q, x) /\ Serves(cr', Wanted', q, x)
  BY <1>1, ListedIs
<1> QED  BY <1>2, ListedIs DEF Lasting

\* Deliveries: who is found to be up to date has nobody new to hear of (known).
Known(c, quiet) == quiet => c.conf # 0

LEMMA HearsStill ==
  ASSUME NEW m \in Member, NEW n, NEW g, NEW h, NEW c, NEW d, NEW node, NEW gen,
         NEW quiet \in BOOLEAN, Tells(m, n, g, h, quiet), Known(c, quiet), d.conf = c.conf,
         WillHear(m, gen, g.view, c, node)
  PROVE  WillHear(n, gen, h.view, d, node)
<1>1. m.pend \in Seq(Notify)
  BY DEF Member
<1>2. WillKnow(node, m.pend, g.view) => WillKnow(node, n.pend, h.view)
  BY <1>1, KnowsOnceTold DEF Tells
<1> QED  BY <1>2 DEF WillHear, Tells, Known

\* News: a command that names a member in service says that it is there, and whoever has
\* been configured for the first time is named.
Brings(cmd, c, d, node) ==
  /\ node \in cmd.nodes => cmd.op = "addnodes"
  /\ c.conf = 0 /\ d.conf # 0 => node \in cmd.nodes

LEMMA HearsNews ==
  ASSUME NEW m \in Member, NEW n, NEW g, NEW h, NEW p, NEW gen, NEW persistent \in BOOLEAN,
         NEW cmd \in Notify, NEW events, "addnodes" \in events, NEW c, NEW d, NEW node,
         Informed(m, n, g, h, p, gen, persistent, cmd, events), SetUp(m, g, p, persistent),
         Brings(cmd, c, d, node), NEW known, NEW learned,
         known <=> (Knows(m, p, persistent) => WillHear(m, gen, g.view, c, node)), known,
         learned <=> (Learns(m, g, p) => node \in g.meta), learned
  PROVE  WillHear(n, gen, h.view, d, node)
<1>1. m.pend \in Seq(Notify) /\ NoNotify \in Seq(Notify)
  BY DEF Member, NoNotify
<1>2. ASSUME NEW old \in Seq(Notify), WillKnow(node, old, g.view)
      PROVE  WillKnow(node, Append(old, cmd), g.view)
  BY <1>2, WordsAppended DEF Brings
<1>3. ASSUME NEW old \in Seq(Notify), node \in cmd.nodes
      PROVE  WillKnow(node, Append(old, cmd), g.view) /\ cmd.nodes # {}
         /\ cmd.op \in events
  BY <1>3, WordsAppended DEF Brings
<1>4. CASE /\ Knows(m, p, persistent) /\ n.setup = m.setup
           /\ n.pend = IF Asks(gen, n.setup, cmd, events) THEN Append(m.pend, cmd) ELSE m.pend
  <2>1. CASE WillKnow(node, m.pend, g.view)
    <3>1. WillKnow(node, n.pend, g.view)
      BY <1>1, <1>2, <1>4, <2>1
    <3> QED  BY <3>1 DEF WillHear, Informed
  <2>2. CASE m.setup # gen /\ c.conf = 0
    <3>1. d.conf # 0 => WillKnow(node, n.pend, g.view)
      BY <1>1, <1>3, <1>4, <2>2 DEF Brings, Asks
    <3> QED  BY <1>4, <2>2, <3>1 DEF WillHear, Informed
  <2> QED  BY <1>4, <2>1, <2>2 DEF WillHear
<1>5. CASE /\ Learns(m, g, p) /\ g.file = "ok"
           /\ n.pend = IF Asks(gen, n.setup, cmd, events) THEN Append(NoNotify, cmd)
                       ELSE NoNotify
  <2>1. node \in g.view
    BY <1>5 DEF SetUp
  <2>2. WillKnow(node, NoNotify, g.view)
    BY <2>1 DEF WillKnow, Unnamed, NoNotify
  <2>3. WillKnow(node, n.pend, g.view)
    BY <1>1, <1>2, <1>5, <2>2
  <2> QED  BY <2>3 DEF WillHear, Informed
<1> QED  BY <1>4, <1>5 DEF Informed

LEMMA HearsLater ==
  ASSUME NEW m \in Member, NEW n, NEW g, NEW h, NEW c, NEW d, NEW node, NEW gen \in Nat,
         NEW next \in Nat, Ordered(m, gen), next >= gen,
         n.setup = m.setup, n.pend = m.pend, h.view = g.view,
         NEW old, old <=> WillHear(m, gen, g.view, c, node) /\ d.conf = c.conf,
         old \/ (d.conf = 0 /\ next > gen)
  PROVE  WillHear(n, next, h.view, d, node)
<1>1. m.setup \in Nat /\ m.cfg \in Nat /\ m.setup <= gen
  BY DEF Ordered, Member
<1>2. m.setup # gen \/ next > gen => m.setup # next
  BY <1>1
<1> QED  BY <1>2 DEF WillHear

LEMMA BeginTold ==
  ASSUME ToldAllInv, FirstPass \/ Begin, ~BeginPassNoSset, Begun, AllRest, Inv'
  PROVE  AllTold'
<1>1. /\ DiskInv /\ Inv /\ phase = "idle" /\ cr = stat /\ Wanted = spec /\ Wanted' = spec
      /\ cr.gen \in Nat /\ cr'.gen \in Nat /\ cr'.gen >= cr.gen
  <2>1. DiskInv /\ Inv /\ IdleIsStored
    BY DEF ToldAllInv, SetUpInv, MetaInv, GivenInv, DiskInv, ListInv
  <2>2. phase = "idle" /\ cr = stat /\ Wanted = spec /\ Wanted' = spec
    BY <2>1, PassBegins DEF IdleIsStored, Wanted
  <2> QED  BY <2>1, <2>2, GenBegins DEF Inv, TypeOK, Status
<1> SUFFICES ASSUME NEW r \in Listening, NEW o \in Ords
             PROVE  /\ Learns(cr'.mem[r][o], guest'[r][o], pod'[r][o]) =>
                         Listed(cr', spec) \subseteq guest'[r][o].meta
                    /\ Knows(cr'.mem[r][o], pod'[r][o], r \in Persistent) =>
                         \A q \in Roles, x \in Ords : Serves(cr', spec, q, x) =>
                           WillHear(cr'.mem[r][o], cr'.gen, guest'[r][o].view,
                                    cr'.mem[q][x], NodeOf(cr', q, x))
  BY <1>1 DEF AllTold, HasAll
<1>2. /\ Learns(cr.mem[r][o], guest[r][o], pod[r][o]) =>
           Listed(cr, spec) \subseteq guest[r][o].meta
      /\ Knows(cr.mem[r][o], pod[r][o], r \in Persistent) =>
           \A q \in Roles, x \in Ords : Serves(cr, spec, q, x) =>
             WillHear(cr.mem[r][o], cr.gen, guest[r][o].view, cr.mem[q][x], NodeOf(cr, q, x))
  BY <1>1 DEF ToldAllInv, AllTold, HasAll
<1>3. Rests(cr.mem[r][o], cr'.mem[r][o], guest[r][o], guest'[r][o], pod[r][o], pod'[r][o],
            r \in Persistent)
  BY RoleKinds DEF AllRest
<1>4. r \in Roles /\ cr.mem[r][o] \in Member /\ Ordered(cr.mem[r][o], cr.gen)
  BY <1>1, RoleKinds DEF Inv, TypeOK, Status, Sound, ListOrdered
<1>5. ASSUME Learns(cr'.mem[r][o], guest'[r][o], pod'[r][o])
      PROVE  Listed(cr', spec) \subseteq guest'[r][o].meta
  <2>1. cr'.mem[r][o].state = "creating"
    BY <1>5 DEF Learns
  <2>2. SameInService(cr', cr)
    BY <1>1, <1>4, <2>1, BeginPostponed
  <2>3. Listed(cr', spec) = Listed(cr, spec)
    BY <2>2, SameListed
  <2> QED  BY <1>2, <1>3, <1>5, <2>3 DEF Rests
<1>6. ASSUME Knows(cr'.mem[r][o], pod'[r][o], r \in Persistent),
             NEW q \in Roles, NEW x \in Ords, Serves(cr', spec, q, x)
      PROVE  WillHear(cr'.mem[r][o], cr'.gen, guest'[r][o].view, cr'.mem[q][x],
                      NodeOf(cr', q, x))
  <2> DEFINE m == cr.mem[r][o]
             n == cr'.mem[r][o]
             g == guest[r][o]
             h == guest'[r][o]
             c == cr.mem[q][x]
             d == cr'.mem[q][x]
             node == NodeOf(cr', q, x)
             gen == cr.gen
             next == cr'.gen
             old == WillHear(m, gen, g.view, c, node) /\ d.conf = c.conf
  <2>1. /\ Knows(m, pod[r][o], r \in Persistent)
        /\ n.setup = m.setup /\ n.pend = m.pend /\ h.view = g.view
    BY <1>3, <1>6 DEF Rests
  <2>2. \/ /\ c.state \in Requested /\ d.conf = c.conf /\ node = NodeOf(cr, q, x)
        \/ d.conf = 0 /\ next > gen
    BY <1>1, <1>6, BeginServes DEF Serves
  <2>3. old \/ (d.conf = 0 /\ next > gen)
    <3>1. c.state \in Requested => Serves(cr, spec, q, x)
      BY <1>6 DEF Serves
    <3> QED  BY <1>2, <2>1, <2>2, <3>1
  <2>4. /\ m \in Member /\ Ordered(m, gen) /\ gen \in Nat /\ next \in Nat /\ next >= gen
        /\ old <=> WillHear(m, gen, g.view, c, node) /\ d.conf = c.conf
    BY <1>1, <1>4
  <2> HIDE DEF m, n, g, h, c, d, node, gen, next, old
  <2>5. WillHear(n, next, h.view, d, node)
    BY <2>1, <2>3, <2>4, HearsLater
  <2> QED  BY <2>5 DEF n, h, d, node, next
<1> QED  BY <1>5, <1>6

LEMMA CatchUpTold ==
  ASSUME ToldAllInv, Lasting, Refreshed, AllCatchUp
  PROVE  AllTold'
<1>1. /\ DiskInv /\ Inv
      /\ \A q \in Roles, x \in Ords : cr'.mem[q][x].conf = cr.mem[q][x].conf
  <2>1. DiskInv /\ Inv
    BY DEF ToldAllInv, SetUpInv, MetaInv, GivenInv, DiskInv, ListInv
  <2>2. \A q \in Roles, x \in Ords : Keeps(cr.mem[q][x], cr'.mem[q][x])
    BY DEF Refreshed, Refreshes
  <2> QED  BY <2>1, <2>2 DEF Keeps
<1> SUFFICES ASSUME NEW r \in Listening, NEW o \in Ords
             PROVE  /\ Learns(cr'.mem[r][o], guest'[r][o], pod'[r][o]) =>
                         Listed(cr', Wanted') \subseteq guest'[r][o].meta
                    /\ Knows(cr'.mem[r][o], pod'[r][o], r \in Persistent) =>
                         \A q \in Roles, x \in Ords : Serves(cr', Wanted', q, x) =>
                           WillHear(cr'.mem[r][o], cr'.gen, guest'[r][o].view,
                                    cr'.mem[q][x], NodeOf(cr', q, x))
  BY DEF AllTold, HasAll
<1>2. /\ Learns(cr.mem[r][o], guest[r][o], pod[r][o]) =>
           Listed(cr, Wanted) \subseteq guest[r][o].meta
      /\ Knows(cr.mem[r][o], pod[r][o], r \in Persistent) =>
           \A q \in Roles, x \in Ords : Serves(cr, Wanted, q, x) =>
             WillHear(cr.mem[r][o], cr.gen, guest[r][o].view, cr.mem[q][x], NodeOf(cr, q, x))
  BY DEF ToldAllInv, AllTold, HasAll
<1>3. /\ pod' = pod /\ r \in Roles /\ cr.mem[r][o] \in Member
      /\ CatchesUp(cr.mem[r][o], cr'.mem[r][o], guest[r][o], guest'[r][o], pod[r][o],
                   r \in Persistent, ~Transitional)
  BY <1>1, RoleKinds DEF AllCatchUp, Refreshed, Inv, TypeOK, Status
<1>4. ASSUME Learns(cr'.mem[r][o], guest'[r][o], pod'[r][o])
      PROVE  Listed(cr', Wanted') \subseteq guest'[r][o].meta
  <2>1. Listed(cr', Wanted') \subseteq Listed(cr, Wanted)
    BY LastingListed
  <2> QED  BY <1>2, <1>3, <1>4, <2>1 DEF CatchesUp
<1>5. ASSUME Knows(cr'.mem[r][o], pod'[r][o], r \in Persistent),
             NEW q \in Roles, NEW x \in Ords, Serves(cr', Wanted', q, x)
      PROVE  WillHear(cr'.mem[r][o], cr'.gen, guest'[r][o].view, cr'.mem[q][x],
                      NodeOf(cr', q, x))
  <2> DEFINE m == cr.mem[r][o]
             n == cr'.mem[r][o]
             g == guest[r][o]
             h == guest'[r][o]
             c == cr.mem[q][x]
             d == cr'.mem[q][x]
             node == NodeOf(cr, q, x)
             gen == cr.gen
             quiet == ~Transitional
  <2>1. /\ Serves(cr, Wanted, q, x) /\ node = NodeOf(cr', q, x) /\ cr'.gen = gen
        /\ d.conf = c.conf /\ m \in Member
    BY <1>1, <1>3, <1>5 DEF Lasting
  <2>2. Knows(m, pod[r][o], r \in Persistent) /\ Tells(m, n, g, h, quiet)
    BY <1>3, <1>5 DEF CatchesUp
  <2>3. WillHear(m, gen, g.view, c, node)
    BY <1>2, <2>1, <2>2
  <2>4. Known(c, quiet)
    <3> SUFFICES ASSUME ~Transitional PROVE c.conf # 0
      BY DEF Known
    <3>1. c \in Member /\ Housed(c, guest[q][x]) /\ c.state \in Requested
      BY <1>1, <2>1 DEF Inv, TypeOK, Status, DiskInv, Serves
    <3>2. c.state \in {"ready", "configError"}
      BY <3>1 DEF Transitional, With, Member, Requested
    <3> QED  BY <3>1, <3>2 DEF Housed
  <2>5. quiet \in BOOLEAN
    BY DEF Transitional
  <2> HIDE DEF m, n, g, h, c, d, node, gen, quiet
  <2>6. WillHear(n, gen, h.view, d, node)
    BY <2>1, <2>2, <2>3, <2>4, <2>5, HearsStill
  <2> QED  BY <2>1, <2>6 DEF n, h, d, node, gen
<1> QED  BY <1>4, <1>5

LEMMA RestTold ==
  ASSUME ToldAllInv, Lasting, AllRest,
         \A q \in Roles, x \in Ords : Serves(cr, Wanted, q, x)' =>
           cr'.mem[q][x] = cr.mem[q][x]
  PROVE  AllTold'
<1> SUFFICES ASSUME NEW r \in Listening, NEW o \in Ords
             PROVE  /\ Learns(cr'.mem[r][o], guest'[r][o], pod'[r][o]) =>
                         Listed(cr', Wanted') \subseteq guest'[r][o].meta
                    /\ Knows(cr'.mem[r][o], pod'[r][o], r \in Persistent) =>
                         \A q \in Roles, x \in Ords : Serves(cr', Wanted', q, x) =>
                           WillHear(cr'.mem[r][o], cr'.gen, guest'[r][o].view,
                                    cr'.mem[q][x], NodeOf(cr', q, x))
  BY DEF AllTold, HasAll
<1>1. /\ Learns(cr.mem[r][o], guest[r][o], pod[r][o]) =>
           Listed(cr, Wanted) \subseteq guest[r][o].meta
      /\ Knows(cr.mem[r][o], pod[r][o], r \in Persistent) =>
           \A q \in Roles, x \in Ords : Serves(cr, Wanted, q, x) =>
             WillHear(cr.mem[r][o], cr.gen, guest[r][o].view, cr.mem[q][x], NodeOf(cr, q, x))
  BY DEF ToldAllInv, AllTold, HasAll
<1>2. Rests(cr.mem[r][o], cr'.mem[r][o], guest[r][o], guest'[r][o], pod[r][o], pod'[r][o],
            r \in Persistent)
  BY RoleKinds DEF AllRest
<1>3. ASSUME Learns(cr'.mem[r][o], guest'[r][o], pod'[r][o])
      PROVE  Listed(cr', Wanted') \subseteq guest'[r][o].meta
  <2>1. Listed(cr', Wanted') \subseteq Listed(cr, Wanted)
    BY LastingListed
  <2> QED  BY <1>1, <1>2, <1>3, <2>1 DEF Rests
<1>4. ASSUME Knows(cr'.mem[r][o], pod'[r][o], r \in Persistent),
             NEW q \in Roles, NEW x \in Ords, Serves(cr', Wanted', q, x)
      PROVE  WillHear(cr'.mem[r][o], cr'.gen, guest'[r][o].view, cr'.mem[q][x],
                      NodeOf(cr', q, x))
  <2>1. /\ Serves(cr, Wanted, q, x) /\ NodeOf(cr, q, x) = NodeOf(cr', q, x)
        /\ cr'.gen = cr.gen /\ cr'.mem[q][x] = cr.mem[q][x]
    BY <1>4 DEF Lasting
  <2>2. /\ Knows(cr.mem[r][o], pod[r][o], r \in Persistent)
        /\ cr'.mem[r][o].setup = cr.mem[r][o].setup /\ cr'.mem[r][o].pend = cr.mem[r][o].pend
        /\ guest'[r][o].view = guest[r][o].view
    BY <1>2, <1>4 DEF Rests
  <2>3. WillHear(cr.mem[r][o], cr.gen, guest[r][o].view, cr.mem[q][x], NodeOf(cr, q, x))
    BY <1>1, <2>1, <2>2
  <2> QED  BY <2>1, <2>2, <2>3 DEF WillHear
<1> QED  BY <1>3, <1>4

\* What the handling of a role announces brings the news of those in service.
LEMMA AnnouncesBrings ==
  ASSUME NEW cmd \in Notify, Announces(cmd), NEW q \in Roles, NEW x \in Ords,
         cr.mem[q][x].state \in Requested
  PROVE  Brings(cmd, cr.mem[q][x], cr'.mem[q][x], NodeOf(cr, q, x))
<1>1. ASSUME NodeOf(cr, q, x) \in cmd.nodes, cmd.op # "addnodes" PROVE FALSE
  <2>1. PICK p \in Roles, y \in Ords :
          NodeOf(cr, q, x) = NodeOf(cr, p, y) /\ cr.mem[p][y].state = "deletePending"
    BY <1>1 DEF Announces
  <2>2. p = q /\ y = x
    BY <2>1 DEF NodeOf
  <2> QED  BY <2>1, <2>2 DEF Requested
<1>2. cr.mem[q][x].conf = 0 /\ cr'.mem[q][x].conf # 0 => NodeOf(cr, q, x) \in cmd.nodes
  BY DEF Announces
<1> QED  BY <1>1, <1>2 DEF Brings

LEMMA NewsTold ==
  ASSUME ToldAllInv, Lasting, Handled, phase # "idle", NEW cmd \in Notify, Announces(cmd),
         AllTakeIn(cmd)
  PROVE  AllTold'
<1>1. Inv /\ pod' = pod /\ Wanted = want
  BY DEF ToldAllInv, SetUpInv, MetaInv, GivenInv, DiskInv, ListInv, Handled, Wanted
<1> SUFFICES ASSUME NEW r \in Listening, NEW o \in Ords
             PROVE  /\ Learns(cr'.mem[r][o], guest'[r][o], pod'[r][o]) =>
                         Listed(cr', Wanted') \subseteq guest'[r][o].meta
                    /\ Knows(cr'.mem[r][o], pod'[r][o], r \in Persistent) =>
                         \A q \in Roles, x \in Ords : Serves(cr', Wanted', q, x) =>
                           WillHear(cr'.mem[r][o], cr'.gen, guest'[r][o].view,
                                    cr'.mem[q][x], NodeOf(cr', q, x))
  BY DEF AllTold, HasAll
<1>2. /\ Learns(cr.mem[r][o], guest[r][o], pod[r][o]) =>
           Listed(cr, Wanted) \subseteq guest[r][o].meta
      /\ Knows(cr.mem[r][o], pod[r][o], r \in Persistent) =>
           \A q \in Roles, x \in Ords : Serves(cr, Wanted, q, x) =>
             WillHear(cr.mem[r][o], cr.gen, guest[r][o].view, cr.mem[q][x], NodeOf(cr, q, x))
  BY DEF ToldAllInv, AllTold, HasAll
<1>3. /\ r \in Roles /\ cr.mem[r][o] \in Member
      /\ TakesIn(cr.mem[r][o], cr'.mem[r][o], guest[r][o], guest'[r][o], pod[r][o], cr.gen,
                 r \in Persistent, cmd, EventList[r], Listed(cr, Wanted))
      /\ SetUp(cr.mem[r][o], guest[r][o], pod[r][o], r \in Persistent)
  BY <1>1, RoleKinds DEF AllTakeIn, Inv, TypeOK, Status, ToldAllInv, SetUpInv
<1>4. ASSUME Learns(cr'.mem[r][o], guest'[r][o], pod'[r][o])
      PROVE  Listed(cr', Wanted') \subseteq guest'[r][o].meta
  <2>1. Listed(cr', Wanted') \subseteq Listed(cr, Wanted)
    BY LastingListed
  <2> QED  BY <1>1, <1>2, <1>3, <1>4, <2>1 DEF TakesIn
<1>5. ASSUME Knows(cr'.mem[r][o], pod'[r][o], r \in Persistent),
             NEW q \in Roles, NEW x \in Ords, Serves(cr', Wanted', q, x)
      PROVE  WillHear(cr'.mem[r][o], cr'.gen, guest'[r][o].view, cr'.mem[q][x],
                      NodeOf(cr', q, x))
  <2> DEFINE m == cr.mem[r][o]
             n == cr'.mem[r][o]
             g == guest[r][o]
             h == guest'[r][o]
             p == pod[r][o]
             persistent == r \in Persistent
             c == cr.mem[q][x]
             d == cr'.mem[q][x]
             node == NodeOf(cr, q, x)
             gen == cr.gen
             events == EventList[r]
             known == Knows(m, p, persistent) => WillHear(m, gen, g.view, c, node)
             learned == Learns(m, g, p) => node \in g.meta
  <2>1. Serves(cr, Wanted, q, x) /\ node = NodeOf(cr', q, x) /\ cr'.gen = gen
    BY <1>5 DEF Lasting
  <2>2. Informed(m, n, g, h, p, gen, persistent, cmd, events) /\ SetUp(m, g, p, persistent)
    BY <1>1, <1>3, <1>5 DEF TakesIn
  <2>3. Brings(cmd, c, d, node)
    BY <2>1, AnnouncesBrings DEF Serves
  <2>4. known
    BY <1>2, <2>1
  <2>5. learned
    <3>1. node \in Listed(cr, Wanted)
      BY <2>1, ListedIs
    <3> QED  BY <1>2, <3>1
  <2>6. m \in Member /\ persistent \in BOOLEAN /\ "addnodes" \in events
    BY <1>3 DEF Listening
  <2>7. /\ known <=> (Knows(m, p, persistent) => WillHear(m, gen, g.view, c, node))
        /\ learned <=> (Learns(m, g, p) => node \in g.meta)
    OBVIOUS
  <2> HIDE DEF m, n, g, h, p, persistent, c, d, node, gen, events, known, learned
  <2>8. WillHear(n, gen, h.view, d, node)
    BY <2>2, <2>3, <2>4, <2>5, <2>6, <2>7, HearsNews
  <2> QED  BY <2>1, <2>8 DEF n, h, d, node, gen
<1> QED  BY <1>4, <1>5

LEMMA ToldAllInit == Init => ToldAllInv
<1> SUFFICES ASSUME Init PROVE ToldAllInv
  OBVIOUS
<1>1. \A r \in Roles, o \in Ords : cr.mem[r][o] = NoMember
  BY DEF Init
<1>2. \A r \in Listening, o \in Ords :
        /\ ~Learns(cr.mem[r][o], guest[r][o], pod[r][o])
        /\ ~Knows(cr.mem[r][o], pod[r][o], r \in Persistent)
  BY <1>1, RoleKinds DEF Learns, Knows, NoMember
<1> QED  BY <1>2, SetUpInit DEF ToldAllInv, AllTold

\* What each step means for those in service, and for what the instances know.
LEMMA LastingStep ==
  ASSUME SetUpInv, ViewKinds
  PROVE  \/ (FirstPass \/ Begin) /\ ~BeginPassNoSset /\ Begun /\ AllRest
         \/ Lasting /\ phase # "idle" /\ Refreshed /\ AllCatchUp
         \/ /\ Lasting /\ phase # "idle" /\ Handled
            /\ \E cmd \in Notify : Announces(cmd) /\ AllTakeIn(cmd)
         \/ /\ Lasting /\ AllRest
            /\ \A q \in Roles, x \in Ords : Serves(cr, Wanted, q, x)' =>
                 cr'.mem[q][x] = cr.mem[q][x]
<1>1. Inv /\ GoneForGood /\ Nameless(stat) /\ IdleIsStored
  BY DEF SetUpInv, MetaInv, GivenInv, DiskInv, ListInv
<1>2. CASE Refreshing /\ Refreshed /\ AllCatchUp
  BY <1>2, PassGoesOn, GoesOnLasting
<1>3. CASE (\E r \in Roles : HandleRole(r)) /\ Handled
           /\ \E cmd \in Notify : Announces(cmd) /\ AllTakeIn(cmd)
  BY <1>3, PassGoesOn, GoesOnLasting
<1>4. CASE WriteStatus /\ Stored /\ AllRest
  <2>1. \A q \in Roles, x \in Ords : Serves(cr, Wanted, q, x)' =>
          cr'.mem[q][x] = cr.mem[q][x]
    BY <1>4 DEF Stored, Stores, NoMember, Requested, Serves
  <2> QED  BY <1>1, <1>4, <2>1, WrittenLasting
<1>5. CASE (Environment \/ UNCHANGED vars) /\ Outside /\ AllRest
  <2>1. cr' = cr
    BY <1>5 DEF Outside
  <2> QED  BY <1>1, <1>5, <2>1, OutsideLasting
<1> QED  BY <1>2, <1>3, <1>4, <1>5 DEF ViewKinds

LEMMA ToldAllStep ==
  /\ ToldAllInv /\ [Next]_vars
  /\ [~BeginPassOverwritten]_vars /\ [~PassDies]_vars /\ [~BlindRetry]_vars
  /\ [~BeginPassNoSset]_vars /\ [~DeliversPart]_vars
  => ToldAllInv'
<1> SUFFICES ASSUME ToldAllInv, [Next]_vars, [~BeginPassOverwritten]_vars, [~PassDies]_vars,
                    [~BlindRetry]_vars, [~BeginPassNoSset]_vars, [~DeliversPart]_vars
             PROVE  ToldAllInv'
  OBVIOUS
<1>1. SetUpInv /\ SetUpInv' /\ ViewKinds
  BY SetUpStep DEF ToldAllInv
<1>2. Inv'
  BY <1>1 DEF SetUpInv, MetaInv, GivenInv, DiskInv, ListInv
<1>3. AllTold'
  BY <1>1, <1>2, LastingStep, BeginTold, CatchUpTold, NewsTold, RestTold
<1> QED  BY <1>1, <1>3 DEF ToldAllInv

\* Those ready at rest know, and are done with the generation.
LEMMA KnowsAtRest ==
  ASSUME SetUpInv, AtRest, NEW r \in Scripted, NEW o \in Ords, stat.mem[r][o].state = "ready"
  PROVE  /\ cr = stat /\ Wanted = spec /\ Inv
         /\ Knows(stat.mem[r][o], pod[r][o], r \in Persistent)
         /\ stat.mem[r][o].setup = stat.gen /\ stat.mem[r][o].pend = NoNotify
<1>1. /\ cr = stat /\ Wanted = spec /\ TrackInv /\ Inv /\ r \in Roles
      /\ stat.mem[r][o] \in Member
  BY RoleKinds DEF AtRest, IdleIsStored, SetUpInv, MetaInv, GivenInv, DiskInv,
                             ListInv, Inv, TypeOK, Status, Wanted
<1>2. o \in Present(stat.mem[r])
  BY DEF Present
<1>3. /\ Stable(stat.mem[r][o], stat.gen)
      /\ pod[r][o] = [phase |-> "up", cid |-> stat.mem[r][o].conf]
  BY <1>1, <1>2 DEF AtRest, Settled
<1>4. Trusted(stat.mem[r][o], guest[r][o])
  BY <1>1 DEF TrackInv
<1>5. stat.mem[r][o].setup = stat.gen /\ stat.mem[r][o].pend = NoNotify
  BY <1>3, <1>4 DEF Stable, Trusted
<1>6. InForce(stat.mem[r][o], pod[r][o], r \in Persistent)
  BY <1>3 DEF InForce, Reaches
<1> QED  BY <1>1, <1>4, <1>5, <1>6 DEF Knows, Trusted

\* At rest every ready instance whose app has its script run and asks for "addnodes" has
\* been told of all members.  Whoever is not up to date with the generation will be queued
\* the news of a member when that member has been configured; whoever is setting up lists
\* all of them already; and a member is found up to date only when nobody is left to be
\* configured.  Besides what the configmeta needs,
\* no delivery may fail in part: a command that failed is sent again after later ones that
\* got through, so that an addition may be undone by an older deletion of the same node.
THEOREM ViewsComplete ==
  Spec /\ KeepsCopy /\ [][~PassDies]_vars /\ [][~BlindRetry]_vars /\ [][~BeginPassNoSset]_vars
       /\ [][~DeliversPart]_vars
    => []RestingViewsComplete
<1>1. ToldAllInv => RestingViewsComplete
  <2> SUFFICES ASSUME ToldAllInv, AtRest, NEW i \in Instances,
                      {"configure", "addnodes"} \subseteq EventList[i[1]],
                      NEW node \in Listed(stat, spec)
               PROVE  node \in guest[i[1]][i[2]].view
    BY DEF RestingViewsComplete
  <2>1. PICK r \in Listening, o \in Ords : i = <<r, o>> /\ stat.mem[r][o].state = "ready"
    BY DEF Instances, Listening, Scripted
  <2>2. /\ cr = stat /\ Wanted = spec
        /\ Knows(stat.mem[r][o], pod[r][o], r \in Persistent)
        /\ stat.mem[r][o].setup = stat.gen /\ stat.mem[r][o].pend = NoNotify
    BY <2>1, KnowsAtRest, RoleKinds DEF ToldAllInv
  <2>3. PICK q \in Roles, x \in Ords : node = NodeOf(stat, q, x) /\ Serves(stat, spec, q, x)
    BY ListedIs
  <2>4. WillHear(stat.mem[r][o], stat.gen, guest[r][o].view, stat.mem[q][x], node)
    BY <2>2, <2>3 DEF ToldAllInv, AllTold, HasAll
  <2>5. node \in guest[r][o].view
    BY <2>2, <2>4 DEF WillHear, WillKnow, NoNotify
  <2> QED  BY <2>1, <2>5
<1> QED  BY <1>1, ToldAllInit, ToldAllStep, PTL DEF Spec, KeepsCopy

-----------------------------------------------------------------------------
(* No app instance is left knowing of anybody else. *)

InService(st, node) ==
  \E q \in Roles, x \in Ords : node = NodeOf(st, q, x) /\ st.mem[q][x].state \in Requested

\* The members whose leaving has yet to be announced.
Departing(st, node) ==
  \E q \in Roles, x \in Ords :
    node = NodeOf(st, q, x) /\ st.mem[q][x].state = "deletePending"

\* A node that m will not know of when all is delivered, unless it is that of a member, or
\* m is behind and will be told of its leaving.
WontStay(m, gen, view, node, st) ==
  \/ WontKnow(node, m.pend, view)
  \/ InService(st, node)
  \/ m.setup # gen /\ Departing(st, node)

\* While somebody of a role is being created nobody's leaving is announced: there are not
\* both.
Apart == \A r \in Roles : \/ With(cr.mem[r], {"creating"}) = {}
                          \/ With(cr.mem[r], {"deletePending"}) = {}

AllExact ==
  \A r \in Attentive, o \in Ords :
    /\ Learns(cr.mem[r][o], guest[r][o], pod[r][o]) =>
         \A node \in guest[r][o].meta : InService(cr, node)
    /\ Knows(cr.mem[r][o], pod[r][o], r \in Persistent) =>
         \A node \in Node : WontStay(cr.mem[r][o], cr.gen, guest[r][o].view, node, cr)

ExactInv == ToldAllInv /\ Apart /\ AllExact

\* A member in service that is taken out without passing through deletePending: the others
\* are never told.
DropsUnheard ==
  \E r \in Roles, o \in Ords :
    cr.mem[r][o].state \in Requested /\ cr'.mem[r][o].state = "deleting"

LEMMA BeginApart ==
  ASSUME DiskInv, FirstPass \/ Begin, Begun, cr = stat, Apart
  PROVE  Apart'
<1> SUFFICES ASSUME NEW r \in Roles, NEW o \in Ords, cr'.mem[r][o].state = "creating",
                    NEW x \in Ords, cr'.mem[r][x].state = "deletePending"
             PROVE  FALSE
  BY DEF Apart, With
<1>1. Inv
  BY DEF DiskInv, ListInv
<1>2. stat.mem[r][o].state = "creating"
  BY DEF Begun, Begins, NewMember, NoMember
<1>3. stat.mem[r][x].state = "deletePending"
  <2>1. CASE FirstPass
    BY <1>1, <2>1 DEF FirstPass, Inv, TypeOK, Status
  <2>2. CASE Begin
    <3>1. PICK R : (R = {} \/ ~Postponed) /\ cr'.mem = Synced(R).mem
      BY <1>1, <2>2, BegunFrom
    <3>2. R = {}
      BY <1>2, <3>1 DEF Postponed, Checked, ContainerChecked, With
    <3>3. cr'.mem[r] = Checked(r)
      BY <1>1, <3>1, <3>2 DEF Synced, Inv, TypeOK, Status
    <3>4. stat.mem[r][x] \in Member
      BY <1>1 DEF Inv, TypeOK, Status
    <3> QED  BY <3>3, <3>4 DEF Checked, ContainerChecked, Member
  <2> QED  BY <2>1, <2>2
<1> QED  BY <1>2, <1>3 DEF Apart, With

\* What becomes of those in service and of those on their way out.
LEMMA BeginStands ==
  ASSUME DiskInv, FirstPass \/ Begin, ~BeginPassNoSset, Begun, cr = stat, ~DropsUnheard,
         NEW node
  PROVE  /\ InService(cr, node) =>
              InService(cr', node) \/ (Departing(cr', node) /\ cr'.gen > cr.gen)
         /\ Departing(cr, node) => Departing(cr', node)
<1>1. ASSUME NEW q \in Roles, NEW x \in Ords, cr.mem[q][x].state \in Requested,
             node = NodeOf(cr, q, x)
      PROVE  InService(cr', node) \/ (Departing(cr', node) /\ cr'.gen > cr.gen)
  <2>1. node = NodeOf(cr', q, x)
    BY <1>1, NamesStay DEF Requested, NodeOf
  <2>2. Begins(cr.mem[q][x], cr'.mem[q][x], pod[q][x], q \in Persistent)
    BY DEF Begun
  <2>3. cr'.mem[q][x].state \in Requested \cup {"deletePending"}
    BY <1>1, <2>2 DEF Begins, Requested, DropsUnheard
  <2>4. cr'.mem[q][x].state \notin Requested => cr'.gen > cr.gen
    BY <1>1, GenBegins
  <2> QED  BY <2>1, <2>3, <2>4 DEF InService, Departing
<1>2. ASSUME NEW q \in Roles, NEW x \in Ords, cr.mem[q][x].state = "deletePending",
             node = NodeOf(cr, q, x)
      PROVE  Departing(cr', node)
  <2>1. node = NodeOf(cr', q, x)
    BY <1>2, NamesStay DEF NodeOf
  <2>2. Begins(cr.mem[q][x], cr'.mem[q][x], pod[q][x], q \in Persistent)
    BY DEF Begun
  <2>3. cr'.mem[q][x].state = "deletePending"
    BY <1>2, <2>2 DEF Begins
  <2> QED  BY <2>1, <2>3 DEF Departing
<1> QED  BY <1>1, <1>2 DEF InService, Departing

LEMMA StaysLater ==
  ASSUME NEW m \in Member, NEW n, NEW g, NEW h, NEW node, NEW gen \in Nat, NEW next \in Nat,
         NEW st, NEW new, Ordered(m, gen), next >= gen,
         n.setup = m.setup, n.pend = m.pend, h.view = g.view,
         NEW stood, stood <=> (InService(st, node) =>
                                InService(new, node) \/ (Departing(new, node) /\ next > gen)),
         NEW left, left <=> (Departing(st, node) => Departing(new, node)),
         stood, left, WontStay(m, gen, g.view, node, st)
  PROVE  WontStay(n, next, h.view, node, new)
<1>1. m.setup \in Nat /\ m.cfg \in Nat /\ m.setup <= gen
  BY DEF Ordered, Member
<1>2. m.setup # gen \/ next > gen => m.setup # next
  BY <1>1
<1> QED  BY <1>2 DEF WontStay

LEMMA BeginExact ==
  ASSUME ExactInv, FirstPass \/ Begin, ~BeginPassNoSset, Begun, AllRest, ~DropsUnheard, Inv'
  PROVE  Apart' /\ AllExact'
<1>1. /\ DiskInv /\ Inv /\ cr = stat /\ Apart
      /\ cr.gen \in Nat /\ cr'.gen \in Nat /\ cr'.gen >= cr.gen
  <2>1. DiskInv /\ Inv /\ IdleIsStored
    BY DEF ExactInv, ToldAllInv, SetUpInv, MetaInv, GivenInv, DiskInv, ListInv
  <2>2. cr = stat
    BY <2>1, PassBegins DEF IdleIsStored
  <2> QED  BY <2>1, <2>2, GenBegins DEF Inv, TypeOK, Status, ExactInv
<1>2. Apart'
  BY <1>1, BeginApart
<1> SUFFICES ASSUME NEW r \in Attentive, NEW o \in Ords
             PROVE  /\ Learns(cr'.mem[r][o], guest'[r][o], pod'[r][o]) =>
                         \A node \in guest'[r][o].meta : InService(cr', node)
                    /\ Knows(cr'.mem[r][o], pod'[r][o], r \in Persistent) =>
                         \A node \in Node :
                           WontStay(cr'.mem[r][o], cr'.gen, guest'[r][o].view, node, cr')
  BY <1>2 DEF AllExact
<1>3. /\ Learns(cr.mem[r][o], guest[r][o], pod[r][o]) =>
           \A node \in guest[r][o].meta : InService(cr, node)
      /\ Knows(cr.mem[r][o], pod[r][o], r \in Persistent) =>
           \A node \in Node : WontStay(cr.mem[r][o], cr.gen, guest[r][o].view, node, cr)
  BY DEF ExactInv, AllExact
<1>4. /\ r \in Roles /\ cr.mem[r][o] \in Member /\ Ordered(cr.mem[r][o], cr.gen)
      /\ Rests(cr.mem[r][o], cr'.mem[r][o], guest[r][o], guest'[r][o], pod[r][o], pod'[r][o],
               r \in Persistent)
  BY <1>1, RoleKinds DEF Inv, TypeOK, Status, Sound, ListOrdered, AllRest
<1>5. ASSUME Learns(cr'.mem[r][o], guest'[r][o], pod'[r][o]), NEW node \in guest'[r][o].meta
      PROVE  InService(cr', node)
  <2>1. cr'.mem[r][o].state = "creating"
    BY <1>5 DEF Learns
  <2>2. SameInService(cr', cr)
    BY <1>1, <1>4, <2>1, BeginPostponed
  <2>3. InService(cr, node)
    BY <1>3, <1>4, <1>5 DEF Rests
  <2> QED  BY <2>2, <2>3 DEF SameInService, InService, NodeOf, With
<1>6. ASSUME Knows(cr'.mem[r][o], pod'[r][o], r \in Persistent), NEW node \in Node
      PROVE  WontStay(cr'.mem[r][o], cr'.gen, guest'[r][o].view, node, cr')
  <2> DEFINE m == cr.mem[r][o]
             n == cr'.mem[r][o]
             g == guest[r][o]
             h == guest'[r][o]
             gen == cr.gen
             next == cr'.gen
             st == cr
             new == cr'
             stood == InService(st, node) =>
                        InService(new, node) \/ (Departing(new, node) /\ next > gen)
             left == Departing(st, node) => Departing(new, node)
  <2>1. /\ Knows(m, pod[r][o], r \in Persistent)
        /\ n.setup = m.setup /\ n.pend = m.pend /\ h.view = g.view
    BY <1>4, <1>6 DEF Rests
  <2>2. WontStay(m, gen, g.view, node, st)
    BY <1>3, <2>1
  <2>3. stood /\ left
    BY <1>1, BeginStands
  <2>4. /\ m \in Member /\ Ordered(m, gen) /\ gen \in Nat /\ next \in Nat /\ next >= gen
        /\ stood <=> (InService(st, node) =>
                       InService(new, node) \/ (Departing(new, node) /\ next > gen))
        /\ left <=> (Departing(st, node) => Departing(new, node))
    BY <1>1, <1>4
  <2> HIDE DEF m, n, g, h, gen, next, st, new, stood, left
  <2>5. WontStay(n, next, h.view, node, new)
    BY <2>1, <2>2, <2>3, <2>4, StaysLater
  <2> QED  BY <2>5 DEF n, h, next, new
<1> QED  BY <1>5, <1>6

LEMMA StaysTold ==
  ASSUME NEW m \in Member, NEW n, NEW g, NEW h, NEW node, NEW gen, NEW st,
         NEW quiet \in BOOLEAN, Tells(m, n, g, h, quiet),
         NEW nobody, nobody <=> (quiet => ~Departing(st, node)), nobody,
         WontStay(m, gen, g.view, node, st)
  PROVE  WontStay(n, gen, h.view, node, st)
<1>1. m.pend \in Seq(Notify)
  BY DEF Member
<1>2. WontKnow(node, m.pend, g.view) => WontKnow(node, n.pend, h.view)
  BY <1>1, KnowsOnceTold DEF Tells
<1> QED  BY <1>2 DEF WontStay, Tells

LEMMA CatchUpExact ==
  ASSUME ExactInv, Refreshed, AllCatchUp
  PROVE  Apart' /\ AllExact'
<1>1. Inv /\ Apart /\ cr'.gen = cr.gen
  BY DEF ExactInv, ToldAllInv, SetUpInv, MetaInv, GivenInv, DiskInv, ListInv, Refreshed,
         SameHeader
<1>2. \A q \in Roles, x \in Ords :
        cr'.mem[q][x].state = cr.mem[q][x].state /\ NodeOf(cr', q, x) = NodeOf(cr, q, x)
  BY DEF Refreshed, Refreshes, SameHeader, NodeOf
<1>3. Apart'
  BY <1>1, <1>2 DEF Apart, With
<1>4. \A node : /\ InService(cr', node) <=> InService(cr, node)
                /\ Departing(cr', node) <=> Departing(cr, node)
  BY <1>2 DEF InService, Departing
<1> SUFFICES ASSUME NEW r \in Attentive, NEW o \in Ords
             PROVE  /\ Learns(cr'.mem[r][o], guest'[r][o], pod'[r][o]) =>
                         \A node \in guest'[r][o].meta : InService(cr', node)
                    /\ Knows(cr'.mem[r][o], pod'[r][o], r \in Persistent) =>
                         \A node \in Node :
                           WontStay(cr'.mem[r][o], cr'.gen, guest'[r][o].view, node, cr')
  BY <1>3 DEF AllExact
<1>5. /\ Learns(cr.mem[r][o], guest[r][o], pod[r][o]) =>
           \A node \in guest[r][o].meta : InService(cr, node)
      /\ Knows(cr.mem[r][o], pod[r][o], r \in Persistent) =>
           \A node \in Node : WontStay(cr.mem[r][o], cr.gen, guest[r][o].view, node, cr)
  BY DEF ExactInv, AllExact
<1>6. /\ pod' = pod /\ r \in Roles /\ cr.mem[r][o] \in Member
      /\ CatchesUp(cr.mem[r][o], cr'.mem[r][o], guest[r][o], guest'[r][o], pod[r][o],
                   r \in Persistent, ~Transitional)
  BY <1>1, RoleKinds DEF AllCatchUp, Refreshed, Inv, TypeOK, Status
<1>7. Learns(cr'.mem[r][o], guest'[r][o], pod'[r][o]) =>
        \A node \in guest'[r][o].meta : InService(cr', node)
  BY <1>4, <1>5, <1>6 DEF CatchesUp
<1>8. ASSUME Knows(cr'.mem[r][o], pod'[r][o], r \in Persistent), NEW node \in Node
      PROVE  WontStay(cr'.mem[r][o], cr'.gen, guest'[r][o].view, node, cr')
  <2> DEFINE m == cr.mem[r][o]
             n == cr'.mem[r][o]
             g == guest[r][o]
             h == guest'[r][o]
             gen == cr.gen
             quiet == ~Transitional
             st == cr
             nobody == quiet => ~Departing(st, node)
  <2>1. /\ Knows(m, pod[r][o], r \in Persistent) /\ Tells(m, n, g, h, quiet) /\ m \in Member
    BY <1>6, <1>8 DEF CatchesUp
  <2>2. WontStay(m, gen, g.view, node, st)
    BY <1>5, <2>1
  <2>3. nobody
    BY DEF Departing, Transitional, With, MemberState
  <2>4. quiet \in BOOLEAN /\ (nobody <=> (quiet => ~Departing(st, node)))
    BY DEF Transitional
  <2> HIDE DEF m, n, g, h, gen, quiet, st, nobody
  <2>5. WontStay(n, gen, h.view, node, st)
    BY <2>1, <2>2, <2>3, <2>4, StaysTold
  <2> QED  BY <1>1, <1>4, <2>5 DEF n, h, gen, st, WontStay
<1> QED  BY <1>7, <1>8

LEMMA RestExact ==
  ASSUME ExactInv, AllRest, Stored \/ Outside
  PROVE  Apart' /\ AllExact'
<1>1. /\ Apart /\ cr'.gen = cr.gen
      /\ \A q \in Roles, x \in Ords :
           /\ NodeOf(cr', q, x) = NodeOf(cr, q, x)
           /\ \/ cr'.mem[q][x] = cr.mem[q][x]
              \/ cr.mem[q][x].state \in {"none", "gone"} /\ cr'.mem[q][x].state = "none"
  BY DEF ExactInv, Stored, Stores, NoMember, Outside, SameHeader, NodeOf
<1>2. Apart'
  BY <1>1 DEF Apart, With
<1>3. \A node : /\ InService(cr, node) => InService(cr', node)
                /\ Departing(cr, node) => Departing(cr', node)
  BY <1>1 DEF InService, Departing, Requested
<1> SUFFICES ASSUME NEW r \in Attentive, NEW o \in Ords
             PROVE  /\ Learns(cr'.mem[r][o], guest'[r][o], pod'[r][o]) =>
                         \A node \in guest'[r][o].meta : InService(cr', node)
                    /\ Knows(cr'.mem[r][o], pod'[r][o], r \in Persistent) =>
                         \A node \in Node :
                           WontStay(cr'.mem[r][o], cr'.gen, guest'[r][o].view, node, cr')
  BY <1>2 DEF AllExact
<1>4. /\ Learns(cr.mem[r][o], guest[r][o], pod[r][o]) =>
           \A node \in guest[r][o].meta : InService(cr, node)
      /\ Knows(cr.mem[r][o], pod[r][o], r \in Persistent) =>
           \A node \in Node : WontStay(cr.mem[r][o], cr.gen, guest[r][o].view, node, cr)
  BY DEF ExactInv, AllExact
<1>5. Rests(cr.mem[r][o], cr'.mem[r][o], guest[r][o], guest'[r][o], pod[r][o], pod'[r][o],
            r \in Persistent)
  BY RoleKinds DEF AllRest
<1> QED  BY <1>1, <1>3, <1>4, <1>5 DEF Rests, WontStay

\* News: whoever the command names has arrived, or leaves and is said to; those on their
\* way out whose leaving is not announced stay so.
StaysNews(cmd, st, new, node) ==
  /\ InService(st, node) => InService(new, node)
  /\ node \in cmd.nodes => InService(new, node) \/ cmd.op = "delnodes"
  /\ Departing(st, node) =>
       Departing(new, node) \/ (cmd.op = "delnodes" /\ node \in cmd.nodes)

LEMMA AnnouncesStays ==
  ASSUME Apart, Handled, NEW cmd \in Notify, Announces(cmd), NEW node
  PROVE  StaysNews(cmd, cr, cr', node)
<1>1. \A q \in Roles, x \in Ords :
        /\ NodeOf(cr', q, x) = NodeOf(cr, q, x)
        /\ cr'.mem[q][x].state \in Requested <=> cr.mem[q][x].state \in Requested
  BY InServiceStays DEF Handled, SameHeader, NodeOf, With
<1>2. InService(cr, node) => InService(cr', node)
  BY <1>1 DEF InService
<1>3. ASSUME node \in cmd.nodes PROVE InService(cr', node) \/ cmd.op = "delnodes"
  <2>1. PICK q \in Roles, x \in Ords :
          /\ node = NodeOf(cr, q, x)
          /\ cr.mem[q][x].state = IF cmd.op = "addnodes" THEN "creating" ELSE "deletePending"
    BY <1>3 DEF Announces
  <2>2. cmd.op \in {"addnodes", "delnodes"}
    BY DEF Notify
  <2> QED  BY <1>2, <2>1, <2>2 DEF InService, Requested
<1>4. ASSUME NEW q \in Roles, NEW x \in Ords, node = NodeOf(cr, q, x),
             cr.mem[q][x].state = "deletePending"
      PROVE  Departing(cr', node) \/ (cmd.op = "delnodes" /\ node \in cmd.nodes)
  <2>1. CASE cr'.mem[q][x].state = "deletePending"
    BY <1>1, <1>4, <2>1 DEF Departing
  <2>2. CASE cr'.mem[q][x].state # "deletePending"
    <3>1. With(cr.mem[q], {"creating"}) = {}
      BY <1>4 DEF Apart, With
    <3> QED  BY <1>4, <2>2, <3>1 DEF Announces
  <2> QED  BY <2>1, <2>2
<1> QED  BY <1>2, <1>3, <1>4 DEF StaysNews, Departing

LEMMA AnnouncesApart ==
  ASSUME Apart, Handled, NEW cmd \in Notify, Announces(cmd)
  PROVE  Apart'
<1> SUFFICES ASSUME NEW r \in Roles, NEW o \in Ords, cr'.mem[r][o].state = "creating",
                    NEW x \in Ords, cr'.mem[r][x].state = "deletePending"
             PROVE  FALSE
  BY DEF Apart, With
<1>1. cr.mem[r][o].state = "creating"
  BY DEF Announces, With
<1>2. cr.mem[r][x].state = "deletePending"
  BY DEF Handled, Handles, Waits, Launches, RunsScript, HandsOut, Readies, Breaks, Leaves
<1> QED  BY <1>1, <1>2 DEF Apart, With

LEMMA StaysNewsTold ==
  ASSUME NEW m \in Member, NEW n, NEW g, NEW h, NEW p, NEW gen, NEW persistent \in BOOLEAN,
         NEW cmd \in Notify, NEW events, "delnodes" \in events, NEW st, NEW new, NEW node,
         Informed(m, n, g, h, p, gen, persistent, cmd, events), SetUp(m, g, p, persistent),
         StaysNews(cmd, st, new, node), NEW known, NEW learned,
         known <=> (Knows(m, p, persistent) => WontStay(m, gen, g.view, node, st)), known,
         learned <=> (Learns(m, g, p) /\ node \in g.meta => InService(st, node)), learned
  PROVE  WontStay(n, gen, h.view, node, new)
<1>1. m.pend \in Seq(Notify) /\ NoNotify \in Seq(Notify)
  BY DEF Member, NoNotify
<1>2. ASSUME NEW old \in Seq(Notify), WontKnow(node, old, g.view) \/ node \in cmd.nodes
      PROVE  WontKnow(node, Append(old, cmd), g.view) \/ InService(new, node)
  BY <1>2, WordsAppended DEF StaysNews
<1>3. ASSUME NEW old \in Seq(Notify), node \in cmd.nodes, cmd.op = "delnodes"
      PROVE  WontKnow(node, Append(old, cmd), g.view) /\ cmd.nodes # {}
  BY <1>3, WordsAppended
<1>4. CASE /\ Knows(m, p, persistent) /\ n.setup = m.setup
           /\ n.pend = IF Asks(gen, n.setup, cmd, events) THEN Append(m.pend, cmd) ELSE m.pend
  <2>1. CASE WontKnow(node, m.pend, g.view)
    <3>1. WontKnow(node, n.pend, g.view) \/ InService(new, node)
      BY <1>1, <1>2, <1>4, <2>1
    <3> QED  BY <3>1 DEF WontStay, Informed
  <2>2. CASE InService(st, node)
    BY <2>2 DEF WontStay, StaysNews
  <2>3. CASE m.setup # gen /\ Departing(st, node)
    <3>1. Departing(new, node) \/ WontKnow(node, n.pend, g.view)
      BY <1>1, <1>3, <1>4, <2>3 DEF StaysNews, Asks
    <3> QED  BY <1>4, <2>3, <3>1 DEF WontStay, Informed
  <2> QED  BY <1>4, <2>1, <2>2, <2>3 DEF WontStay
<1>5. CASE /\ Learns(m, g, p) /\ g.file = "ok"
           /\ n.pend = IF Asks(gen, n.setup, cmd, events) THEN Append(NoNotify, cmd)
                       ELSE NoNotify
  <2>1. CASE node \in g.view
    <3>1. InService(st, node)
      BY <1>5, <2>1 DEF SetUp
    <3> QED  BY <3>1 DEF WontStay, StaysNews
  <2>2. CASE node \notin g.view
    <3>1. WontKnow(node, NoNotify, g.view)
      BY <2>2 DEF WontKnow, Unnamed, NoNotify
    <3>2. WontKnow(node, n.pend, g.view) \/ InService(new, node)
      BY <1>1, <1>2, <1>5, <3>1
    <3> QED  BY <3>2 DEF WontStay, Informed
  <2> QED  BY <2>1, <2>2
<1> QED  BY <1>4, <1>5 DEF Informed

LEMMA NewsExact ==
  ASSUME ExactInv, Handled, phase # "idle", NEW cmd \in Notify, Announces(cmd),
         AllTakeIn(cmd)
  PROVE  Apart' /\ AllExact'
<1>1. Inv /\ Apart /\ pod' = pod /\ cr'.gen = cr.gen
  BY DEF ExactInv, ToldAllInv, SetUpInv, MetaInv, GivenInv, DiskInv, ListInv, Handled,
         SameHeader
<1>2. Apart' /\ \A node : StaysNews(cmd, cr, cr', node)
  BY <1>1, AnnouncesApart, AnnouncesStays
<1> SUFFICES ASSUME NEW r \in Attentive, NEW o \in Ords
             PROVE  /\ Learns(cr'.mem[r][o], guest'[r][o], pod'[r][o]) =>
                         \A node \in guest'[r][o].meta : InService(cr', node)
                    /\ Knows(cr'.mem[r][o], pod'[r][o], r \in Persistent) =>
                         \A node \in Node :
                           WontStay(cr'.mem[r][o], cr'.gen, guest'[r][o].view, node, cr')
  BY <1>2 DEF AllExact
<1>3. /\ Learns(cr.mem[r][o], guest[r][o], pod[r][o]) =>
           \A node \in guest[r][o].meta : InService(cr, node)
      /\ Knows(cr.mem[r][o], pod[r][o], r \in Persistent) =>
           \A node \in Node : WontStay(cr.mem[r][o], cr.gen, guest[r][o].view, node, cr)
  BY DEF ExactInv, AllExact
<1>4. /\ r \in Roles /\ cr.mem[r][o] \in Member
      /\ TakesIn(cr.mem[r][o], cr'.mem[r][o], guest[r][o], guest'[r][o], pod[r][o], cr.gen,
                 r \in Persistent, cmd, EventList[r], Listed(cr, want))
      /\ SetUp(cr.mem[r][o], guest[r][o], pod[r][o], r \in Persistent)
  BY <1>1, RoleKinds
     DEF AllTakeIn, Inv, TypeOK, Status, ExactInv, ToldAllInv, SetUpInv
<1>5. ASSUME Learns(cr'.mem[r][o], guest'[r][o], pod'[r][o]), NEW node \in guest'[r][o].meta
      PROVE  InService(cr', node)
  <2>1. node \in Listed(cr, want) => InService(cr, node)
    BY ListedIs DEF InService, Serves
  <2>2. InService(cr, node)
    BY <1>1, <1>3, <1>4, <1>5, <2>1 DEF TakesIn
  <2> QED  BY <1>2, <2>2 DEF StaysNews
<1>6. ASSUME Knows(cr'.mem[r][o], pod'[r][o], r \in Persistent), NEW node \in Node
      PROVE  WontStay(cr'.mem[r][o], cr'.gen, guest'[r][o].view, node, cr')
  <2> DEFINE m == cr.mem[r][o]
             n == cr'.mem[r][o]
             g == guest[r][o]
             h == guest'[r][o]
             p == pod[r][o]
             persistent == r \in Persistent
             gen == cr.gen
             st == cr
             new == cr'
             events == EventList[r]
             known == Knows(m, p, persistent) => WontStay(m, gen, g.view, node, st)
             learned == Learns(m, g, p) /\ node \in g.meta => InService(st, node)
  <2>1. Informed(m, n, g, h, p, gen, persistent, cmd, events) /\ SetUp(m, g, p, persistent)
    BY <1>1, <1>4, <1>6 DEF TakesIn
  <2>2. StaysNews(cmd, st, new, node)
    BY <1>2
  <2>3. known /\ learned
    BY <1>3
  <2>4. m \in Member /\ persistent \in BOOLEAN /\ "delnodes" \in events
    BY <1>4 DEF Attentive, Events
  <2>5. /\ known <=> (Knows(m, p, persistent) => WontStay(m, gen, g.view, node, st))
        /\ learned <=> (Learns(m, g, p) /\ node \in g.meta => InService(st, node))
    OBVIOUS
  <2> HIDE DEF m, n, g, h, p, persistent, gen, events, st, new, known,
              learned
  <2>6. WontStay(n, gen, h.view, node, new)
    BY <2>1, <2>2, <2>3, <2>4, <2>5, StaysNewsTold
  <2> QED  BY <1>1, <2>6 DEF n, h, gen, new
<1> QED  BY <1>5, <1>6

LEMMA ExactInit == Init => ExactInv
<1> SUFFICES ASSUME Init PROVE ExactInv
  OBVIOUS
<1>1. \A r \in Roles, o \in Ords : cr.mem[r][o] = NoMember
  BY DEF Init
<1>2. \A r \in Attentive, o \in Ords :
        /\ ~Learns(cr.mem[r][o], guest[r][o], pod[r][o])
        /\ ~Knows(cr.mem[r][o], pod[r][o], r \in Persistent)
  BY <1>1, RoleKinds DEF Learns, Knows, NoMember
<1>3. Apart
  BY <1>1 DEF Apart, With, NoMember
<1> QED  BY <1>2, <1>3, ToldAllInit DEF ExactInv, AllExact

LEMMA ExactStep ==
  /\ ExactInv /\ [Next]_vars
  /\ [~BeginPassOverwritten]_vars /\ [~PassDies]_vars /\ [~BlindRetry]_vars
  /\ [~BeginPassNoSset]_vars /\ [~DeliversPart]_vars
  /\ [~DropsUnheard]_vars
  => ExactInv'
<1> SUFFICES ASSUME ExactInv, [Next]_vars, [~BeginPassOverwritten]_vars, [~PassDies]_vars,
                    [~BlindRetry]_vars, [~BeginPassNoSset]_vars, [~DeliversPart]_vars,
                    [~DropsUnheard]_vars
             PROVE  ExactInv'
  OBVIOUS
<1>1. SetUpInv /\ SetUpInv' /\ ViewKinds /\ ToldAllInv'
  BY SetUpStep, ToldAllStep DEF ExactInv, ToldAllInv
<1>2. Inv'
  BY <1>1 DEF SetUpInv, MetaInv, GivenInv, DiskInv, ListInv
<1>3. CASE (FirstPass \/ Begin) /\ ~BeginPassNoSset /\ Begun /\ AllRest
  <2>1. ~UNCHANGED vars
    BY <1>3, PassBegins DEF vars
  <2> QED  BY <1>1, <1>2, <1>3, <2>1, BeginExact DEF ExactInv
<1>4. CASE Refreshed /\ AllCatchUp
  BY <1>1, <1>4, CatchUpExact DEF ExactInv
<1>5. CASE (\E r \in Roles : HandleRole(r)) /\ Handled
           /\ \E cmd \in Notify : Announces(cmd) /\ AllTakeIn(cmd)
  BY <1>1, <1>5, PassGoesOn, NewsExact DEF ExactInv
<1>6. CASE (Stored \/ Outside) /\ AllRest
  BY <1>1, <1>6, RestExact DEF ExactInv
<1> QED  BY <1>1, <1>3, <1>4, <1>5, <1>6 DEF ViewKinds

\* At rest every ready instance whose app asks for all the events knows exactly the
\* members.  It has been told of all of them, as above.  Whom it knows of and who is no
\* longer in service had a leaving to be announced: the generation moved on when it was
\* decided, so that the instance was behind and had the news queued when the member went,
\* and nobody of a role is being created while others of it wait to leave.  This needs all
\* that completeness needs, and that nobody is dropped from createPending or creating
\* straight to deleting: no handler announces the leaving of those.
THEOREM ViewsExact ==
  Spec /\ KeepsCopy /\ [][~PassDies]_vars /\ [][~BlindRetry]_vars /\ [][~BeginPassNoSset]_vars
       /\ [][~DeliversPart]_vars /\ [][~DropsUnheard]_vars
    => []RestingViews
<1>1. ExactInv => RestingViews
  <2> SUFFICES ASSUME ExactInv, AtRest, NEW i \in Instances, EventList[i[1]] = Events
               PROVE  Listed(stat, spec) = guest[i[1]][i[2]].view
    BY DEF RestingViews
  <2>1. PICK r \in Attentive, o \in Ords : i = <<r, o>> /\ stat.mem[r][o].state = "ready"
    BY DEF Instances, Attentive
  <2>2. /\ cr = stat /\ Wanted = spec /\ Inv /\ r \in Roles
        /\ Knows(stat.mem[r][o], pod[r][o], r \in Persistent)
        /\ stat.mem[r][o].setup = stat.gen /\ stat.mem[r][o].pend = NoNotify
    BY <2>1, KnowsAtRest, RoleKinds DEF ExactInv, ToldAllInv
  <2>3. ASSUME NEW node \in Listed(stat, spec) PROVE node \in guest[r][o].view
    <3>1. PICK q \in Roles, x \in Ords : node = NodeOf(stat, q, x) /\ Serves(stat, spec, q, x)
      BY ListedIs
    <3>2. WillHear(stat.mem[r][o], stat.gen, guest[r][o].view, stat.mem[q][x], node)
      BY <2>2, <3>1, RoleKinds DEF ExactInv, ToldAllInv, AllTold, HasAll
    <3> QED  BY <2>2, <3>2 DEF WillHear, WillKnow, NoNotify
  <2>4. ASSUME NEW node \in guest[r][o].view PROVE node \in Listed(stat, spec)
    <3>1. node \in Node
      BY <2>2 DEF Inv, TypeOK, Guest
    <3>2. WontStay(stat.mem[r][o], stat.gen, guest[r][o].view, node, stat)
      BY <2>2, <3>1 DEF ExactInv, AllExact
    <3>3. InService(stat, node)
      BY <2>2, <2>4, <3>2 DEF WontStay, WontKnow, NoNotify
    <3>4. PICK q \in Roles, x \in Ords :
            node = NodeOf(stat, q, x) /\ stat.mem[q][x].state \in Requested
      BY <3>3 DEF InService
    <3>5. spec[q] >= 0
      <4>1. x \in Present(stat.mem[q]) /\ x \in Nat
        BY <3>4, MaxMembersAssumption DEF Present, Requested, Ords
      <4>2. Present(stat.mem[q]) = 0 .. ((IF spec[q] > 0 THEN spec[q] ELSE 0) - 1)
        BY DEF AtRest, Settled
      <4>3. spec[q] \in Int
        BY <2>2, MaxMembersAssumption DEF Inv, TypeOK, Want
      <4> QED  BY <4>1, <4>2, <4>3
    <3> QED  BY <3>4, <3>5, ListedIs DEF Serves
  <2> QED  BY <2>1, <2>3, <2>4
<1> QED  BY <1>1, ExactInit, ExactStep, PTL DEF Spec, KeepsCopy

=============================================================================
