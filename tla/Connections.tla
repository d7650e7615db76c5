----------------------------- MODULE Connections -----------------------------
(***************************************************************************)
(* A cluster that is connected to config maps, secrets and another cluster *)
(* (the peer), and how a change of any of these reaches its members: the   *)
(* connection hash in the status, the counter annotation that numbers the  *)
(* changes (hashChangeCounter), the configmeta that carries the new data,  *)
(* and the setup script's --reconnect.  Config map and secret controllers  *)
(* and the peer's reconciler wake up the connected cluster by an update of *)
(* another annotation, which is all that update does: the next poll would  *)
(* compute the hash as well.                                               *)
(*                                                                         *)
(* Resource versions are abstracted to who holds the current version of    *)
(* the cluster resource.  The members of the cluster are those of one      *)
(* role without persistent storage; their lifecycle is ClusterReconciler's *)
(* subject.                                                                *)
(***************************************************************************)
EXTENDS Integers, FiniteSets

CONSTANTS
  Members,    \* the members of the cluster
  Sources,    \* the config maps and secrets its spec lists
  PeerMax,    \* bounds the members of the peer
  MaxEdits,   \* bounds the edits of config maps and secrets
  MaxResizes, \* bounds the spec changes of the peer
  MaxFaults   \* bounds failed commands, restarted pods and crashes

ASSUME MembersAssumption == IsFiniteSet(Members) /\ Members # {}
ASSUME BoundsAssumption == {PeerMax, MaxEdits, MaxResizes, MaxFaults} \subseteq Nat

Peer == "peer"
Pass == "pass"
Notifiers == Sources \cup {Peer}

VARIABLES
  res,      \* the version of each config map and secret, 0 for none
  events,   \* the sources whose controller has an event to handle
  peer,     \* the peer's member count and status
  trying,   \* the notifiers that try to update the annotation
  current,  \* who holds the current version of the cluster resource
  counter,  \* the annotation hashChangeCounter, 0 for none
  stat,     \* the status stanza
  guest,    \* what each member was given and has processed
  phase,    \* where the reconciler is
  cr,       \* its copy of status and annotation
  hash,     \* the hash it computed
  edits, resizes, faults,
  refused,  \* history: an update of hashChangeCounter has failed
  joining   \* history: members that were being set up when a change was seen

peerVars == <<peer, resizes>>
passVars == <<phase, cr, hash>>
vars == <<res, events, peer, trying, current, counter, stat, guest, passVars,
          edits, resizes, faults, refused, joining>>

\* What calcConnectionsHash looks at.
Hash == [res : [Sources -> Nat], gen : Nat]
NoHash == [res |-> [s \in Sources |-> 0], gen |-> 0]

MemberStatus == [state : {"creating", "ready"}, cfg : Nat, ver : Nat]
Status == [gen : Nat, hash : Hash, mem : [Members -> MemberStatus]]

\* The peer's generation, 0 as long as no pass has made its status, the members
\* its status lists, those of them on their way out, and whether it has told the
\* clusters connected to it.
PeerType == [gen : Nat, listed : 0 .. PeerMax,
             leaving : 0 .. PeerMax, told : BOOLEAN]

\* The configmeta file, the data the setup script last ran on, and whether a
\* configure script has ended.
Guest == [meta : Hash, script : Hash, done : BOOLEAN]
NewGuest == [meta |-> NoHash, script |-> NoHash, done |-> FALSE]

TypeOK ==
  /\ res \in [Sources -> Nat]
  /\ events \subseteq Sources
  /\ peer \in PeerType /\ peer.leaving <= peer.listed
  /\ trying \subseteq Notifiers
  /\ current \subseteq Notifiers \cup {Pass}
  /\ counter \in Nat
  /\ stat \in Status
  /\ guest \in [Members -> Guest]
  /\ phase \in {"idle", "hash", "members", "write"}
  /\ cr \in [status : Status, counter : Nat]
  /\ hash \in Hash
  /\ {edits, resizes, faults} \subseteq Nat
  /\ refused \in BOOLEAN /\ joining \subseteq Members

NewMember == [state |-> "creating", cfg |-> 0, ver |-> 0]

Init ==
  /\ res = [s \in Sources |-> 0] /\ events = {}
  /\ peer \in {[gen |-> 0, listed |-> 0, leaving |-> 0, told |-> FALSE],
              [gen |-> 1, listed |-> PeerMax, leaving |-> 0, told |-> TRUE]}
  /\ trying = {} /\ current = {} /\ counter = 0
  /\ stat = [gen |-> 1, hash |-> NoHash, mem |-> [m \in Members |-> NewMember]]
  /\ guest = [m \in Members |-> NewGuest]
  /\ phase = "idle" /\ cr = [status |-> stat, counter |-> 0] /\ hash = NoHash
  /\ edits = 0 /\ resizes = 0 /\ faults = 0
  /\ refused = FALSE /\ joining = {}

Fault(n) == faults + n <= MaxFaults /\ faults' = faults + n

HashNow == [res |-> res, gen |-> peer.gen]

-----------------------------------------------------------------------------
(* The reconciler of the connected cluster. *)

PassOver == /\ phase' = "idle" /\ hash' = NoHash
            /\ cr' = [status |-> stat', counter |-> counter']

\* What is in memory is lost.  Every object is an event for the next process.
ProcessDies ==
  /\ trying' = {} /\ current' = {}
  /\ events' = {s \in Sources : res[s] # 0}
  /\ UNCHANGED <<res, peerVars, counter, stat, guest, edits, refused, joining>>
  /\ PassOver

\* The status of a peer that has none is dereferenced.  The deferred function still
\* runs as the panic unwinds (cluster.go:86) and writes the status back, in which
\* nothing that this module keeps has changed since it was read.
PassDies ==
  /\ phase = "idle" /\ peer.gen = 0
  /\ ProcessDies
  /\ UNCHANGED faults

\* The hash is computed before anything else.
BeginPass ==
  /\ phase = "idle" /\ peer.gen # 0
  /\ phase' = "hash"
  /\ hash' = HashNow
  /\ cr' = [status |-> stat, counter |-> counter]
  /\ current' = current \cup {Pass}
  /\ UNCHANGED <<res, events, peerVars, trying, counter, stat, guest, edits, faults,
                 refused, joining>>

Settled(st) == \A m \in Members : st.mem[m].state = "ready" /\ st.mem[m].cfg = st.gen

\* The pass over a stable cluster whose connections are those it knows ends.
SameHash ==
  /\ phase = "hash" /\ hash = cr.status.hash
  /\ current' = current \ {Pass}
  /\ UNCHANGED <<res, events, peerVars, trying, counter, stat, guest, edits, faults,
                 refused, joining>>
  /\ IF Settled(cr.status) THEN PassOver ELSE phase' = "members" /\ UNCHANGED <<cr, hash>>

\* The counter moves in memory whether or not its update succeeds.  If the members
\* were stable before the generation moved, it is the next pass that sees to them.
NewHash ==
  /\ phase = "hash" /\ hash # cr.status.hash
  /\ cr' = [cr EXCEPT !.counter = @ + 1, !.status.gen = @ + 1, !.status.hash = hash]
  /\ IF Pass \in current
       THEN counter' = cr.counter + 1 /\ current' = {} /\ refused' = refused
       ELSE refused' = TRUE /\ UNCHANGED <<counter, current>>
  /\ joining' = joining \cup {m \in Members : cr.status.mem[m].state = "creating"}
  /\ phase' = IF Settled(cr.status) THEN "write" ELSE "members"
  /\ UNCHANGED <<res, events, peerVars, trying, stat, guest, hash, edits, faults>>

Ready == {m \in Members : cr.status.mem[m].state = "ready"}

\* Without the annotation the smallest version of a ready member stands in.
ConnectionVersion ==
  IF cr.counter # 0 THEN cr.counter
  ELSE IF Ready = {} THEN 0
  ELSE CHOOSE v \in {cr.status.mem[m].ver : m \in Ready} :
         \A m \in Ready : v <= cr.status.mem[m].ver

Reconnects(m) == cr.status.mem[m].ver < ConnectionVersion

Updated_Early(m, uploaded, ran) ==
  LET ms == cr.status.mem[m]
  IN  [ms EXCEPT !.ver = IF uploaded /\ Reconnects(m) THEN @ + 1 ELSE @,
                 !.cfg = IF uploaded /\ (ran \/ ~Reconnects(m)) THEN cr.status.gen ELSE @]

\* handleReadyMembers: the new configmeta, then --reconnect if the member has
\* missed a change; a member whose script fails is tried again.
Updated(m, uploaded, ran) ==
  LET ms == cr.status.mem[m]
  IN  IF uploaded /\ (ran \/ ~Reconnects(m))
        THEN [ms EXCEPT !.ver = IF Reconnects(m) THEN @ + 1 ELSE @, !.cfg = cr.status.gen]
        ELSE ms

Blocks_New(ms) == ms.cfg # cr.status.gen

\* checkGenOk: a member configured with an older generation holds up others.
Blocks(ms) == ms.cfg \notin {0, cr.status.gen}

\* handleCreatingMembers: the member takes the connection version whatever
\* configmeta its script runs on.
Configured(m, onward) ==
  LET ms == [cr.status.mem[m] EXCEPT !.ver = ConnectionVersion]
  IN  IF guest[m].done THEN [ms EXCEPT !.state = "ready"]
      ELSE IF ms.cfg = 0 /\ onward THEN [ms EXCEPT !.cfg = cr.status.gen]
      ELSE ms

\* syncMembers, with the configmeta made from what is there by now.  A member
\* that cannot be reached for the upload, or whose script fails, is a fault.
SyncMembers ==
  /\ phase = "members"
  /\ LET outdated == {m \in Ready : cr.status.mem[m].cfg # cr.status.gen}
     IN  \E failing \in SUBSET outdated : \E scriptFails \in SUBSET {m \in failing : Reconnects(m)} :
           LET uploaded == (outdated \ failing) \cup scriptFails
               ready == [m \in outdated |-> Updated(m, m \in uploaded, m \notin failing)]
               after == [m \in Members |-> IF m \in outdated THEN ready[m] ELSE cr.status.mem[m]]
               onward == \A m \in Members : ~Blocks(after[m])
               starts == {m \in Members \ Ready : ~guest[m].done /\ after[m].cfg = 0 /\ onward}
           IN  /\ Fault(Cardinality(failing))
               /\ cr' = [cr EXCEPT !.status.mem = [m \in Members |->
                          IF m \in Ready THEN after[m] ELSE Configured(m, onward)]]
               /\ guest' = [m \in Members |->
                    [guest[m] EXCEPT
                       !.meta = IF m \in uploaded \cup starts THEN HashNow ELSE @,
                       !.script = IF m \in starts \/ (m \in outdated \ failing /\ Reconnects(m))
                                    THEN HashNow ELSE @]]
               /\ joining' = joining \ (starts \cup {m \in outdated \ failing : Reconnects(m)})
  /\ phase' = "write"
  /\ UNCHANGED <<res, events, peerVars, trying, current, counter, stat, hash, edits, refused>>

WriteStatus_HashNow ==
  /\ phase = "write"
  /\ stat' = [cr.status EXCEPT !.hash = HashNow]
  /\ current' = IF stat' = stat THEN current ELSE {}
  /\ UNCHANGED <<res, events, peerVars, trying, counter, guest, edits, faults, refused, joining>>
  /\ PassOver

\* The status subresource: the annotation in memory is not stored.
WriteStatus ==
  /\ phase = "write"
  /\ stat' = cr.status
  /\ current' = IF stat' = stat THEN current ELSE {}
  /\ UNCHANGED <<res, events, peerVars, trying, counter, guest, edits, faults, refused, joining>>
  /\ PassOver

Crash ==
  /\ phase # "idle" \/ trying # {}
  /\ Fault(1)
  /\ ProcessDies

-----------------------------------------------------------------------------
(* Those who tell the cluster. *)

\* The controller of a config map or secret, or the peer's reconciler, lists the
\* clusters.
StartNotify(n) ==
  /\ trying' = trying \cup {n}
  /\ current' = current \cup {n}

HandleEvent(s) ==
  /\ s \in events \ trying
  /\ events' = events \ {s}
  /\ IF res[s] = 0 THEN UNCHANGED <<trying, current>> ELSE StartNotify(s)
  /\ UNCHANGED <<res, peerVars, counter, stat, guest, passVars, edits, faults, refused, joining>>

\* The update of connUpdateCounter is accepted; what the peer had to say is
\* said.
Notify(n) ==
  /\ n \in trying /\ n \in current
  /\ trying' = trying \ {n}
  /\ current' = {}
  /\ peer' = IF n = Peer THEN [peer EXCEPT !.told = TRUE] ELSE peer
  /\ UNCHANGED <<res, events, resizes, counter, stat, guest, passVars, edits, faults,
                 refused, joining>>

GiveUp_Never(n) ==
  /\ n \in trying /\ n \notin current
  /\ UNCHANGED vars

\* The fresh copy goes to another variable of the same name, so that a copy that
\* was overtaken is tried until the time is over.  A controller then forgets the
\* event; the peer's next pass starts again.
GiveUp(n) ==
  /\ n \in trying /\ n \notin current
  /\ trying' = trying \ {n}
  /\ UNCHANGED <<res, events, peerVars, current, counter, stat, guest, passVars, edits, faults,
                 refused, joining>>

EnvStep == UNCHANGED <<counter, stat, passVars, refused>>

\* The peer's first pass makes its status, unless the process dies before.
PeerFirstPass ==
  /\ peer.gen = 0
  /\ peer' = [peer EXCEPT !.gen = 1]
  /\ UNCHANGED <<res, events, trying, current, guest, edits, resizes, faults, joining>> /\ EnvStep

\* The spec is changed and syncClusterRoles moves the generation, as members come
\* or are to go, ...
PeerResize(n) ==
  /\ Peer \notin trying /\ peer.gen # 0 /\ peer.leaving = 0 /\ n # peer.listed
  /\ resizes < MaxResizes
  /\ resizes' = resizes + 1
  /\ peer' = [gen |-> peer.gen + 1, told |-> FALSE,
              listed |-> IF n > peer.listed THEN n ELSE peer.listed,
              leaving |-> IF n < peer.listed THEN peer.listed - n ELSE 0]
  /\ UNCHANGED <<res, events, trying, current, guest, edits, faults, joining>> /\ EnvStep

PeerClean_Again ==
  /\ Peer \notin trying /\ peer.leaving > 0
  /\ peer' = [peer EXCEPT !.listed = @ - peer.leaving]
  /\ UNCHANGED <<res, events, trying, current, guest, edits, resizes, faults, joining>> /\ EnvStep

\* ... not when they have gone.
PeerClean ==
  /\ Peer \notin trying /\ peer.leaving > 0
  /\ peer' = [peer EXCEPT !.listed = @ - peer.leaving, !.leaving = 0]
  /\ UNCHANGED <<res, events, trying, current, guest, edits, resizes, faults, joining>> /\ EnvStep

\* The peer's members are stable but its state is not "configured" yet.
PeerStable ==
  /\ Peer \notin trying /\ peer.gen # 0 /\ peer.leaving = 0 /\ ~peer.told
  /\ StartNotify(Peer)
  /\ UNCHANGED <<res, events, peerVars, guest, edits, faults, joining>> /\ EnvStep

\* A config map or secret is created, changed or deleted.
Edit(s, v) ==
  /\ edits < MaxEdits /\ v \in {0, edits + 1} \ {res[s]}
  /\ edits' = edits + 1
  /\ res' = [res EXCEPT ![s] = v]
  /\ events' = events \cup {s}
  /\ UNCHANGED <<peerVars, trying, current, guest, faults, joining>> /\ EnvStep

ScriptEnds(m) ==
  /\ stat.mem[m].state = "creating" /\ guest[m].script # NoHash /\ ~guest[m].done
  /\ guest' = [guest EXCEPT ![m].done = TRUE]
  /\ UNCHANGED <<res, events, peerVars, trying, current, edits, faults, joining>> /\ EnvStep

Next ==
  \/ PassDies \/ BeginPass \/ SameHash \/ NewHash \/ SyncMembers \/ WriteStatus \/ Crash
  \/ \E s \in Sources : HandleEvent(s) \/ \E v \in 0 .. MaxEdits : Edit(s, v)
  \/ \E n \in Notifiers : Notify(n) \/ GiveUp(n)
  \/ PeerFirstPass \/ PeerClean \/ PeerStable
  \/ \E n \in 0 .. PeerMax : PeerResize(n)
  \/ \E m \in Members : ScriptEnds(m)

Spec == Init /\ [][Next]_vars

(***************************************************************************)
(* Fairness: passes are polled and their steps return, the retry of an     *)
(* update ends, scripts end.  The peer's first pass is under none: each    *)
(* death of the process interrupts it.                                     *)
(***************************************************************************)
Fairness ==
  /\ WF_vars(BeginPass) /\ WF_vars(SameHash) /\ WF_vars(NewHash)
  /\ WF_vars(SyncMembers) /\ WF_vars(WriteStatus)
  /\ \A s \in Sources : WF_vars(HandleEvent(s))
  /\ \A n \in Notifiers : WF_vars(Notify(n)) /\ WF_vars(GiveUp(n))
  /\ WF_vars(PeerClean) /\ WF_vars(PeerStable)
  /\ \A m \in Members : WF_vars(ScriptEnds(m))

FairSpec == Spec /\ Fairness

-----------------------------------------------------------------------------
(* Properties. *)

\* The status says that every member has what the connections are now.
AtRest == phase = "idle" /\ peer.gen # 0 /\ stat.hash = HashNow /\ Settled(stat)

\* Data of the current version of every config map and secret that there is, and
\* of the peer's current generation.
Current(data) ==
  data.gen = peer.gen /\ \A s \in Sources : res[s] # 0 => data.res[s] = res[s]

\* At rest the configmeta in every member was made from current data, although
\* the hash and the configmeta are read at different times (calcConnectionsHash,
\* ConfigmetaGenerator) and any member may have missed updates.
RestingData == AtRest => \A m \in Members : Current(guest[m].meta)

\* At rest the setup script of every member has run on current data, as long as
\* no update of the counter was refused and the member was not being set up when
\* the change was seen (handleReadyMembers).
ReadyMembersReconnect ==
  AtRest /\ ~refused => \A m \in Members \ joining : Current(guest[m].script)

\* Once the peer has a status, the cluster comes to rest on the last data.
ChangesArrive == <>(peer.gen # 0) => <>[](stat.hash = HashNow /\ Settled(stat))

\* And the peer, which waits for the cluster's resource to take its update while
\* others write it, becomes configured in the end.
PeerConfigured == <>(peer.gen # 0) => <>[](peer.told)

=============================================================================
