------------------------------- MODULE Restore -------------------------------
(***************************************************************************)
(* A cluster that a backup tool re-creates: the webhook labels it as being *)
(* restored, and instead of the normal pass handleRestore waits until the  *)
(* app, the status backup and the cluster's services and StatefulSets are  *)
(* back.  The tool puts the resources back one by one and in any order;    *)
(* they may disappear again; KubeDirector may restart; a user may take the *)
(* label off by hand or delete the cluster.                                *)
(*                                                                         *)
(* The normal pass is reduced to what it does to a restored cluster: take  *)
(* note of a cluster unknown since the last restart, and create what the   *)
(* status names but is not there.  Conflicts of the status write are       *)
(* ClusterObject's subject: here a write succeeds or the process dies.     *)
(***************************************************************************)
EXTENDS Integers, FiniteSets

CONSTANTS
  Components,  \* the StatefulSets and services the backed-up status names
  Connected,   \* the resources the spec is connected to
  Referenced,  \* what else its validation looks up: service accounts, storage classes,
               \* secrets, claims, sources of injected files
  AllowWithoutConnections,  \* allowRestoreWithoutConnections
  QueuedInBackup,  \* whether the status was backed up with notifications queued
  MaxFaults    \* bounds restarts and disappearing resources

ASSUME KindsAssumption ==
  /\ IsFiniteSet(Components) /\ Components # {}
  /\ IsFiniteSet(Connected) /\ IsFiniteSet(Referenced)
  /\ Components \cap (Connected \cup Referenced) = {}
  /\ {"app", "backup"} \cap (Components \cup Connected \cup Referenced) = {}
ASSUME SettingsAssumption ==
  /\ AllowWithoutConnections \in BOOLEAN /\ QueuedInBackup \in BOOLEAN
  /\ MaxFaults \in Nat

Resources == {"app", "backup"} \cup Components \cup Connected \cup Referenced

VARIABLES
  there,     \* where each resource is: yet to be put back, there, gone again
  live,      \* whether the cluster resource exists
  label,     \* whether it has the being-restored label
  stat,      \* its status stanza
  known,     \* whether StatusGens has an entry for it
  ref,       \* whether it is noted as using its app
  phase,     \* where the reconciler is in handleRestore
  cr,        \* its copy of the status
  doubled,   \* the components the normal pass made while the tool had them to put back
  forced,    \* whether a user took the label off
  faults

vars == <<there, live, label, stat, known, ref, phase, cr, doubled, forced, faults>>

Flags == {"awaitingApp", "awaitingStatus", "awaitingResources"}

\* Whether there is a stanza and a restoreProgress in it, the flags of
\* restoreProgress that are set, its error, and whether the rest of the stanza is
\* that of the backup.
Status == [made : BOOLEAN, progress : BOOLEAN, flags : SUBSET Flags, error : BOOLEAN,
           content : BOOLEAN]

NoStatus == [made |-> FALSE, progress |-> FALSE, flags |-> {}, error |-> FALSE,
             content |-> FALSE]

TypeOK ==
  /\ there \in [Resources -> {"pending", "there", "gone"}]
  /\ live \in BOOLEAN /\ label \in BOOLEAN
  /\ stat \in Status /\ (stat.flags # {} => stat.progress) /\ (stat.progress => stat.made)
  /\ known \in BOOLEAN /\ ref \in BOOLEAN
  /\ phase \in {"idle", "app", "status", "resources", "write"}
  /\ cr \in Status
  /\ doubled \subseteq Components
  /\ forced \in BOOLEAN /\ faults \in Nat

\* The creation is recognized by its annotation and not validated.
Init ==
  /\ there = [x \in Resources |-> "pending"]
  /\ live = TRUE /\ label = TRUE
  /\ stat = NoStatus /\ known = FALSE /\ ref = FALSE
  /\ phase = "idle" /\ cr = NoStatus
  /\ doubled = {} /\ forced = FALSE /\ faults = 0

Present(S) == \A x \in S : there[x] = "there"

\* The checks of the webhook on the removal of the label, which is validated like a
\* change of the spec: the app and whatever else the spec names are looked up, and
\* validateSpecChange wants a status without queued notifications.  What comes back
\* is what was there, so that the checks of the spec against the app and of what
\* KubeDirector may use pass as they did before.
Resumable(st) ==
  /\ there["app"] = "there" /\ Present(Referenced)
  /\ st.made /\ ~(st.content /\ QueuedInBackup)

-----------------------------------------------------------------------------
(* handleRestore. *)

Keeps == UNCHANGED <<there, live, known, ref, doubled, forced, faults>>

Started == IF stat.progress THEN stat
           ELSE [stat EXCEPT !.made = TRUE, !.progress = TRUE, !.flags = Flags]

Restoring == live /\ label /\ phase = "idle"

ResumeRestored_WithoutResources ==
  /\ Restoring /\ Started.flags \subseteq {"awaitingResources"} /\ Resumable(stat)
  /\ label' = FALSE
  /\ UNCHANGED <<stat, phase, cr>> /\ Keeps

\* checkRestoreDone comes first and goes by the flags as they were stored.
ResumeRestored ==
  /\ Restoring /\ Started.flags = {} /\ Resumable(stat)
  /\ label' = FALSE
  /\ UNCHANGED <<stat, phase, cr>> /\ Keeps

\* The refusal is recorded and the checks go on.
ResumeRefused ==
  /\ Restoring /\ Started.flags = {} /\ ~Resumable(stat)
  /\ cr' = [stat EXCEPT !.error = TRUE]
  /\ phase' = "app"
  /\ UNCHANGED <<label, stat>> /\ Keeps

BeginRestore ==
  /\ Restoring /\ Started.flags # {}
  /\ cr' = Started
  /\ phase' = "app"
  /\ UNCHANGED <<label, stat>> /\ Keeps

Flagged(flag, waiting) ==
  [cr EXCEPT !.flags = IF waiting THEN @ \cup {flag} ELSE @ \ {flag}]

CheckAppRestored ==
  /\ phase = "app"
  /\ cr' = Flagged("awaitingApp", there["app"] # "there")
  /\ phase' = "status"
  /\ UNCHANGED <<label, stat>> /\ Keeps

CheckStatusRestored_Forgets ==
  /\ phase = "status"
  /\ cr' = IF "awaitingStatus" \in cr.flags /\ there["backup"] = "there"
             THEN [cr EXCEPT !.content = TRUE, !.progress = FALSE, !.flags = {}]
             ELSE cr
  /\ phase' = IF "awaitingStatus" \in cr'.flags THEN "write" ELSE "resources"
  /\ UNCHANGED <<label, stat>> /\ Keeps

CheckStatusRestored_Again ==
  /\ phase = "status"
  /\ cr' = [Flagged("awaitingStatus", there["backup"] # "there")
              EXCEPT !.content = @ \/ there["backup"] = "there"]
  /\ phase' = IF "awaitingStatus" \in cr'.flags THEN "write" ELSE "resources"
  /\ UNCHANGED <<label, stat>> /\ Keeps

\* The status of the backup is taken over once; whether the backup is still
\* there does not matter afterwards.
CheckStatusRestored ==
  /\ phase = "status"
  /\ cr' = IF "awaitingStatus" \in cr.flags /\ there["backup"] = "there"
             THEN [Flagged("awaitingStatus", FALSE) EXCEPT !.content = TRUE]
             ELSE cr
  /\ phase' = IF "awaitingStatus" \in cr'.flags THEN "write" ELSE "resources"
  /\ UNCHANGED <<label, stat>> /\ Keeps

Required == (IF cr.content THEN Components ELSE {})
            \cup (IF AllowWithoutConnections THEN {} ELSE Connected)

\* Services, StatefulSets and, unless the configuration says otherwise,
\* connections.
CheckResourcesRestored ==
  /\ phase = "resources"
  /\ cr' = Flagged("awaitingResources", ~Present(Required))
  /\ phase' = "write"
  /\ UNCHANGED <<label, stat>> /\ Keeps

\* The deferred write of a changed status, with a UID announced for it; the
\* backup is left alone.
WriteRestoreStatus ==
  /\ phase = "write"
  /\ stat' = IF live THEN cr ELSE stat
  /\ known' = (known \/ cr # stat)
  /\ phase' = "idle" /\ cr' = NoStatus
  /\ UNCHANGED <<there, live, label, ref, doubled, forced, faults>>

-----------------------------------------------------------------------------
(* The normal pass. *)

\* A cluster that StatusGens knows is not noted as using its app.  What the
\* status does not name is made anew, what it names is made if it is not there.
NormalPass ==
  /\ live /\ ~label /\ phase = "idle"
  /\ known' = TRUE
  /\ ref' = (ref \/ ~known)
  /\ LET missing == IF stat.content THEN {c \in Components : there[c] # "there"}
                    ELSE Components
         kept == [x \in Resources |-> IF x \in missing /\ there[x] = "gone"
                                        THEN "there" ELSE there[x]]
     IN  /\ doubled' = doubled \cup {c \in missing : there[c] = "pending"}
         /\ \E on \in BOOLEAN :
              there' = [kept EXCEPT !["backup"] = IF on THEN "there"
                                                  ELSE IF @ = "there" THEN "gone" ELSE @]
  /\ stat' = [stat EXCEPT !.progress = FALSE, !.flags = {}, !.error = FALSE, !.content = TRUE]
  /\ UNCHANGED <<live, label, phase, cr, forced, faults>>

-----------------------------------------------------------------------------
(* The backup tool, users and faults. *)

OthersKeep == UNCHANGED <<live, label, stat, phase, cr, doubled, forced>>

PutBack(x) ==
  /\ there[x] = "pending"
  /\ there' = [there EXCEPT ![x] = "there"]
  /\ UNCHANGED <<known, ref, faults>> /\ OthersKeep

\* An app in use is not deleted.
Disappear(x) ==
  /\ there[x] = "there" /\ (x = "app" => ~ref)
  /\ faults < MaxFaults /\ faults' = faults + 1
  /\ there' = [there EXCEPT ![x] = "gone"]
  /\ UNCHANGED <<known, ref>> /\ OthersKeep

Reappear(x) ==
  /\ there[x] = "gone"
  /\ there' = [there EXCEPT ![x] = "there"]
  /\ UNCHANGED <<known, ref, faults>> /\ OthersKeep

Restart ==
  /\ faults < MaxFaults /\ faults' = faults + 1
  /\ known' = FALSE /\ ref' = FALSE
  /\ phase' = "idle" /\ cr' = NoStatus
  /\ UNCHANGED <<there, live, label, stat, doubled, forced>>

\* A user takes the label off; the webhook makes the same checks.
TakeLabelOff ==
  /\ live /\ label /\ Resumable(stat)
  /\ label' = FALSE /\ forced' = TRUE
  /\ UNCHANGED <<there, live, stat, known, ref, phase, cr, doubled, faults>>

\* With the label that allows it the cluster can be deleted; it has no finalizer
\* yet, so that it is gone at once and nothing in memory is cleared.
DeleteRestoring ==
  /\ live /\ label
  /\ live' = FALSE
  /\ UNCHANGED <<there, label, stat, known, ref, phase, cr, doubled, forced, faults>>

Next ==
  \/ ResumeRestored \/ ResumeRefused \/ BeginRestore
  \/ CheckAppRestored \/ CheckStatusRestored \/ CheckResourcesRestored
  \/ WriteRestoreStatus \/ NormalPass
  \/ \E x \in Resources : PutBack(x) \/ Disappear(x) \/ Reappear(x)
  \/ Restart \/ TakeLabelOff \/ DeleteRestoring

Spec == Init /\ [][Next]_vars

\* Passes are polled every reconcilePeriod and their steps return.  Nothing
\* makes the tool finish.
Fairness ==
  /\ WF_vars(ResumeRestored) /\ WF_vars(ResumeRefused) /\ WF_vars(BeginRestore)
  /\ WF_vars(CheckAppRestored) /\ WF_vars(CheckStatusRestored)
  /\ WF_vars(CheckResourcesRestored) /\ WF_vars(WriteRestoreStatus)

FairSpec == Spec /\ Fairness

-----------------------------------------------------------------------------
(* Properties. *)

\* Unless a user forced it, reconciliation does not resume while the tool still has
\* a component to put back, so that KubeDirector makes none of them a second time
\* ("pause reconciliation on a kdcluster until it has been restored"): the flags
\* are from different moments, and a resource may have gone since.
NothingDoubled == ~forced => doubled = {}

\* When everything is there to stay, the cluster resumes ("Once all of these flags
\* are false, KubeDirector will automatically resume reconciliation").  The backup
\* is not needed any more once its status has been taken over.
Whole ==
  /\ there["app"] = "there" /\ Present(Components) /\ Present(Referenced)
  /\ AllowWithoutConnections \/ Present(Connected)
  /\ stat.content \/ there["backup"] = "there"

Resumes == <>[]Whole => <>(~label \/ ~live)

=============================================================================
