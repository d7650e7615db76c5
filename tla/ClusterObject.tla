---------------------------- MODULE ClusterObject ----------------------------
(***************************************************************************)
(* One cluster resource in the API server, the informer cache KubeDirector *)
(* reads it from, and what keeps the two and the resource's users in step: *)
(* the last-known status generation UIDs (StatusGens), the checks of the   *)
(* admission webhook, the finalizer and the reference that keeps the app   *)
(* resource from being deleted.                                            *)
(*                                                                         *)
(* The outcome of a pass is abstracted to numbered effects (a StatefulSet  *)
(* created, a member removed) that the status must record, and to whether  *)
(* it has notifications queued; ClusterReconciler.tla has the passes       *)
(* themselves.  Status writes go to the status subresource, which is not   *)
(* among the resources the webhook is registered for; all other writes     *)
(* pass the webhook, and the API server ignores the status in them.        *)
(***************************************************************************)
EXTENDS Integers

CONSTANTS
  MaxEffects,  \* bounds the effects of the passes
  MaxEdits,    \* bounds the edits of the resource by others
  MaxHashes,   \* bounds the changes of the connection hash
  MaxFaults    \* bounds the crashes and the lost replies

ASSUME BoundsAssumption ==
  {MaxEffects, MaxEdits, MaxHashes, MaxFaults} \subseteq Nat

VARIABLES
  stored,  \* the resource in the API server
  cache,   \* the version of it in KubeDirector's cache
  known,   \* the entry for this cluster in StatusGens; uid 0 for no entry
  ref,     \* whether the app is noted as used by this cluster
  app,     \* whether the app resource exists
  phase,   \* where the reconciler is
  cr,      \* its copy of the resource
  dirty,   \* whether it has a status change to write
  fin,     \* whether the finalizer was in place when the pass began
  fresh,   \* the status generation UIDs drawn
  effects, edits, hashes, faults

passVars == <<phase, cr, dirty, fin>>
counters == <<fresh, effects, edits, hashes, faults>>
vars == <<stored, cache, known, ref, app, passVars, counters>>

\* uid 0 is the empty string; before the first status write the stanza is nil.
Stanza == [uid : Nat, work : SUBSET Nat, pend : BOOLEAN]

Version == [rv : Nat, live : BOOLEAN, deleting : BOOLEAN, finalizer : BOOLEAN, status : Stanza]

Copy == [rv : Nat, finalizer : BOOLEAN, status : Stanza]

Blank == [uid |-> 0, work |-> {}, pend |-> FALSE]

Created == [rv |-> 1, live |-> TRUE, deleting |-> FALSE, finalizer |-> FALSE,
            status |-> Blank]

NoCopy == [rv |-> 0, finalizer |-> FALSE, status |-> Blank]

Unknown == [uid |-> 0, validated |-> FALSE]

TypeOK ==
  /\ stored \in Version /\ cache \in Version
  /\ known \in [uid : Nat, validated : BOOLEAN] /\ (known.validated => known.uid # 0)
  /\ ref \in BOOLEAN /\ app \in BOOLEAN
  /\ phase \in {"idle", "roles", "hash", "members", "defer", "announce", "write",
                "finalizer", "refetch"}
  /\ cr \in Copy /\ dirty \in BOOLEAN /\ fin \in BOOLEAN
  /\ {fresh, effects, edits, hashes, faults} \subseteq Nat

\* The webhook has admitted the creation: the app was there.
Init ==
  /\ stored = Created /\ cache = Created
  /\ known = Unknown /\ ref = FALSE /\ app = TRUE
  /\ phase = "idle" /\ cr = NoCopy /\ dirty = FALSE /\ fin = FALSE
  /\ fresh = 0 /\ effects = 0 /\ edits = 0 /\ hashes = 0 /\ faults = 0

\* A resource marked for deletion goes when its finalizer does.
Stores(v) ==
  stored' = [v EXCEPT !.rv = stored.rv + 1, !.live = ~v.deleting \/ v.finalizer]

-----------------------------------------------------------------------------
(* The webhook. *)

\* Whether an update whose object has this status is let through.
Admitted(status) ==
  \/ status.uid = 0
  \/ IF known.uid = 0 THEN status = stored.status
     ELSE /\ status.uid = known.uid
          /\ known.validated => status = stored.status

Validated_Always == [known EXCEPT !.validated = TRUE]

\* ValidateStatusGen: an update has been admitted under this UID.
Validated == IF known.uid = 0 THEN known ELSE [known EXCEPT !.validated = TRUE]

-----------------------------------------------------------------------------
(* The start of a pass. *)

Begin(next) ==
  /\ phase = "idle" /\ cache.live
  /\ fin' = cache.finalizer
  /\ cr' = [rv |-> cache.rv, finalizer |-> ~cache.deleting, status |-> cache.status]
  /\ phase' = next
  /\ UNCHANGED <<stored, cache, app, counters>>

\* The finalizer of a deleted cluster is removed, and what KubeDirector
\* remembers of it forgotten.
BeginDeleting ==
  /\ cache.deleting
  /\ Begin("defer")
  /\ known' = Unknown /\ ref' = FALSE /\ dirty' = FALSE

\* A cluster whose status is the one last written.
BeginKnown_AnyUid ==
  /\ ~cache.deleting /\ known.uid # 0
  /\ Begin("roles")
  /\ dirty' = FALSE
  /\ UNCHANGED <<known, ref>>

BeginKnown ==
  /\ ~cache.deleting /\ known.uid # 0 /\ known.uid = cache.status.uid
  /\ Begin("roles")
  /\ dirty' = FALSE
  /\ UNCHANGED <<known, ref>>

\* A status that is not the one last written.  If there is none at all, the
\* new one made for the pass is a change.
BeginStale ==
  /\ ~cache.deleting /\ known.uid # 0 /\ known.uid # cache.status.uid
  /\ Begin("defer")
  /\ dirty' = (cache.status.uid = 0)
  /\ UNCHANGED <<known, ref>>

BeginNew ==
  /\ ~cache.deleting /\ known.uid = 0 /\ cache.status.uid = 0
  /\ Begin("defer")
  /\ ref' = TRUE /\ dirty' = TRUE
  /\ UNCHANGED known

\* KubeDirector has been restarted since it processed this cluster.
BeginRecovered_NoRef ==
  /\ ~cache.deleting /\ known.uid = 0 /\ cache.status.uid # 0
  /\ Begin("roles")
  /\ known' = [uid |-> cache.status.uid, validated |-> TRUE]
  /\ dirty' = FALSE
  /\ UNCHANGED ref

BeginRecovered ==
  /\ ~cache.deleting /\ known.uid = 0 /\ cache.status.uid # 0
  /\ Begin("roles")
  /\ known' = [uid |-> cache.status.uid, validated |-> TRUE]
  /\ ref' = TRUE /\ dirty' = FALSE

-----------------------------------------------------------------------------
(* The work of a pass. *)

Works(pend) ==
  /\ effects < MaxEffects
  /\ effects' = effects + 1
  /\ cr' = [cr EXCEPT !.status.work = @ \cup {effects + 1},
                      !.status.pend = @ \/ pend]
  /\ dirty' = TRUE

SyncRoles ==
  /\ phase = "roles"
  /\ Works(FALSE) \/ UNCHANGED <<effects, cr, dirty>>
  /\ phase' = "hash"
  /\ UNCHANGED <<stored, cache, known, ref, app, fin, fresh, edits, hashes, faults>>

SameHash ==
  /\ phase = "hash"
  /\ phase' = "members"
  /\ UNCHANGED <<stored, cache, known, ref, app, cr, dirty, fin, counters>>

\* A new connection hash is counted in an annotation.  The reply to the update
\* is the stored resource, and takes the place of the copy in memory.
NewHash ==
  /\ phase = "hash" /\ hashes < MaxHashes
  /\ hashes' = hashes + 1
  /\ dirty' = TRUE
  /\ phase' = "members"
  /\ IF stored.live /\ Admitted(cr.status)
       THEN /\ known' = Validated
            /\ IF cr.rv = stored.rv
                 THEN /\ Stores([stored EXCEPT !.finalizer = cr.finalizer])
                      /\ cr' = [cr EXCEPT !.rv = stored'.rv, !.status = stored.status]
                 ELSE UNCHANGED <<stored, cr>>
       ELSE UNCHANGED <<stored, known, cr>>
  /\ UNCHANGED <<cache, ref, app, fin, fresh, effects, edits, faults>>

SyncMembers ==
  /\ phase = "members"
  /\ (\E pend \in BOOLEAN : Works(pend)) \/ UNCHANGED <<effects, cr, dirty>>
  /\ phase' = "defer"
  /\ UNCHANGED <<stored, cache, known, ref, app, fin, fresh, edits, hashes, faults>>

-----------------------------------------------------------------------------
(* The end of a pass: notifications, then the writes. *)

NextWrite(changed) ==
  IF changed THEN "announce" ELSE IF fin # cr.finalizer THEN "finalizer" ELSE "idle"

\* Whatever the pass came to, queued notifications are sent; the status of a
\* cluster on its way out is not written.
Notify_Always ==
  /\ phase = "defer"
  /\ \E sent \in BOOLEAN :
       LET told == sent /\ cr.status.pend
       IN  /\ cr' = [cr EXCEPT !.status.pend = @ /\ ~told]
           /\ dirty' = (dirty \/ told)
  /\ phase' = NextWrite(dirty')
  /\ UNCHANGED <<stored, cache, known, ref, app, fin, counters>>

Notify ==
  /\ phase = "defer"
  /\ \E sent \in BOOLEAN :
       LET told == sent /\ cr.status.pend
       IN  /\ cr' = [cr EXCEPT !.status.pend = @ /\ ~told]
           /\ dirty' = (cr.finalizer /\ (dirty \/ told))
  /\ phase' = NextWrite(dirty')
  /\ UNCHANGED <<stored, cache, known, ref, app, fin, counters>>

Announce_Once ==
  /\ phase = "announce"
  /\ fresh' = fresh + 1
  /\ cr' = [cr EXCEPT !.status.uid = fresh']
  /\ known' = IF known.validated \/ known.uid = 0 THEN [uid |-> fresh', validated |-> FALSE]
              ELSE known
  /\ phase' = "write"
  /\ UNCHANGED <<stored, cache, ref, app, dirty, fin, effects, edits, hashes, faults>>

\* WriteStatusGen, before the write itself.
Announce ==
  /\ phase = "announce"
  /\ fresh' = fresh + 1
  /\ cr' = [cr EXCEPT !.status.uid = fresh']
  /\ known' = [uid |-> fresh', validated |-> FALSE]
  /\ phase' = "write"
  /\ UNCHANGED <<stored, cache, ref, app, dirty, fin, effects, edits, hashes, faults>>

Conflict == stored.live /\ cr.rv # stored.rv

WriteStatus ==
  /\ phase = "write" /\ stored.live
  /\ IF Conflict
       THEN /\ phase' = "refetch"
            /\ UNCHANGED <<stored, cr, dirty>>
       ELSE /\ Stores([stored EXCEPT !.status = cr.status])
            /\ cr' = [cr EXCEPT !.rv = stored'.rv]
            /\ dirty' = FALSE
            /\ phase' = NextWrite(FALSE)
  /\ UNCHANGED <<cache, known, ref, app, fin, counters>>

\* The status is stored but the reply is lost: the write is tried again.
WriteUnheard ==
  /\ phase = "write" /\ stored.live /\ ~Conflict
  /\ faults < MaxFaults
  /\ faults' = faults + 1
  /\ Stores([stored EXCEPT !.status = cr.status])
  /\ phase' = "announce"
  /\ UNCHANGED <<cache, known, ref, app, cr, dirty, fin, fresh, effects, edits, hashes>>

\* The update of the finalizers leaves the status stanza out.
WriteFinalizer ==
  /\ phase = "finalizer" /\ stored.live
  /\ known' = Validated
  /\ IF Conflict
       THEN /\ phase' = "refetch"
            /\ UNCHANGED <<stored, cr>>
       ELSE /\ Stores([stored EXCEPT !.finalizer = cr.finalizer])
            /\ cr' = [cr EXCEPT !.rv = stored'.rv]
            /\ phase' = "idle"
  /\ UNCHANGED <<cache, ref, app, dirty, fin, counters>>

\* After a conflict the desired status is put on the current resource, as the
\* cache has it.  (An unchanged cache leads to the same conflict again.)
Refetch ==
  /\ phase = "refetch" /\ cache.live /\ cache.rv # cr.rv
  /\ cr' = [cr EXCEPT !.rv = cache.rv]
  /\ dirty' = (dirty /\ ~cache.deleting)
  /\ phase' = NextWrite(dirty')
  /\ UNCHANGED <<stored, cache, known, ref, app, fin, counters>>

\* The resource is gone and the cache knows it.
GiveUp ==
  /\ phase \in {"write", "finalizer", "refetch"} /\ ~cache.live
  /\ phase' = "idle"
  /\ UNCHANGED <<stored, cache, known, ref, app, cr, dirty, fin, counters>>

-----------------------------------------------------------------------------
(* Everybody else. *)

\* A user changes spec or metadata, or another reconciler bumps the annotation
\* that tells of a connection; the status comes along as it is stored.
Edit ==
  /\ stored.live /\ edits < MaxEdits
  /\ Admitted(stored.status)
  /\ known' = Validated
  /\ Stores(stored)
  /\ edits' = edits + 1
  /\ UNCHANGED <<cache, ref, app, passVars, fresh, effects, hashes, faults>>

Delete ==
  /\ stored.live /\ ~stored.deleting
  /\ Stores([stored EXCEPT !.deleting = TRUE])
  /\ UNCHANGED <<cache, known, ref, app, passVars, counters>>

\* The webhook refuses to delete an app in use.
DeleteApp ==
  /\ app /\ ~ref
  /\ app' = FALSE
  /\ UNCHANGED <<stored, cache, known, ref, passVars, counters>>

\* The informer catches up; that it may skip versions stands for the reads that
\* never saw them.
CacheMoves ==
  /\ cache # stored
  /\ cache' = stored
  /\ UNCHANGED <<stored, known, ref, app, passVars, counters>>

\* KubeDirector dies and comes back with a new cache.
Restart ==
  /\ faults < MaxFaults
  /\ faults' = faults + 1
  /\ known' = Unknown /\ ref' = FALSE
  /\ cache' = stored
  /\ phase' = "idle" /\ cr' = NoCopy /\ dirty' = FALSE /\ fin' = FALSE
  /\ UNCHANGED <<stored, app, fresh, effects, edits, hashes>>

-----------------------------------------------------------------------------

Pass ==
  \/ BeginDeleting \/ BeginKnown \/ BeginStale \/ BeginNew \/ BeginRecovered
  \/ SyncRoles \/ SameHash \/ NewHash \/ SyncMembers
  \/ Notify \/ Announce \/ WriteStatus \/ WriteUnheard \/ WriteFinalizer
  \/ Refetch \/ GiveUp

Next == Pass \/ Edit \/ Delete \/ DeleteApp \/ CacheMoves \/ Restart

Spec == Init /\ [][Next]_vars

-----------------------------------------------------------------------------
(* Properties. *)

\* The roles and members are only synced from the status that was written last:
\* a pass on an older one would create StatefulSets again that exist.
SyncsOnLatest ==
  phase \in {"roles", "hash", "members"} => cr.status.uid = stored.status.uid

\* Between passes the webhook lets edits of the resource through, whatever
\* conflicts, lost replies and restarts the last status write went through.
NobodyLockedOut ==
  phase = "idle" /\ stored.live /\ ~stored.deleting => Admitted(stored.status)

\* An app is not deleted under a cluster that KubeDirector has processed since it
\* came up and that is not being deleted.
AppKept ==
  [][app' = app \/ known.uid = 0 \/ stored.deleting]_app

\* A cluster that had the finalizer leaves nothing behind: its UID would be held
\* against a later status, its reference would keep the app for ever.
Released ==
  phase = "idle" /\ ~stored.live /\ fin => known.uid = 0 /\ ~ref

=============================================================================
