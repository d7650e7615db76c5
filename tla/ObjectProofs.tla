----------------------------- MODULE ObjectProofs -----------------------------
(***************************************************************************)
(* What ClusterObject.tla promises, for any number of effects, edits, hash *)
(* changes and faults.  The invariant follows the generation UID: outside  *)
(* the write of a status the UID KubeDirector knows is the stored one, and *)
(* while it knows none nothing can have been written that its cache lacks. *)
(* Both cease to matter once the cache shows the deletion, which lasts.    *)
(***************************************************************************)
EXTENDS ClusterObject, TLAPS

\* Deletion lasts, and a resource goes when it is to be deleted and its
\* finalizer is gone.
Deletions == /\ cache.deleting => stored.deleting
             /\ stored.live = (~stored.deleting \/ stored.finalizer)
             /\ cache.live = (~cache.deleting \/ cache.finalizer)

\* A status UID has been drawn and announced that may not be stored yet.
Writing == phase \in {"announce", "write"} \/ (phase = "refetch" /\ dirty)

Announced == /\ phase \in {"announce", "write"} => dirty
             /\ phase = "write" => known.uid # 0 /\ known.uid = cr.status.uid

KnownIsStored ==
  ~Writing /\ ~cache.deleting /\ known.uid # 0 => known.uid = stored.status.uid

UnknownIsCached ==
  known.uid = 0 /\ ~cache.deleting => cache.status = stored.status

Referred == (known.uid # 0 \/ phase # "idle") /\ ~stored.deleting => ref

\* The pass that removes the finalizer has forgotten the cluster and writes no
\* status.
Leaving ==
  phase # "idle" /\ ~cr.finalizer =>
    /\ cache.deleting /\ known.uid = 0 /\ ~ref
    /\ phase \in {"defer", "finalizer", "refetch"}
    /\ ~dirty

\* No other pass removes it.
Gone ==
  (fin \/ cache.finalizer) /\ ~stored.finalizer =>
    /\ known.uid = 0 /\ ~ref
    /\ phase # "idle" => ~cr.finalizer
    /\ cache.finalizer => cache.deleting

Inv ==
  /\ TypeOK /\ Deletions
  /\ Announced /\ KnownIsStored /\ UnknownIsCached /\ SyncsOnLatest
  /\ Referred /\ Leaving /\ Gone

-----------------------------------------------------------------------------
(* The start of a pass. *)

LEMMA CopyType ==
  ASSUME TypeOK, NEW next, Begin(next)
  PROVE  /\ cr' \in Copy /\ fin' \in BOOLEAN
         /\ cr'.rv = cache.rv /\ cr'.status = cache.status
         /\ cr'.finalizer = ~cache.deleting
         /\ fin' = cache.finalizer /\ phase' = next
         /\ cache.status \in Stanza
BY DEF TypeOK, Begin, Version, Copy

LEMMA BeginDeletingInv == Inv /\ BeginDeleting => Inv'
<1> SUFFICES ASSUME Inv, BeginDeleting PROVE Inv'
  OBVIOUS
<1>1. cr' \in Copy /\ fin' \in BOOLEAN /\ ~cr'.finalizer /\ phase' = "defer"
  BY CopyType DEF Inv, BeginDeleting, TypeOK, Version
<1>2. UNCHANGED <<stored, cache, app, counters>>
  BY DEF BeginDeleting, Begin
<1>3. TypeOK'
  BY <1>1, <1>2 DEF Inv, TypeOK, BeginDeleting, Unknown, counters
<1>4. (Deletions /\ Announced /\ KnownIsStored /\ UnknownIsCached /\ SyncsOnLatest)'
  BY <1>1, <1>2 DEF Inv, BeginDeleting, Deletions, Announced, KnownIsStored,
     UnknownIsCached, SyncsOnLatest
<1>5. (Referred /\ Leaving /\ Gone)'
  BY <1>1, <1>2 DEF Inv, BeginDeleting, Unknown, Deletions, Referred, Leaving, Gone
<1> QED  BY <1>3, <1>4, <1>5 DEF Inv

\* A pass on a resource that is not being deleted, as the cache has it.
LEMMA BeginLiveInv ==
  ASSUME Inv, ~cache.deleting,
         NEW next \in {"roles", "defer"}, Begin(next),
         next = "roles" => known'.uid = cache.status.uid,
         \/ UNCHANGED known
         \/ known.uid = 0 /\ known' = [uid |-> cache.status.uid, validated |-> TRUE]
              /\ cache.status.uid # 0,
         ref' = TRUE \/ (ref' = ref /\ known.uid # 0),
         dirty' \in BOOLEAN,
         next = "roles" => known'.uid # 0
  PROVE  Inv'
<1>1. /\ cr' \in Copy /\ fin' \in BOOLEAN /\ cr'.finalizer /\ phase' = next
      /\ cr'.status = cache.status /\ fin' = cache.finalizer
      /\ cache.status \in Stanza
  BY CopyType DEF Inv, TypeOK, Version
<1>2. UNCHANGED <<stored, cache, app, counters>> /\ phase = "idle"
  BY DEF Begin
<1>3. known' \in [uid : Nat, validated : BOOLEAN] /\ (known'.validated => known'.uid # 0)
  <2>1. CASE UNCHANGED known
    BY <2>1 DEF Inv, TypeOK
  <2>2. CASE /\ cache.status.uid # 0
             /\ known' = [uid |-> cache.status.uid, validated |-> TRUE]
    <3>1. cache.status.uid \in Nat
      BY <1>1 DEF Stanza
    <3> QED  BY <2>2, <3>1
  <2> QED  BY <2>1, <2>2
<1>4. ref' \in BOOLEAN
  BY DEF Inv, TypeOK
<1>5. TypeOK'
  BY <1>1, <1>2, <1>3, <1>4 DEF Inv, TypeOK, counters
<1>6. known'.uid # 0 => known'.uid = stored.status.uid
  BY <1>1, <1>2 DEF Inv, KnownIsStored, UnknownIsCached, Writing
<1>7. (Deletions /\ Announced /\ KnownIsStored /\ UnknownIsCached /\ SyncsOnLatest)'
  BY <1>1, <1>2, <1>6 DEF Inv, Deletions, Announced, KnownIsStored, UnknownIsCached,
     SyncsOnLatest
<1>8. Referred'
  BY <1>1, <1>2 DEF Inv, Referred
<1>9. Leaving' /\ Gone'
  BY <1>1, <1>2 DEF Inv, Leaving, Gone
<1> QED  BY <1>5, <1>7, <1>8, <1>9 DEF Inv

LEMMA BeginKnownInv == Inv /\ BeginKnown => Inv'
BY BeginLiveInv DEF BeginKnown, Begin

LEMMA BeginStaleInv == Inv /\ BeginStale => Inv'
BY BeginLiveInv DEF BeginStale, Begin

LEMMA BeginNewInv == Inv /\ BeginNew => Inv'
BY BeginLiveInv DEF BeginNew, Begin

LEMMA BeginRecoveredInv == Inv /\ BeginRecovered => Inv'
<1> SUFFICES ASSUME Inv, BeginRecovered PROVE Inv'
  OBVIOUS
<1>1. Begin("roles") /\ ~cache.deleting /\ known.uid = 0 /\ cache.status.uid # 0
      /\ known' = [uid |-> cache.status.uid, validated |-> TRUE]
      /\ ref' = TRUE /\ dirty' = FALSE
  BY DEF BeginRecovered
<1>2. known'.uid = cache.status.uid
  BY <1>1
<1> QED  BY <1>1, <1>2, BeginLiveInv

-----------------------------------------------------------------------------
(* The work of a pass. *)

\* A version whose only news is its finalizer or its mark for deletion.
LEMMA StoresType ==
  ASSUME TypeOK, Deletions, NEW v \in Version, Stores(v),
         v.status = stored.status, stored.deleting => v.deleting
  PROVE  /\ stored' \in Version
         /\ stored'.live = (~v.deleting \/ v.finalizer)
         /\ stored'.status = stored.status
         /\ stored'.deleting = v.deleting /\ stored'.finalizer = v.finalizer
<1>1. stored' = [v EXCEPT !.rv = stored.rv + 1, !.live = ~v.deleting \/ v.finalizer]
  BY DEF Stores
<1>2. stored.rv + 1 \in Nat
  BY DEF TypeOK, Version
<1>3. (~v.deleting \/ v.finalizer) \in BOOLEAN
  OBVIOUS
<1> QED  BY <1>1, <1>2, <1>3 DEF Version

LEMMA ValidatedType ==
  ASSUME TypeOK
  PROVE  /\ Validated \in [uid : Nat, validated : BOOLEAN]
         /\ Validated.validated => Validated.uid # 0
         /\ Validated.uid = known.uid
BY DEF TypeOK, Validated

\* A step of a pass that writes nothing, between its start and its end.
LEMMA WorkInv ==
  ASSUME Inv, phase \in {"roles", "hash", "members"}, cr.finalizer,
         phase' \in {"hash", "members", "defer"},
         UNCHANGED <<stored, cache, known, ref, app, fin>>,
         cr' \in Copy, cr'.finalizer, cr'.status.uid = cr.status.uid,
         dirty' \in BOOLEAN,
         {fresh', effects', edits', hashes', faults'} \subseteq Nat
  PROVE  Inv'
<1>1. TypeOK'
  BY DEF Inv, TypeOK
<1>2. (Deletions /\ Announced /\ KnownIsStored /\ UnknownIsCached /\ SyncsOnLatest)'
  BY DEF Inv, Deletions, Announced, KnownIsStored, UnknownIsCached, SyncsOnLatest, Writing
<1>3. (Referred /\ Leaving /\ Gone)'
  BY DEF Inv, Referred, Leaving, Gone
<1> QED  BY <1>1, <1>2, <1>3 DEF Inv

LEMMA WorksType ==
  ASSUME TypeOK, NEW pend \in BOOLEAN, Works(pend)
  PROVE  /\ cr' \in Copy /\ cr'.finalizer = cr.finalizer
         /\ cr'.status.uid = cr.status.uid
         /\ dirty' \in BOOLEAN /\ effects' \in Nat
<1>1. effects + 1 \in Nat /\ cr \in Copy
  BY DEF TypeOK
<1>2. cr.status \in Stanza
  BY <1>1 DEF Copy
<1>3. /\ cr.status.work \cup {effects + 1} \in SUBSET Nat
      /\ (cr.status.pend \/ pend) \in BOOLEAN
  BY <1>1, <1>2 DEF Stanza
<1> DEFINE st == [cr.status EXCEPT !.work = cr.status.work \cup {effects + 1},
                                  !.pend = cr.status.pend \/ pend]
<1>4. st \in Stanza /\ st.uid = cr.status.uid
  BY <1>2, <1>3 DEF Stanza
<1>5. cr' = [cr EXCEPT !.status = st]
  BY <1>1, <1>2 DEF Works, Copy, Stanza
<1>6. cr' \in Copy /\ cr'.finalizer = cr.finalizer /\ cr'.status = st
  <2> HIDE DEF st
  <2> QED  BY <1>1, <1>4, <1>5 DEF Copy
<1> QED  BY <1>1, <1>4, <1>6 DEF Works

LEMMA InPass ==
  ASSUME Inv, phase \in {"roles", "hash", "members", "announce", "write"}
  PROVE  cr.finalizer
BY DEF Inv, Leaving

LEMMA SyncRolesInv == Inv /\ SyncRoles => Inv'
<1> SUFFICES ASSUME Inv, SyncRoles PROVE Inv'
  OBVIOUS
<1>1. /\ cr' \in Copy /\ cr'.finalizer = cr.finalizer /\ cr'.status.uid = cr.status.uid
      /\ dirty' \in BOOLEAN /\ effects' \in Nat
  BY WorksType DEF SyncRoles, Inv, TypeOK
<1> QED  BY <1>1, InPass, WorkInv DEF SyncRoles, Inv, TypeOK

LEMMA SameHashInv == Inv /\ SameHash => Inv'
BY InPass, WorkInv DEF SameHash, counters, Inv, TypeOK

LEMMA SyncMembersInv == Inv /\ SyncMembers => Inv'
<1> SUFFICES ASSUME Inv, SyncMembers PROVE Inv'
  OBVIOUS
<1>1. /\ cr' \in Copy /\ cr'.finalizer = cr.finalizer /\ cr'.status.uid = cr.status.uid
      /\ dirty' \in BOOLEAN /\ effects' \in Nat
  BY WorksType DEF SyncMembers, Inv, TypeOK
<1> QED  BY <1>1, InPass, WorkInv DEF SyncMembers, Inv, TypeOK

LEMMA NewHashInv == Inv /\ NewHash => Inv'
<1> SUFFICES ASSUME Inv, NewHash PROVE Inv'
  OBVIOUS
<1> DEFINE v == [stored EXCEPT !.finalizer = cr.finalizer]
<1>1. /\ phase = "hash" /\ phase' = "members" /\ dirty' = TRUE /\ cr.finalizer
      /\ UNCHANGED <<cache, ref, app, fin, fresh, effects, edits, faults>>
      /\ hashes' \in Nat
  BY InPass DEF NewHash, Inv, TypeOK
<1>2. /\ known' \in [uid : Nat, validated : BOOLEAN]
      /\ known'.validated => known'.uid # 0
      /\ known'.uid = known.uid
  BY ValidatedType DEF NewHash, Inv, TypeOK
<1>3. v \in Version /\ v.status = stored.status /\ v.deleting = stored.deleting
      /\ v.finalizer = cr.finalizer
  BY DEF Inv, TypeOK, Version, Copy
<1>4. CASE UNCHANGED <<stored, cr>>
  <2>1. TypeOK'
    BY <1>1, <1>2, <1>4 DEF Inv, TypeOK
  <2>2. (Deletions /\ Announced /\ KnownIsStored /\ UnknownIsCached /\ SyncsOnLatest)'
    BY <1>1, <1>2, <1>4 DEF Inv, Deletions, Announced, KnownIsStored,
       UnknownIsCached, SyncsOnLatest, Writing
  <2>3. (Referred /\ Leaving /\ Gone)'
    BY <1>1, <1>2, <1>4 DEF Inv, Referred, Leaving, Gone
  <2> QED  BY <2>1, <2>2, <2>3 DEF Inv
<1>5. CASE Stores(v) /\ cr' = [cr EXCEPT !.rv = stored'.rv, !.status = stored.status]
  <2>1. /\ stored' \in Version /\ stored'.status = stored.status
        /\ stored'.live = (~stored'.deleting \/ stored'.finalizer)
        /\ stored'.deleting = stored.deleting /\ stored'.finalizer = cr.finalizer
    <3> HIDE DEF v
    <3> QED  BY <1>3, <1>5, StoresType DEF Inv
  <2>2. cr' \in Copy /\ cr'.finalizer = cr.finalizer /\ cr'.status = stored.status
    BY <1>5, <2>1 DEF Inv, TypeOK, Copy, Version
  <2>3. TypeOK'
    BY <1>1, <1>2, <2>1, <2>2 DEF Inv, TypeOK
  <2>4. (Deletions /\ Announced /\ KnownIsStored /\ UnknownIsCached /\ SyncsOnLatest)'
    BY <1>1, <1>2, <2>1, <2>2 DEF Inv, Deletions, Announced, KnownIsStored,
       UnknownIsCached, SyncsOnLatest, Writing
  <2>5. (Referred /\ Leaving /\ Gone)'
    BY <1>1, <1>2, <2>1, <2>2 DEF Inv, Referred, Leaving, Gone
  <2> QED  BY <2>3, <2>4, <2>5 DEF Inv
<1> QED  BY <1>4, <1>5 DEF NewHash

-----------------------------------------------------------------------------
(* The end of a pass. *)

LEMMA NextWriteCases ==
  ASSUME NEW b \in BOOLEAN
  PROVE  /\ NextWrite(b) \in {"announce", "finalizer", "idle"}
         /\ NextWrite(b) = "announce" <=> b
BY DEF NextWrite

LEMMA NotifyInv == Inv /\ Notify => Inv'
<1> SUFFICES ASSUME Inv, Notify PROVE Inv'
  OBVIOUS
<1>1. PICK sent \in BOOLEAN :
        /\ cr' = [cr EXCEPT !.status.pend = @ /\ ~(sent /\ cr.status.pend)]
        /\ dirty' = (cr.finalizer /\ (dirty \/ (sent /\ cr.status.pend)))
  BY DEF Notify
<1>2. /\ phase = "defer" /\ phase' = NextWrite(dirty')
      /\ UNCHANGED <<stored, cache, known, ref, app, fin, counters>>
  BY DEF Notify
<1>3. cr \in Copy /\ cr.status \in Stanza /\ dirty \in BOOLEAN
  BY DEF Inv, TypeOK, Copy
<1>4. cr' \in Copy /\ cr'.finalizer = cr.finalizer /\ cr'.status.uid = cr.status.uid
  BY <1>1, <1>3 DEF Copy, Stanza
<1>5. dirty' \in BOOLEAN /\ (dirty' => cr.finalizer)
  BY <1>1, <1>3 DEF Copy
<1>6. phase' \in {"announce", "finalizer", "idle"} /\ (phase' = "announce" <=> dirty')
  BY <1>2, <1>5, NextWriteCases
<1>7. TypeOK'
  BY <1>2, <1>4, <1>5, <1>6 DEF Inv, TypeOK, counters
<1>8. (Deletions /\ Announced /\ KnownIsStored /\ UnknownIsCached /\ SyncsOnLatest)'
  BY <1>2, <1>6 DEF Inv, Deletions, Announced, KnownIsStored, UnknownIsCached,
     SyncsOnLatest, Writing
<1>9. (Referred /\ Leaving /\ Gone)'
  BY <1>2, <1>4, <1>5, <1>6 DEF Inv, Referred, Leaving, Gone
<1> QED  BY <1>7, <1>8, <1>9 DEF Inv

LEMMA AnnounceInv == Inv /\ Announce => Inv'
<1> SUFFICES ASSUME Inv, Announce PROVE Inv'
  OBVIOUS
<1>1. /\ phase = "announce" /\ phase' = "write" /\ dirty /\ cr.finalizer
      /\ UNCHANGED <<stored, cache, ref, app, dirty, fin, effects, edits, hashes, faults>>
  BY InPass DEF Announce, Inv, Announced
<1>2. fresh' \in Nat /\ fresh' # 0
  BY DEF Announce, Inv, TypeOK
<1>3. known' = [uid |-> fresh', validated |-> FALSE]
  BY DEF Announce
<1>4. cr \in Copy /\ cr.status \in Stanza /\ cr' = [cr EXCEPT !.status.uid = fresh']
  BY DEF Announce, Inv, TypeOK, Copy
<1>5. cr' \in Copy /\ cr'.finalizer = cr.finalizer /\ cr'.status.uid = fresh'
  BY <1>2, <1>4 DEF Copy, Stanza
<1>6. TypeOK'
  BY <1>1, <1>2, <1>3, <1>5 DEF Inv, TypeOK
<1>7. (Deletions /\ Announced /\ KnownIsStored /\ UnknownIsCached /\ SyncsOnLatest)'
  BY <1>1, <1>2, <1>3, <1>5 DEF Inv, Deletions, Announced, KnownIsStored,
     UnknownIsCached, SyncsOnLatest, Writing
<1>8. (Referred /\ Leaving /\ Gone)'
  BY <1>1, <1>5 DEF Inv, Referred, Leaving, Gone
<1> QED  BY <1>6, <1>7, <1>8 DEF Inv

\* The status is stored, whether or not the reply comes back.
LEMMA StatusStored ==
  ASSUME Inv, phase = "write", Stores([stored EXCEPT !.status = cr.status])
  PROVE  /\ stored' \in Version /\ stored'.status = cr.status
         /\ stored'.live = (~stored'.deleting \/ stored'.finalizer)
         /\ stored'.deleting = stored.deleting /\ stored'.finalizer = stored.finalizer
<1> DEFINE v == [stored EXCEPT !.status = cr.status]
<1>1. v \in Version /\ v.status = cr.status /\ v.deleting = stored.deleting
      /\ v.finalizer = stored.finalizer
  BY DEF Inv, TypeOK, Version, Copy
<1>2. stored' = [v EXCEPT !.rv = stored.rv + 1, !.live = ~v.deleting \/ v.finalizer]
  BY DEF Stores
<1>3. stored.rv + 1 \in Nat /\ (~v.deleting \/ v.finalizer) \in BOOLEAN
  BY DEF Inv, TypeOK, Version
<1> QED
  <2> HIDE DEF v
  <2> QED  BY <1>1, <1>2, <1>3 DEF Version

LEMMA WriteStatusInv == Inv /\ WriteStatus => Inv'
<1> SUFFICES ASSUME Inv, WriteStatus PROVE Inv'
  OBVIOUS
<1>1. /\ phase = "write" /\ dirty /\ cr.finalizer
      /\ known.uid # 0 /\ known.uid = cr.status.uid
      /\ UNCHANGED <<cache, known, ref, app, fin, counters>>
  BY InPass DEF WriteStatus, Inv, Announced
<1>2. CASE Conflict
  <2>1. phase' = "refetch" /\ UNCHANGED <<stored, cr, dirty>>
    BY <1>2 DEF WriteStatus
  <2>2. TypeOK'
    BY <1>1, <2>1 DEF Inv, TypeOK, counters
  <2>3. (Deletions /\ Announced /\ KnownIsStored /\ UnknownIsCached /\ SyncsOnLatest)'
    BY <1>1, <2>1 DEF Inv, Deletions, Announced, KnownIsStored, UnknownIsCached,
       SyncsOnLatest, Writing
  <2>4. (Referred /\ Leaving /\ Gone)'
    BY <1>1, <2>1 DEF Inv, Referred, Leaving, Gone
  <2> QED  BY <2>2, <2>3, <2>4 DEF Inv
<1>3. CASE ~Conflict
  <2>1. /\ Stores([stored EXCEPT !.status = cr.status])
        /\ cr' = [cr EXCEPT !.rv = stored'.rv] /\ dirty' = FALSE
        /\ phase' \in {"finalizer", "idle"}
    BY <1>3, NextWriteCases DEF WriteStatus
  <2>2. /\ stored' \in Version /\ stored'.status = cr.status
        /\ stored'.live = (~stored'.deleting \/ stored'.finalizer)
        /\ stored'.deleting = stored.deleting /\ stored'.finalizer = stored.finalizer
    BY <1>1, <2>1, StatusStored
  <2>3. cr' \in Copy /\ cr'.finalizer = cr.finalizer
    BY <2>1, <2>2 DEF Inv, TypeOK, Copy, Version
  <2>4. TypeOK'
    BY <1>1, <2>1, <2>2, <2>3 DEF Inv, TypeOK, counters
  <2>5. (Deletions /\ Announced /\ KnownIsStored /\ UnknownIsCached /\ SyncsOnLatest)'
    BY <1>1, <2>1, <2>2 DEF Inv, Deletions, Announced, KnownIsStored,
       UnknownIsCached, SyncsOnLatest, Writing
  <2>6. (Referred /\ Leaving /\ Gone)'
    BY <1>1, <2>1, <2>2, <2>3 DEF Inv, Referred, Leaving, Gone
  <2> QED  BY <2>4, <2>5, <2>6 DEF Inv
<1> QED  BY <1>2, <1>3

LEMMA WriteUnheardInv == Inv /\ WriteUnheard => Inv'
<1> SUFFICES ASSUME Inv, WriteUnheard PROVE Inv'
  OBVIOUS
<1>1. /\ phase = "write" /\ phase' = "announce" /\ dirty /\ cr.finalizer
      /\ known.uid # 0 /\ faults' \in Nat
      /\ UNCHANGED <<cache, known, ref, app, cr, dirty, fin, fresh, effects, edits, hashes>>
  BY InPass DEF WriteUnheard, Inv, Announced, TypeOK
<1>2. /\ stored' \in Version /\ stored'.status = cr.status
      /\ stored'.live = (~stored'.deleting \/ stored'.finalizer)
      /\ stored'.deleting = stored.deleting /\ stored'.finalizer = stored.finalizer
  BY StatusStored DEF WriteUnheard
<1>3. TypeOK'
  BY <1>1, <1>2 DEF Inv, TypeOK
<1>4. (Deletions /\ Announced /\ KnownIsStored /\ UnknownIsCached /\ SyncsOnLatest)'
  BY <1>1, <1>2 DEF Inv, Deletions, Announced, KnownIsStored, UnknownIsCached,
     SyncsOnLatest, Writing
<1>5. (Referred /\ Leaving /\ Gone)'
  BY <1>1, <1>2 DEF Inv, Referred, Leaving, Gone
<1> QED  BY <1>3, <1>4, <1>5 DEF Inv

LEMMA WriteFinalizerInv == Inv /\ WriteFinalizer => Inv'
<1> SUFFICES ASSUME Inv, WriteFinalizer PROVE Inv'
  OBVIOUS
<1> DEFINE v == [stored EXCEPT !.finalizer = cr.finalizer]
<1>1. phase = "finalizer" /\ UNCHANGED <<cache, ref, app, dirty, fin, counters>>
  BY DEF WriteFinalizer
<1>2. /\ known' \in [uid : Nat, validated : BOOLEAN]
      /\ known'.validated => known'.uid # 0
      /\ known'.uid = known.uid
  BY ValidatedType DEF WriteFinalizer, Inv
<1>3. v \in Version /\ v.status = stored.status /\ v.deleting = stored.deleting
      /\ v.finalizer = cr.finalizer
  BY DEF Inv, TypeOK, Version, Copy
<1>4. CASE Conflict
  <2>1. phase' = "refetch" /\ UNCHANGED <<stored, cr>>
    BY <1>4 DEF WriteFinalizer
  <2>2. TypeOK'
    BY <1>1, <1>2, <2>1 DEF Inv, TypeOK, counters
  <2>3. (Deletions /\ Announced /\ KnownIsStored /\ UnknownIsCached /\ SyncsOnLatest)'
    BY <1>1, <1>2, <2>1 DEF Inv, Deletions, Announced, KnownIsStored,
       UnknownIsCached, SyncsOnLatest, Writing
  <2>4. (Referred /\ Leaving /\ Gone)'
    BY <1>1, <1>2, <2>1 DEF Inv, Referred, Leaving, Gone
  <2> QED  BY <2>2, <2>3, <2>4 DEF Inv
<1>5. CASE ~Conflict
  <2>1. Stores(v) /\ cr' = [cr EXCEPT !.rv = stored'.rv] /\ phase' = "idle"
    BY <1>5 DEF WriteFinalizer
  <2>2. /\ stored' \in Version /\ stored'.status = stored.status
        /\ stored'.live = (~stored'.deleting \/ stored'.finalizer)
        /\ stored'.deleting = stored.deleting /\ stored'.finalizer = cr.finalizer
    <3> HIDE DEF v
    <3> QED  BY <1>3, <2>1, StoresType DEF Inv
  <2>3. cr' \in Copy /\ cr'.finalizer = cr.finalizer
    BY <2>1, <2>2 DEF Inv, TypeOK, Copy, Version
  <2>4. TypeOK'
    BY <1>1, <1>2, <2>1, <2>2, <2>3 DEF Inv, TypeOK, counters
  <2>5. (Deletions /\ Announced /\ KnownIsStored /\ UnknownIsCached /\ SyncsOnLatest)'
    BY <1>1, <1>2, <2>1, <2>2 DEF Inv, Deletions, Announced, KnownIsStored,
       UnknownIsCached, SyncsOnLatest, Writing
  <2>6. (Referred /\ Leaving /\ Gone)'
    BY <1>1, <1>2, <2>1, <2>2 DEF Inv, Deletions, Referred, Leaving, Gone
  <2> QED  BY <2>4, <2>5, <2>6 DEF Inv
<1> QED  BY <1>4, <1>5

LEMMA RefetchInv == Inv /\ Refetch => Inv'
<1> SUFFICES ASSUME Inv, Refetch PROVE Inv'
  OBVIOUS
<1>1. /\ phase = "refetch" /\ phase' = NextWrite(dirty')
      /\ cr' = [cr EXCEPT !.rv = cache.rv]
      /\ dirty' = (dirty /\ ~cache.deleting)
      /\ UNCHANGED <<stored, cache, known, ref, app, fin, counters>>
  BY DEF Refetch
<1>2. cr' \in Copy /\ cr'.finalizer = cr.finalizer /\ cr'.status = cr.status
  BY <1>1 DEF Inv, TypeOK, Copy, Version
<1>3. dirty' \in BOOLEAN
  BY <1>1 DEF Inv, TypeOK
<1>4. phase' \in {"announce", "finalizer", "idle"} /\ (phase' = "announce" <=> dirty')
  BY <1>1, <1>3, NextWriteCases
<1>5. TypeOK'
  BY <1>1, <1>2, <1>3, <1>4 DEF Inv, TypeOK, counters
<1>6. (Deletions /\ Announced /\ KnownIsStored /\ UnknownIsCached /\ SyncsOnLatest)'
  BY <1>1, <1>4 DEF Inv, Deletions, Announced, KnownIsStored, UnknownIsCached,
     SyncsOnLatest, Writing
<1>7. (Referred /\ Leaving /\ Gone)'
  BY <1>1, <1>2, <1>4 DEF Inv, Referred, Leaving, Gone
<1> QED  BY <1>5, <1>6, <1>7 DEF Inv

LEMMA GiveUpInv == Inv /\ GiveUp => Inv'
<1> SUFFICES ASSUME Inv, GiveUp PROVE Inv'
  OBVIOUS
<1>1. phase # "idle" /\ phase' = "idle" /\ ~cache.live
      /\ UNCHANGED <<stored, cache, known, ref, app, cr, dirty, fin, counters>>
  BY DEF GiveUp
<1>2. cache.deleting
  BY <1>1 DEF Inv, Deletions, TypeOK, Version
<1>3. TypeOK'
  BY <1>1 DEF Inv, TypeOK, counters
<1>4. (Deletions /\ Announced /\ KnownIsStored /\ UnknownIsCached /\ SyncsOnLatest)'
  BY <1>1, <1>2 DEF Inv, Deletions, Announced, KnownIsStored, UnknownIsCached,
     SyncsOnLatest
<1>5. (Referred /\ Leaving /\ Gone)'
  BY <1>1 DEF Inv, Referred, Leaving, Gone
<1> QED  BY <1>3, <1>4, <1>5 DEF Inv

-----------------------------------------------------------------------------
(* Everybody else. *)

\* A step of others that writes no status, or only lets the app go.
LEMMA OthersInv ==
  ASSUME Inv, UNCHANGED <<cache, ref, passVars>>,
         known' \in [uid : Nat, validated : BOOLEAN], known'.validated => known'.uid # 0,
         known'.uid = known.uid, app' \in BOOLEAN,
         stored' \in Version, stored'.status = stored.status,
         stored'.finalizer = stored.finalizer,
         stored.deleting => stored'.deleting,
         stored'.live = (~stored'.deleting \/ stored'.finalizer),
         {fresh', effects', edits', hashes', faults'} \subseteq Nat
  PROVE  Inv'
<1>1. UNCHANGED <<phase, cr, dirty, fin>>
  BY DEF passVars
<1>2. TypeOK'
  BY <1>1 DEF Inv, TypeOK
<1>3. (Deletions /\ Announced /\ KnownIsStored /\ UnknownIsCached /\ SyncsOnLatest)'
  BY <1>1 DEF Inv, Deletions, Announced, KnownIsStored, UnknownIsCached, SyncsOnLatest,
     Writing
<1>4. (Referred /\ Leaving /\ Gone)'
  BY <1>1 DEF Inv, Referred, Leaving, Gone
<1> QED  BY <1>2, <1>3, <1>4 DEF Inv

LEMMA EditInv == Inv /\ Edit => Inv'
<1> SUFFICES ASSUME Inv, Edit PROVE Inv'
  OBVIOUS
<1>1. /\ stored' \in Version /\ stored'.status = stored.status
      /\ stored'.live = (~stored'.deleting \/ stored'.finalizer)
      /\ stored'.deleting = stored.deleting /\ stored'.finalizer = stored.finalizer
  BY StoresType DEF Edit, Inv, TypeOK
<1>2. /\ known' \in [uid : Nat, validated : BOOLEAN]
      /\ known'.validated => known'.uid # 0
      /\ known'.uid = known.uid
  BY ValidatedType DEF Edit, Inv
<1> QED  BY <1>1, <1>2, OthersInv DEF Edit, Inv, TypeOK

LEMMA DeleteInv == Inv /\ Delete => Inv'
<1> SUFFICES ASSUME Inv, Delete PROVE Inv'
  OBVIOUS
<1> DEFINE v == [stored EXCEPT !.deleting = TRUE]
<1>1. v \in Version /\ v.status = stored.status /\ v.deleting
      /\ v.finalizer = stored.finalizer
  BY DEF Inv, TypeOK, Version
<1>2. Stores(v)
  BY DEF Delete
<1>3. /\ stored' \in Version /\ stored'.status = stored.status
      /\ stored'.live = (~stored'.deleting \/ stored'.finalizer)
      /\ stored'.deleting = v.deleting /\ stored'.finalizer = stored.finalizer
  <2> HIDE DEF v
  <2> QED  BY <1>1, <1>2, StoresType DEF Inv
<1> QED  BY <1>1, <1>3, OthersInv DEF Delete, counters, Inv, TypeOK

LEMMA DeleteAppInv == Inv /\ DeleteApp => Inv'
BY OthersInv DEF DeleteApp, counters, Inv, TypeOK, Deletions

LEMMA CacheMovesInv == Inv /\ CacheMoves => Inv'
<1> SUFFICES ASSUME Inv, CacheMoves PROVE Inv'
  OBVIOUS
<1>1. cache' = stored /\ UNCHANGED <<stored, known, ref, app, phase, cr, dirty, fin, counters>>
  BY DEF CacheMoves, passVars
<1>2. TypeOK'
  BY <1>1 DEF Inv, TypeOK, counters
<1>3. (Deletions /\ Announced /\ KnownIsStored /\ UnknownIsCached /\ SyncsOnLatest)'
  BY <1>1 DEF Inv, Deletions, Announced, KnownIsStored, UnknownIsCached, SyncsOnLatest,
     Writing
<1>4. (Referred /\ Leaving /\ Gone)'
  BY <1>1 DEF Inv, Deletions, Referred, Leaving, Gone
<1> QED  BY <1>2, <1>3, <1>4 DEF Inv

LEMMA RestartInv == Inv /\ Restart => Inv'
<1> SUFFICES ASSUME Inv, Restart PROVE Inv'
  OBVIOUS
<1>1. /\ known' = Unknown /\ ref' = FALSE /\ cache' = stored
      /\ phase' = "idle" /\ cr' = NoCopy /\ dirty' = FALSE /\ fin' = FALSE
      /\ UNCHANGED <<stored, app, fresh, effects, edits, hashes>> /\ faults' \in Nat
  BY DEF Restart, Inv, TypeOK
<1>2. NoCopy \in Copy
  BY DEF NoCopy, Copy, Blank, Stanza
<1>3. TypeOK'
  BY <1>1, <1>2 DEF Inv, TypeOK, Unknown
<1>4. (Deletions /\ Announced /\ KnownIsStored /\ UnknownIsCached /\ SyncsOnLatest)'
  BY <1>1 DEF Inv, Unknown, Deletions, Announced, KnownIsStored, UnknownIsCached,
     SyncsOnLatest
<1>5. (Referred /\ Leaving /\ Gone)'
  BY <1>1 DEF Inv, Unknown, Referred, Leaving, Gone
<1> QED  BY <1>3, <1>4, <1>5 DEF Inv

-----------------------------------------------------------------------------
(* The invariant, and what follows from it. *)

LEMMA InitInv == Init => Inv
<1> SUFFICES ASSUME Init PROVE Inv
  OBVIOUS
<1>1. Created \in Version /\ NoCopy \in Copy
  BY DEF Created, Version, NoCopy, Copy, Blank, Stanza
<1>2. stored \in Version /\ cache \in Version /\ cr \in Copy
  BY <1>1 DEF Init
<1>3. /\ known \in [uid : Nat, validated : BOOLEAN] /\ (known.validated => known.uid # 0)
      /\ {fresh, effects, edits, hashes, faults} \subseteq Nat
  BY DEF Init, Unknown
<1>4. TypeOK
  BY <1>2, <1>3 DEF Init, TypeOK
<1>5. Deletions /\ Announced /\ KnownIsStored /\ UnknownIsCached /\ SyncsOnLatest
  BY DEF Init, Created, Unknown, Deletions, Announced, KnownIsStored, UnknownIsCached,
     SyncsOnLatest
<1>6. Referred /\ Leaving /\ Gone
  BY DEF Init, Created, Unknown, Referred, Leaving, Gone
<1> QED  BY <1>4, <1>5, <1>6 DEF Inv

LEMMA NextInv == Inv /\ [Next]_vars => Inv'
<1> SUFFICES ASSUME Inv, [Next]_vars PROVE Inv'
  OBVIOUS
<1>1. CASE Pass
  BY <1>1, BeginDeletingInv, BeginKnownInv, BeginStaleInv, BeginNewInv, BeginRecoveredInv,
     SyncRolesInv, SameHashInv, NewHashInv, SyncMembersInv, NotifyInv, AnnounceInv,
     WriteStatusInv, WriteUnheardInv, WriteFinalizerInv, RefetchInv, GiveUpInv DEF Pass
<1>2. CASE Edit \/ Delete \/ DeleteApp \/ CacheMoves \/ Restart
  BY <1>2, EditInv, DeleteInv, DeleteAppInv, CacheMovesInv, RestartInv
<1>3. CASE UNCHANGED vars
  BY <1>3 DEF vars, passVars, counters, Inv, TypeOK, Deletions, Announced, KnownIsStored,
     UnknownIsCached, SyncsOnLatest, Referred, Leaving, Gone, Writing
<1> QED  BY <1>1, <1>2, <1>3 DEF Next

LEMMA Invariance == Spec => []Inv
BY InitInv, NextInv, PTL DEF Spec

\* No pass syncs roles or members from anything but the status stored last, in
\* spite of a lagging cache, conflicts, lost replies and restarts.
THEOREM PassesStartFromLatest == Spec => []SyncsOnLatest
<1>1. Inv => SyncsOnLatest
  BY DEF Inv
<1> QED  BY <1>1, Invariance, PTL

\* Between passes the UID the webhook expects is the one of the stored status, so
\* that an edit that leaves the status alone is let through.
THEOREM EditsAreAdmitted == Spec => []NobodyLockedOut
<1>1. Inv => NobodyLockedOut
  BY DEF Inv, TypeOK, Deletions, KnownIsStored, Writing, NobodyLockedOut, Admitted
<1> QED  BY <1>1, Invariance, PTL

\* A cluster that is deleted after it got the finalizer leaves neither its status
\* UID nor its reference to the app behind.
THEOREM DeletedClustersAreForgotten == Spec => []Released
<1>1. Inv => Released
  BY DEF Inv, TypeOK, Version, Deletions, Gone, Released
<1> QED  BY <1>1, Invariance, PTL

\* No app is deleted under a cluster that has been processed since KubeDirector
\* came up.
THEOREM AppsInUseAreKept == Spec => AppKept
<1>1. Inv /\ [Next]_vars => [app' = app \/ known.uid = 0 \/ stored.deleting]_app
  <2> SUFFICES ASSUME Inv, Next, app' # app
               PROVE  known.uid = 0 \/ stored.deleting
    BY DEF vars
  <2>1. DeleteApp
    BY DEF Next, Pass, Begin, BeginDeleting, BeginKnown, BeginStale, BeginNew,
       BeginRecovered, SyncRoles, SameHash, NewHash, SyncMembers, Notify, Announce,
       WriteStatus, WriteUnheard, WriteFinalizer, Refetch, GiveUp, Edit, Delete,
       CacheMoves, Restart
  <2> QED  BY <2>1 DEF DeleteApp, Inv, Referred
<1> QED  BY <1>1, Invariance, PTL DEF Spec, AppKept

\* Every reachable state is typed.
THEOREM TypeCorrect == Spec => []TypeOK
<1>1. Inv => TypeOK
  BY DEF Inv
<1> QED  BY <1>1, Invariance, PTL
=============================================================================
