----------------------------- MODULE RestoreProofs -----------------------------
(***************************************************************************)
(* What Restore.tla promises for any set of components and connections and *)
(* any number of faults: it is well typed, and no component is made a      *)
(* second time.  A component is "pending" until the tool has put it back   *)
(* and never again; the invariant says which flag of which copy of the     *)
(* status is the witness that none is pending any more.                    *)
(***************************************************************************)
EXTENDS Restore, TLAPS

\* The tool has put every component back at least once.
Back == \A c \in Components : there[c] # "pending"

\* What a copy of restoreProgress knows: without awaitingStatus the rest of the
\* stanza is that of the backup, and without awaitingResources every component it
\* names was there when that was looked up.
Truthful(st) ==
  /\ "awaitingStatus" \notin st.flags => st.content
  /\ "awaitingResources" \notin st.flags => st.content /\ Back

Coupled(st) == (st.flags # {} => st.progress) /\ (st.progress => st.made)

\* The copy of the pass under way, which nobody looks at once the label is off.
CopyInv ==
  /\ Coupled(cr)
  /\ phase # "idle" => cr.progress /\ Truthful(cr) /\ (label \/ forced)
  /\ phase = "resources" => "awaitingStatus" \notin cr.flags

\* What was stored, before and after the label is taken off.
StoredInv ==
  /\ label /\ stat.progress => Truthful(stat)
  /\ ~label /\ ~forced => stat.content /\ Back

Inv == TypeOK /\ CopyInv /\ StoredInv /\ NothingDoubled

-----------------------------------------------------------------------------
(* The parts that the actions share. *)

LEMMA StartedIsTruthful ==
  ASSUME Inv, label
  PROVE  /\ Started \in Status /\ Coupled(Started) /\ Started.progress /\ Truthful(Started)
         /\ Started.flags = {} => Started = stat /\ stat.progress
<1> USE DEF Status
<1>1. stat \in Status /\ Coupled(stat)
  BY DEF Inv, TypeOK, Coupled
<1>2. CASE stat.progress
  <2>1. Started = stat
    BY <1>2 DEF Started
  <2>2. Truthful(stat)
    BY <1>2 DEF Inv, StoredInv
  <2> QED  BY <1>1, <1>2, <2>1, <2>2
<1>3. CASE ~stat.progress
  <2>1. Started = [stat EXCEPT !.made = TRUE, !.progress = TRUE, !.flags = Flags]
    BY <1>3 DEF Started
  <2>2. Started \in Status /\ Started.made /\ Started.progress /\ Started.flags = Flags
    BY <1>1, <2>1
  <2>3. "awaitingStatus" \in Flags /\ "awaitingResources" \in Flags /\ Flags # {}
    BY DEF Flags
  <2> QED  BY <2>2, <2>3 DEF Coupled, Truthful
<1> QED  BY <1>2, <1>3

LEMMA FlaggedKeeps ==
  ASSUME TypeOK, NEW flag \in Flags, NEW waiting \in BOOLEAN
  PROVE  /\ Flagged(flag, waiting) \in Status
         /\ Flagged(flag, waiting).flags = IF waiting THEN cr.flags \cup {flag} ELSE cr.flags \ {flag}
         /\ Flagged(flag, waiting).made = cr.made
         /\ Flagged(flag, waiting).progress = cr.progress
         /\ Flagged(flag, waiting).content = cr.content
<1>1. cr \in Status
  BY DEF TypeOK
<1>2. (IF waiting THEN cr.flags \cup {flag} ELSE cr.flags \ {flag}) \in SUBSET Flags
  BY <1>1 DEF Status
<1> QED  BY <1>1, <1>2 DEF Flagged, Status

\* A resource that moves but does not become pending keeps what is known.
LEMMA StaysBack ==
  ASSUME TypeOK, NEW x \in Resources, there' = [there EXCEPT ![x] = "there"]
                                      \/ there' = [there EXCEPT ![x] = "gone"]
  PROVE  /\ there' \in [Resources -> {"pending", "there", "gone"}]
         /\ Back => Back'
<1>1. there \in [Resources -> {"pending", "there", "gone"}] /\ Components \subseteq Resources
  BY DEF TypeOK, Resources
<1> QED  BY <1>1 DEF Back

\* A step that only moves resources, or faults and what is kept in memory.
LEMMA OthersInv ==
  ASSUME Inv, OthersKeep,
         there' \in [Resources -> {"pending", "there", "gone"}], Back => Back',
         known' \in BOOLEAN, ref' \in BOOLEAN, faults' \in Nat
  PROVE  Inv'
<1> USE DEF Inv, OthersKeep
<1>1. TypeOK'
  BY DEF TypeOK
<1>2. CopyInv'
  BY DEF CopyInv, Coupled, Truthful
<1>3. StoredInv'
  BY DEF StoredInv, Truthful
<1>4. NothingDoubled'
  BY DEF NothingDoubled
<1> QED  BY <1>1, <1>2, <1>3, <1>4

-----------------------------------------------------------------------------
(* One lemma per action. *)

LEMMA InitInv == Init => Inv
<1> SUFFICES ASSUME Init PROVE Inv
  OBVIOUS
<1>1. NoStatus \in Status /\ ~NoStatus.progress /\ NoStatus.flags = {} /\ ~NoStatus.made
  BY DEF NoStatus, Status
<1>2. TypeOK
  BY <1>1 DEF Init, TypeOK
<1>3. CopyInv /\ StoredInv /\ NothingDoubled
  BY <1>1 DEF Init, CopyInv, StoredInv, NothingDoubled, Coupled
<1> QED  BY <1>2, <1>3 DEF Inv

LEMMA ResumeRestoredInv == ASSUME Inv, ResumeRestored PROVE Inv'
<1> USE DEF ResumeRestored, Restoring, Keeps, Inv
<1>1. stat.progress /\ stat.flags = {} /\ Truthful(stat)
  BY StartedIsTruthful
<1>2. stat.content /\ Back
  BY <1>1 DEF Truthful
<1>3. TypeOK'
  BY DEF TypeOK
<1>4. CopyInv'
  BY DEF CopyInv, Coupled
<1>5. StoredInv'
  BY <1>2 DEF StoredInv, Back
<1> QED  BY <1>3, <1>4, <1>5 DEF NothingDoubled

LEMMA TakenInv ==
  ASSUME Inv, Restoring, NEW st \in Status, Coupled(st), st.progress, Truthful(st),
         cr' = st, phase' = "app", UNCHANGED <<label, stat>>, Keeps
  PROVE  Inv'
<1> USE DEF Inv, Keeps, Restoring
<1>1. TypeOK'
  BY DEF TypeOK
<1>2. CopyInv'
  BY DEF CopyInv, Coupled, Truthful, Back
<1>3. StoredInv'
  BY DEF StoredInv, Truthful, Back
<1> QED  BY <1>1, <1>2, <1>3 DEF NothingDoubled

LEMMA ResumeRefusedInv == ASSUME Inv, ResumeRefused PROVE Inv'
<1> DEFINE st == [stat EXCEPT !.error = TRUE]
<1>1. label /\ Started = stat /\ stat \in Status /\ Coupled(stat) /\ stat.progress /\ Truthful(stat)
  BY StartedIsTruthful DEF ResumeRefused, Restoring
<1>2. st \in Status /\ Coupled(st) /\ st.progress /\ Truthful(st)
  BY <1>1 DEF Status, Coupled, Truthful
<1> HIDE DEF st
<1> QED  BY <1>2, TakenInv DEF ResumeRefused, st

LEMMA BeginRestoreInv == ASSUME Inv, BeginRestore PROVE Inv'
<1>1. Started \in Status /\ Coupled(Started) /\ Started.progress /\ Truthful(Started)
  BY StartedIsTruthful DEF BeginRestore, Restoring
<1> QED  BY <1>1, TakenInv DEF BeginRestore

\* A check that moves on with a copy that is still truthful.
LEMMA CheckInv ==
  ASSUME Inv, phase # "idle", phase' \in {"status", "resources", "write"},
         cr' \in Status, Coupled(cr'), cr'.progress, Truthful(cr'),
         phase' = "resources" => "awaitingStatus" \notin cr'.flags,
         UNCHANGED <<label, stat>>, Keeps
  PROVE  Inv'
<1> USE DEF Inv, Keeps
<1>1. TypeOK'
  BY DEF TypeOK
<1>2. CopyInv'
  BY DEF CopyInv, Coupled, Truthful, Back
<1>3. StoredInv'
  BY DEF StoredInv, Truthful, Back
<1> QED  BY <1>1, <1>2, <1>3 DEF NothingDoubled

LEMMA CheckAppRestoredInv == ASSUME Inv, CheckAppRestored PROVE Inv'
<1>1. TypeOK /\ Coupled(cr) /\ cr.progress /\ Truthful(cr) /\ phase = "app"
  BY DEF Inv, CopyInv, CheckAppRestored
<1>2. cr' = Flagged("awaitingApp", there["app"] # "there") /\ "awaitingApp" \in Flags
      /\ phase' = "status"
  BY DEF CheckAppRestored, Flags
<1>3. cr' \in Status /\ cr'.made = cr.made /\ cr'.progress = cr.progress
      /\ cr'.content = cr.content
      /\ cr'.flags \in {cr.flags \cup {"awaitingApp"}, cr.flags \ {"awaitingApp"}}
  BY <1>1, <1>2, FlaggedKeeps
<1>4. Coupled(cr') /\ Truthful(cr')
  BY <1>1, <1>3 DEF Coupled, Truthful
<1> QED  BY <1>1, <1>2, <1>3, <1>4, CheckInv DEF CheckAppRestored

LEMMA CheckStatusRestoredInv == ASSUME Inv, CheckStatusRestored PROVE Inv'
<1>1. TypeOK /\ Coupled(cr) /\ cr.progress /\ Truthful(cr) /\ phase = "status"
  BY DEF Inv, CopyInv, CheckStatusRestored
<1>2. /\ phase' \in {"status", "resources", "write"}
      /\ phase' = "resources" => "awaitingStatus" \notin cr'.flags
  BY DEF CheckStatusRestored
<1>3. CASE "awaitingStatus" \in cr.flags /\ there["backup"] = "there"
  <2> DEFINE st == Flagged("awaitingStatus", FALSE)
  <2>1. st \in Status /\ st.flags = cr.flags \ {"awaitingStatus"} /\ st.made = cr.made
        /\ st.progress = cr.progress
    BY <1>1, FlaggedKeeps DEF Flags
  <2> HIDE DEF st
  <2>2. cr' = [st EXCEPT !.content = TRUE]
    BY <1>3 DEF CheckStatusRestored, st
  <2>3. cr' \in Status /\ cr'.flags = st.flags /\ cr'.made = st.made
        /\ cr'.progress = st.progress /\ cr'.content
    BY <2>1, <2>2 DEF Status
  <2>4. Coupled(cr') /\ Truthful(cr') /\ cr'.progress
    BY <1>1, <2>1, <2>3 DEF Coupled, Truthful
  <2> QED  BY <1>1, <1>2, <2>3, <2>4, CheckInv DEF CheckStatusRestored
<1>4. CASE ~("awaitingStatus" \in cr.flags /\ there["backup"] = "there")
  <2>1. cr' = cr /\ cr \in Status
    BY <1>1, <1>4 DEF CheckStatusRestored, TypeOK
  <2> QED  BY <1>1, <1>2, <2>1, CheckInv DEF CheckStatusRestored
<1> QED  BY <1>3, <1>4

LEMMA CheckResourcesRestoredInv == ASSUME Inv, CheckResourcesRestored PROVE Inv'
<1>1. TypeOK /\ Coupled(cr) /\ cr.progress /\ Truthful(cr) /\ phase = "resources"
      /\ "awaitingStatus" \notin cr.flags
  BY DEF Inv, CopyInv, CheckResourcesRestored
<1>2. cr' = Flagged("awaitingResources", ~Present(Required)) /\ phase' = "write"
  BY DEF CheckResourcesRestored
<1>3. /\ cr' \in Status /\ cr'.made = cr.made /\ cr'.progress = cr.progress
      /\ cr'.content = cr.content
      /\ cr'.flags = IF ~Present(Required) THEN cr.flags \cup {"awaitingResources"}
                     ELSE cr.flags \ {"awaitingResources"}
  BY <1>1, <1>2, FlaggedKeeps DEF Flags
\* The components are among what is required, for the status is known by now.
<1>4. cr.content /\ (Present(Required) => Back)
  BY <1>1 DEF Truthful, Required, Present, Back
<1>5. Coupled(cr') /\ Truthful(cr')
  BY <1>1, <1>3, <1>4 DEF Coupled, Truthful
<1> QED  BY <1>1, <1>2, <1>3, <1>5, CheckInv DEF CheckResourcesRestored

LEMMA WriteRestoreStatusInv == ASSUME Inv, WriteRestoreStatus PROVE Inv'
<1> USE DEF WriteRestoreStatus, Inv
<1>1. NoStatus \in Status /\ ~NoStatus.progress /\ NoStatus.flags = {} /\ ~NoStatus.made
  BY DEF NoStatus, Status
<1>2. cr \in Status /\ Coupled(cr) /\ Truthful(cr) /\ cr.progress /\ (label \/ forced)
  BY DEF TypeOK, CopyInv
<1>3. stat' \in {stat, cr}
  OBVIOUS
<1>4. TypeOK'
  BY <1>1, <1>2 DEF TypeOK, Coupled
<1>5. CopyInv'
  BY <1>1 DEF CopyInv, Coupled
<1>6. StoredInv'
  BY <1>2, <1>3 DEF StoredInv, Truthful, Back
<1> QED  BY <1>4, <1>5, <1>6 DEF NothingDoubled

\* Where no component is pending there is none that the pass could double.
LEMMA NormalPassInv == ASSUME Inv, NormalPass PROVE Inv'
<1> DEFINE missing == IF stat.content THEN {c \in Components : there[c] # "there"}
                      ELSE Components
           kept == [x \in Resources |-> IF x \in missing /\ there[x] = "gone"
                                          THEN "there" ELSE there[x]]
<1>1. PICK on \in BOOLEAN :
        there' = [kept EXCEPT !["backup"] = IF on THEN "there"
                                            ELSE IF @ = "there" THEN "gone" ELSE @]
  BY DEF NormalPass
<1>2. TypeOK /\ CopyInv /\ StoredInv /\ NothingDoubled /\ ~label /\ phase = "idle"
  BY DEF Inv, NormalPass
<1>3. /\ doubled' = doubled \cup {c \in missing : there[c] = "pending"}
      /\ missing \subseteq Components
      /\ stat' = [stat EXCEPT !.progress = FALSE, !.flags = {}, !.error = FALSE, !.content = TRUE]
      /\ known' = TRUE /\ ref' = (ref \/ ~known)
      /\ UNCHANGED <<live, label, phase, cr, forced, faults>>
  BY DEF NormalPass
<1>4. kept \in [Resources -> {"pending", "there", "gone"}]
  BY <1>2 DEF TypeOK
<1>5. Components \subseteq Resources /\ "backup" \notin Components
  BY KindsAssumption DEF Resources
<1>6. Back => Back'
  BY <1>1, <1>5 DEF Back
<1>7. there' \in [Resources -> {"pending", "there", "gone"}]
  BY <1>1, <1>4
<1> HIDE DEF kept, missing
<1>8. stat' \in Status /\ stat'.content /\ ~stat'.progress /\ stat'.flags = {}
  BY <1>2, <1>3 DEF TypeOK, Status
<1>9. TypeOK'
  BY <1>2, <1>3, <1>7, <1>8 DEF TypeOK
<1>10. CopyInv'
  BY <1>2, <1>3 DEF CopyInv, Coupled
<1>11. StoredInv'
  BY <1>2, <1>3, <1>6, <1>8 DEF StoredInv
<1>12. NothingDoubled'
  BY <1>2, <1>3 DEF NothingDoubled, StoredInv, Back
<1> QED  BY <1>9, <1>10, <1>11, <1>12 DEF Inv

LEMMA ToolInv ==
  ASSUME Inv, NEW x \in Resources, PutBack(x) \/ Disappear(x) \/ Reappear(x)
  PROVE  Inv'
<1>1. TypeOK /\ faults \in Nat /\ known \in BOOLEAN /\ ref \in BOOLEAN
  BY DEF Inv, TypeOK
<1>2. /\ there' \in [Resources -> {"pending", "there", "gone"}]
      /\ Back => Back'
  BY <1>1, StaysBack DEF PutBack, Disappear, Reappear
<1>3. known' \in BOOLEAN /\ ref' \in BOOLEAN /\ faults' \in Nat /\ OthersKeep
  BY <1>1 DEF PutBack, Disappear, Reappear
<1> QED  BY <1>2, <1>3, OthersInv

LEMMA RestartInv == ASSUME Inv, Restart PROVE Inv'
<1>1. NoStatus \in Status /\ ~NoStatus.progress /\ NoStatus.flags = {}
  BY DEF NoStatus, Status
<1>2. TypeOK /\ CopyInv /\ StoredInv /\ NothingDoubled
  BY DEF Inv
<1>3. /\ known' = FALSE /\ ref' = FALSE /\ phase' = "idle" /\ cr' = NoStatus
      /\ UNCHANGED <<there, live, label, stat, doubled, forced>>
  BY DEF Restart
<1>4. faults' \in Nat
  BY <1>2 DEF Restart, TypeOK
<1>5. TypeOK'
  BY <1>1, <1>2, <1>3, <1>4 DEF TypeOK
<1>6. CopyInv'
  BY <1>1, <1>3 DEF CopyInv, Coupled
<1>7. StoredInv'
  BY <1>2, <1>3 DEF StoredInv, Truthful, Back
<1> QED  BY <1>2, <1>3, <1>5, <1>6, <1>7 DEF Inv, NothingDoubled

\* Neither the user who forces it nor the one who deletes the cluster touches a
\* status or a resource.
LEMMA UserInv == ASSUME Inv, TakeLabelOff \/ DeleteRestoring PROVE Inv'
<1>1. TypeOK /\ CopyInv /\ StoredInv /\ NothingDoubled
  BY DEF Inv
<1>2. /\ UNCHANGED <<there, stat, known, ref, phase, cr, doubled, faults>>
      /\ live' \in BOOLEAN /\ label' \in BOOLEAN /\ forced' \in BOOLEAN
      /\ (UNCHANGED <<label, forced>> \/ forced')
      /\ label' => label
  <2>1. CASE TakeLabelOff  BY <1>1, <2>1 DEF TakeLabelOff, TypeOK
  <2>2. CASE DeleteRestoring  BY <1>1, <2>2 DEF DeleteRestoring, TypeOK
  <2> QED  BY <2>1, <2>2
<1>3. TypeOK'
  BY <1>1, <1>2 DEF TypeOK
<1>4. CopyInv'
  BY <1>1, <1>2 DEF CopyInv, Coupled, Truthful, Back
<1>5. StoredInv'
  BY <1>1, <1>2 DEF StoredInv, Truthful, Back
<1>6. NothingDoubled'
  BY <1>1, <1>2 DEF NothingDoubled
<1> QED  BY <1>3, <1>4, <1>5, <1>6 DEF Inv

LEMMA StutterInv == ASSUME Inv, UNCHANGED vars PROVE Inv'
BY DEF Inv, vars, TypeOK, CopyInv, StoredInv, NothingDoubled, Coupled, Truthful, Back

LEMMA NextInv == ASSUME Inv, Next PROVE Inv'
<1>1. CASE ResumeRestored  BY <1>1, ResumeRestoredInv
<1>2. CASE ResumeRefused  BY <1>2, ResumeRefusedInv
<1>3. CASE BeginRestore  BY <1>3, BeginRestoreInv
<1>4. CASE CheckAppRestored  BY <1>4, CheckAppRestoredInv
<1>5. CASE CheckStatusRestored  BY <1>5, CheckStatusRestoredInv
<1>6. CASE CheckResourcesRestored  BY <1>6, CheckResourcesRestoredInv
<1>7. CASE WriteRestoreStatus  BY <1>7, WriteRestoreStatusInv
<1>8. CASE NormalPass  BY <1>8, NormalPassInv
<1>9. CASE \E x \in Resources : PutBack(x) \/ Disappear(x) \/ Reappear(x)
  BY <1>9, ToolInv
<1>10. CASE Restart  BY <1>10, RestartInv
<1>11. CASE TakeLabelOff \/ DeleteRestoring  BY <1>11, UserInv
<1> QED
  BY <1>1, <1>2, <1>3, <1>4, <1>5, <1>6, <1>7, <1>8, <1>9, <1>10, <1>11 DEF Next

LEMMA Invariance == Spec => []Inv
<1>1. Inv /\ [Next]_vars => Inv'
  BY NextInv, StutterInv
<1> QED  BY InitInv, <1>1, PTL DEF Spec

-----------------------------------------------------------------------------
\* handleRestore keeps its types whatever comes back, disappears or restarts: in
\* particular a flag is only ever set in a stanza that has a restoreProgress.
THEOREM RestoreTypes == Spec => []TypeOK
<1>1. Inv => TypeOK
  BY DEF Inv
<1> QED  BY Invariance, <1>1, PTL

\* Unless a user forced it, the normal pass of a restored cluster never makes a
\* component that the tool still has to put back, although the flags it goes by
\* were computed at different moments, are read from a status written by an
\* earlier pass and survive restarts and resources that disappear again.
THEOREM RestoreNothingDoubled == Spec => []NothingDoubled
<1>1. Inv => NothingDoubled
  BY DEF Inv
<1> QED  BY Invariance, <1>1, PTL

=============================================================================
