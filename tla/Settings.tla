------------------------------ MODULE Settings ------------------------------
(***************************************************************************)
(* The KubeDirectorConfig resource and the copy of it that KubeDirector    *)
(* keeps in memory for the webhook and the reconcilers: users create,      *)
(* change and delete the resource, the webhook fills in what they leave    *)
(* out, a reconciler that nothing polls brings each change into memory,    *)
(* and a restart loses all of it.                                          *)
(*                                                                         *)
(* Of the properties the model keeps the master encryption key, which is   *)
(* generated when it is left out, and one setting that stands for the      *)
(* others, which have a fixed default.  A key the user picks is as good as *)
(* a generated one: both are new numbers.  One resource: the code expects  *)
(* the name kd-global-config.                                              *)
(***************************************************************************)
EXTENDS Integers

CONSTANTS
  Values,     \* the values of the setting
  BuiltIn,    \* the one it has by default
  Upgraded,   \* whether a resource without a key is left from an older version
  MaxEdits,   \* bounds what users do
  MaxFaults   \* bounds restarts, lost replies and failed patches

ASSUME SettingsAssumption ==
  /\ BuiltIn \in Values /\ Upgraded \in BOOLEAN
  /\ MaxEdits \in Nat /\ MaxFaults \in Nat

VARIABLES
  config,        \* the stored resource
  cachedConfig,  \* the informer's copy of it
  configQueued,  \* whether a reconcile request is queued for it
  configGen,     \* the StatusGens entry: for which resource, its UID, validated
  globalConfig,  \* the settings in memory
  phase,         \* where the pass is
  cr,            \* its copy of the resource
  fresh,         \* the last status UID made
  keysMade,      \* the last key made
  heldSpecs,     \* what the stored resource has said so far, and the defaults
  patchFailed,   \* whether the patch of ensureMasterKey failed
  edits, faults

vars == <<config, cachedConfig, configQueued, configGen, globalConfig, phase, cr,
          fresh, keysMade, heldSpecs, patchFailed, edits, faults>>
stored == <<config, keysMade, heldSpecs>>
memory == <<configGen, globalConfig, configQueued, phase, cr, fresh>>

NoKey == 0
Spec0 == [key |-> NoKey, setting |-> BuiltIn]

\* Without a resource the getters return the defaults, and no key.
NoConfig == Spec0

ConfigSpec == [key : Nat, setting : Values]

\* uid 0 stands for a resource without a status stanza.
Config == [live : BOOLEAN, id : Nat, rv : Nat, deleting : BOOLEAN, finalizer : BOOLEAN,
           uid : Nat, ready : BOOLEAN, spec : ConfigSpec]

Gone == [live |-> FALSE, id |-> 0, rv |-> 0, deleting |-> FALSE, finalizer |-> FALSE,
         uid |-> 0, ready |-> FALSE, spec |-> Spec0]

\* What a pass knows besides: whether the status has to be written, and whether
\* the settings in memory are this very copy.
Copy == [res : Config, dirty : BOOLEAN, added : BOOLEAN]
NoCopy == [res |-> Gone, dirty |-> FALSE, added |-> FALSE]

Unknown == [id |-> 0, uid |-> 0, validated |-> FALSE]

SettingsTypeOK ==
  /\ config \in Config /\ cachedConfig \in Config
  /\ configQueued \in BOOLEAN
  /\ configGen \in [id : Nat, uid : Nat, validated : BOOLEAN]
  /\ globalConfig \in ConfigSpec
  /\ phase \in {"idle", "announce", "write", "finalizer"} /\ cr \in Copy
  /\ cr.dirty <=> phase \in {"announce", "write"}
  /\ fresh \in Nat /\ keysMade \in Nat /\ heldSpecs \subseteq ConfigSpec
  /\ patchFailed \in BOOLEAN /\ edits \in 0 .. MaxEdits /\ faults \in 0 .. MaxFaults

SettingsInit ==
  /\ config = IF Upgraded
                THEN [Gone EXCEPT !.live = TRUE, !.id = 1, !.finalizer = TRUE,
                                  !.uid = 1, !.ready = TRUE]
                ELSE Gone
  /\ cachedConfig = config /\ configQueued = TRUE
  /\ configGen = Unknown /\ globalConfig = NoConfig
  /\ phase = "idle" /\ cr = NoCopy
  /\ fresh = 1 /\ keysMade = 0 /\ heldSpecs = {Spec0}
  /\ patchFailed = FALSE /\ edits = 0 /\ faults = 0

-----------------------------------------------------------------------------
(* The webhook. *)

\* A key is generated when it is left out.
Populated(key) == IF key = NoKey THEN keysMade + 1 ELSE key

\* A write of the resource with this spec, populated; one that changes nothing
\* makes no new version.
Stores(res) ==
  LET key == Populated(res.spec.key)
      new == [res EXCEPT !.spec.key = key]
  IN  /\ config' = IF new = config THEN config ELSE [new EXCEPT !.rv = config.rv + 1]
      /\ keysMade' = IF key > keysMade THEN key ELSE keysMade
      /\ heldSpecs' = IF new.live THEN heldSpecs \cup {new.spec} ELSE heldSpecs

\* An unchanged status is let through when it is the one expected.
StatusAdmitted ==
  config.uid = 0 \/ configGen.id # config.id \/ configGen.uid = config.uid

Validated == IF configGen.id = config.id THEN [configGen EXCEPT !.validated = TRUE]
             ELSE configGen

UserKeeps ==
  /\ edits < MaxEdits /\ edits' = edits + 1
  /\ UNCHANGED <<cachedConfig, configQueued, globalConfig, phase, cr, fresh, patchFailed,
                 faults>>

CreateConfig ==
  /\ ~config.live
  /\ \E value \in Values :
       Stores([Gone EXCEPT !.live = TRUE, !.id = config.id + 1, !.spec.setting = value])
  /\ UNCHANGED configGen /\ UserKeeps

\* The key may not be changed while clusters are noted as using apps.  A request
\* that comes to nothing is not stored.
EditConfig(anyClusters) ==
  /\ config.live /\ StatusAdmitted
  /\ \E value \in Values, rekey \in BOOLEAN :
       /\ rekey => ~anyClusters \/ config.spec.key = NoKey
       /\ rekey \/ value # config.spec.setting \/ config.spec.key = NoKey
       /\ Stores([config EXCEPT !.spec = [key |-> IF rekey THEN NoKey ELSE @.key,
                                          setting |-> value]])
  /\ configGen' = Validated
  /\ UserKeeps

DeleteConfig(anyClusters) ==
  /\ config.live /\ ~config.deleting /\ ~anyClusters
  /\ config' = [config EXCEPT !.rv = @ + 1, !.deleting = TRUE, !.live = config.finalizer]
  /\ UNCHANGED <<keysMade, heldSpecs, configGen>> /\ UserKeeps

-----------------------------------------------------------------------------
(* A pass: Reconcile and syncConfig. *)

PassKeeps == UNCHANGED <<cachedConfig, edits>>

Takes(res, dirty, added) ==
  /\ phase' = IF dirty THEN "announce"
              ELSE IF res.finalizer # cachedConfig.finalizer THEN "finalizer" ELSE "idle"
  /\ cr' = IF phase' = "idle" THEN NoCopy
           ELSE [res |-> res, dirty |-> dirty, added |-> added]

Begins ==
  /\ phase = "idle" /\ configQueued
  /\ configQueued' = FALSE
  /\ UNCHANGED fresh /\ PassKeeps

BeginGone ==
  /\ Begins /\ ~cachedConfig.live
  /\ globalConfig' = NoConfig
  /\ UNCHANGED <<stored, configGen, phase, cr, patchFailed, faults>>

BeginDeleting ==
  /\ Begins /\ cachedConfig.live /\ cachedConfig.deleting
  /\ configGen' = IF configGen.id = cachedConfig.id THEN Unknown ELSE configGen
  /\ Takes([cachedConfig EXCEPT !.finalizer = FALSE], FALSE, FALSE)
  /\ UNCHANGED <<stored, globalConfig, patchFailed, faults>>

Processes == Begins /\ cachedConfig.live /\ ~cachedConfig.deleting

Kept == [cachedConfig EXCEPT !.finalizer = TRUE]
Known == configGen.id = cachedConfig.id

\* The error has the request queued again.
BeginStale ==
  /\ phase = "idle" /\ configQueued /\ cachedConfig.live /\ ~cachedConfig.deleting
  /\ Known /\ configGen.uid # cachedConfig.uid
  /\ Takes(Kept, FALSE, FALSE)
  /\ UNCHANGED <<stored, configGen, configQueued, globalConfig, fresh, patchFailed, faults>>
  /\ PassKeeps

BeginNew ==
  /\ Processes /\ ~Known /\ cachedConfig.uid = 0
  /\ Takes(Kept, TRUE, FALSE)
  /\ UNCHANGED <<stored, configGen, globalConfig, patchFailed, faults>>

Adds_Once(res) ==
  /\ Takes([res EXCEPT !.ready = TRUE], ~res.ready, TRUE)
  /\ globalConfig' = IF res.ready /\ globalConfig # NoConfig THEN globalConfig ELSE res.spec

Adds_ByPart(res) ==
  /\ Takes([res EXCEPT !.ready = TRUE], ~res.ready, TRUE)
  /\ globalConfig' = [res.spec EXCEPT !.key = IF globalConfig.key = NoKey THEN @
                                              ELSE globalConfig.key]

Adds(res) ==
  /\ Takes([res EXCEPT !.ready = TRUE], ~res.ready, TRUE)
  /\ globalConfig' = res.spec

BeginKnown ==
  /\ Processes /\ Known /\ configGen.uid = cachedConfig.uid
  /\ Adds(Kept)
  /\ UNCHANGED <<stored, configGen, patchFailed, faults>>

Recovers ==
  /\ Processes /\ ~Known /\ cachedConfig.uid # 0
  /\ configGen' = [id |-> cachedConfig.id, uid |-> cachedConfig.uid, validated |-> TRUE]

BeginRecovered ==
  /\ Recovers /\ cachedConfig.spec.key # NoKey
  /\ Adds(Kept)
  /\ UNCHANGED <<stored, patchFailed, faults>>

BeginPatched_Alone ==
  /\ Recovers /\ cachedConfig.spec.key = NoKey /\ config.live
  /\ keysMade' = keysMade + 1
  /\ Adds([Kept EXCEPT !.spec.key = keysMade'])
  /\ UNCHANGED <<config, heldSpecs, patchFailed, faults>>

\* ensureMasterKey.  Original and patched resource share their spec, so that the
\* patch is empty; the webhook then generates the key, and the reply carries it,
\* but not the resource version.
BeginPatched ==
  /\ Recovers /\ cachedConfig.spec.key = NoKey /\ config.live
  /\ IF config.spec.key = NoKey THEN Stores(config) ELSE UNCHANGED stored
  /\ Adds([Kept EXCEPT !.spec = config'.spec])
  /\ UNCHANGED <<patchFailed, faults>>

\* When the patch fails the key made for it stays in memory.
BeginUnpatched ==
  /\ Recovers /\ cachedConfig.spec.key = NoKey
  /\ faults < MaxFaults /\ faults' = faults + 1
  /\ patchFailed' = TRUE /\ keysMade' = keysMade + 1
  /\ Adds([Kept EXCEPT !.spec.key = keysMade'])
  /\ UNCHANGED <<config, heldSpecs>>

-----------------------------------------------------------------------------
(* The deferred writes. *)

WriteKeeps == UNCHANGED <<cachedConfig, configQueued, patchFailed, edits>>

Announce_Once ==
  /\ phase = "announce"
  /\ fresh' = fresh + 1
  /\ cr' = [cr EXCEPT !.res.uid = fresh']
  /\ configGen' = IF configGen.id = cr.res.id /\ ~configGen.validated THEN configGen
                  ELSE [id |-> cr.res.id, uid |-> fresh', validated |-> FALSE]
  /\ phase' = "write"
  /\ UNCHANGED <<stored, globalConfig, faults>> /\ WriteKeeps

\* WriteStatusGen, before the write itself.
Announce ==
  /\ phase = "announce"
  /\ fresh' = fresh + 1
  /\ cr' = [cr EXCEPT !.res.uid = fresh']
  /\ configGen' = [id |-> cr.res.id, uid |-> fresh', validated |-> FALSE]
  /\ phase' = "write"
  /\ UNCHANGED <<stored, globalConfig, faults>> /\ WriteKeeps

InDate == config.live /\ cr.res.rv = config.rv

StatusStored ==
  config' = [config EXCEPT !.uid = cr.res.uid, !.ready = cr.res.ready, !.rv = @ + 1]

\* The webhook does not see the writes of the status.
WriteStatus ==
  /\ phase = "write" /\ InDate
  /\ StatusStored
  /\ phase' = IF cr.res.finalizer # config.finalizer THEN "finalizer" ELSE "idle"
  /\ cr' = IF phase' = "idle" THEN NoCopy
           ELSE [cr EXCEPT !.dirty = FALSE, !.res.rv = config'.rv]
  /\ UNCHANGED <<configGen, globalConfig, fresh, keysMade, heldSpecs, faults>> /\ WriteKeeps

WriteUnheard ==
  /\ phase = "write" /\ InDate
  /\ faults < MaxFaults /\ faults' = faults + 1
  /\ StatusStored
  /\ phase' = "announce"
  /\ UNCHANGED <<configGen, globalConfig, cr, fresh, keysMade, heldSpecs>> /\ WriteKeeps

\* A resource on its way out goes with its finalizer.
WriteFinalizer ==
  /\ phase = "finalizer" /\ InDate
  /\ Stores([config EXCEPT !.finalizer = cr.res.finalizer, !.spec = cr.res.spec,
                           !.live = cr.res.finalizer \/ ~config.deleting])
  /\ configGen' = Validated
  /\ phase' = "idle" /\ cr' = NoCopy
  /\ UNCHANGED <<globalConfig, fresh, faults>> /\ WriteKeeps

Refetch_FinalizerFirst ==
  /\ phase \in {"write", "finalizer"} /\ config.live /\ cr.res.rv # config.rv
  /\ cr' = [cr EXCEPT !.res = [config EXCEPT !.uid = cr.res.uid, !.ready = cr.res.ready,
                                             !.finalizer = cr.res.finalizer]]
  /\ globalConfig' = IF cr.added THEN config.spec ELSE globalConfig
  /\ phase' = IF cr.res.finalizer # config.finalizer THEN "finalizer" ELSE "announce"
  /\ UNCHANGED <<stored, configGen, fresh, faults>> /\ WriteKeeps

\* After a conflict the status and the finalizer go onto the resource as it is
\* now.  Settings in memory that are this copy change with it.
Refetch ==
  /\ phase \in {"write", "finalizer"} /\ config.live /\ cr.res.rv # config.rv
  /\ cr' = [cr EXCEPT !.res = [config EXCEPT !.uid = cr.res.uid, !.ready = cr.res.ready,
                                             !.finalizer = cr.res.finalizer]]
  /\ globalConfig' = IF cr.added THEN config.spec ELSE globalConfig
  /\ phase' = IF cr.dirty THEN "announce" ELSE "finalizer"
  /\ UNCHANGED <<stored, configGen, fresh, faults>> /\ WriteKeeps

GiveUp ==
  /\ phase \in {"write", "finalizer"} /\ ~config.live
  /\ phase' = "idle" /\ cr' = NoCopy
  /\ UNCHANGED <<stored, configGen, globalConfig, fresh, faults>> /\ WriteKeeps

-----------------------------------------------------------------------------

\* The informer catches up, and queues a request.
CacheMoves ==
  /\ cachedConfig # config
  /\ cachedConfig' = config /\ configQueued' = TRUE
  /\ UNCHANGED <<stored, configGen, globalConfig, phase, cr, fresh, patchFailed, edits,
                 faults>>

RestartSettings ==
  /\ faults < MaxFaults /\ faults' = faults + 1
  /\ cachedConfig' = config /\ configQueued' = TRUE
  /\ configGen' = Unknown /\ globalConfig' = NoConfig
  /\ phase' = "idle" /\ cr' = NoCopy
  /\ UNCHANGED <<stored, fresh, patchFailed, edits>>

Pass ==
  \/ BeginGone \/ BeginDeleting \/ BeginStale \/ BeginNew \/ BeginKnown
  \/ BeginRecovered \/ BeginPatched \/ BeginUnpatched
  \/ Announce \/ WriteStatus \/ WriteUnheard \/ WriteFinalizer \/ Refetch \/ GiveUp

\* Without clusters nothing is refused that is let through with them.
SettingsNext ==
  \/ Pass \/ CacheMoves \/ RestartSettings
  \/ CreateConfig \/ EditConfig(FALSE) \/ DeleteConfig(FALSE)

SettingsSpec == SettingsInit /\ [][SettingsNext]_vars

\* A queued request is worked off, its steps return, and the informer catches up.
SettingsFairness == WF_vars(Pass) /\ WF_vars(CacheMoves)

FairSettings == SettingsSpec /\ SettingsFairness

-----------------------------------------------------------------------------
(* Properties. *)

Current == IF config.live THEN config.spec ELSE NoConfig

\* The key in memory, with which the webhook encrypts, is one that the stored
\* resource has had, so that a secret can be read again after a restart; the key
\* has been made by the webhook, by a user, or in a pass of its own accord.  (When
\* the patch of a missing key fails, the key is only in memory.)
KeyIsStored == patchFailed \/ \E spec \in heldSpecs : spec.key = globalConfig.key

\* Between passes the webhook expects the status UID that is stored, so that an
\* edit is let through: a write may be refused, unheard or overtaken by a deletion
\* and a new resource of the same name.
StaysEditable == config.live /\ phase = "idle" => StatusAdmitted

\* What KubeDirector goes by is in the end what the stored resource says, or the
\* defaults when there is none, whatever conflicts, lost replies and restarts come
\* between: nothing polls the resource, and an error or event missed would leave
\* old settings in force.  (A failed patch of the missing key is the exception:
\* the key in memory is then not stored.)
SettingsArrive == <>[](globalConfig = Current \/ patchFailed)

\* At any time one spec as a whole is in force, and it is one that the resource
\* has had or the defaults: key and other settings of one version are not mixed
\* with those of another, whatever copy a pass holds when it meets a conflict.
Register == INSTANCE ConfigRegister WITH
  Specs <- ConfigSpec, Default <- NoConfig,
  current <- Current, past <- heldSpecs, inForce <- globalConfig, adrift <- patchFailed

ActsAsRegister == Register!RegisterSpec

=============================================================================
