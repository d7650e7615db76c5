---------------------------- MODULE SettingsProofs ----------------------------
(***************************************************************************)
(* What Settings.tla promises, for any values of the setting and any       *)
(* number of edits and faults: it is well typed, and it implements         *)
(* ConfigRegister.  The invariant follows the specs: what is stored, what  *)
(* the informer shows and, unless a patch failed, what is in force is      *)
(* among what the resource has said so far.                                *)
(***************************************************************************)
EXTENDS Settings, TLAPS

Sourced ==
  /\ NoConfig \in heldSpecs
  /\ config.live => config.spec \in heldSpecs
  /\ cachedConfig.live => cachedConfig.spec \in heldSpecs
  /\ ~patchFailed => globalConfig \in heldSpecs

Inv == SettingsTypeOK /\ Sourced

-----------------------------------------------------------------------------
(* The parts that the actions share. *)

LEMMA SpecTypes == NoConfig \in ConfigSpec /\ Gone \in Config /\ NoCopy \in Copy
BY SettingsAssumption DEF NoConfig, Spec0, ConfigSpec, Gone, Config, NoCopy, Copy, NoKey

LEMMA UnknownType == Unknown \in [id : Nat, uid : Nat, validated : BOOLEAN]
BY DEF Unknown

LEMMA ValidatedType ==
  SettingsTypeOK => Validated \in [id : Nat, uid : Nat, validated : BOOLEAN]
BY DEF SettingsTypeOK, Validated

\* A write keeps the types, and adds what is stored from now on to what has been.
LEMMA StoresKeeps ==
  ASSUME SettingsTypeOK, NEW res \in Config, Stores(res)
  PROVE  /\ config' \in Config /\ keysMade' \in Nat /\ heldSpecs' \in SUBSET ConfigSpec
         /\ config'.live = res.live /\ config'.deleting = res.deleting
         /\ heldSpecs \subseteq heldSpecs'
         /\ res.live => heldSpecs' = heldSpecs \cup {config'.spec}
         /\ ~res.live => heldSpecs' = heldSpecs
<1> DEFINE key == Populated(res.spec.key)
           new == [res EXCEPT !.spec.key = key]
<1>1. res.spec \in ConfigSpec /\ config.rv \in Nat /\ keysMade \in Nat
  BY DEF SettingsTypeOK, Config
<1>2. key \in Nat
  BY <1>1 DEF Populated, ConfigSpec
<1>3. new \in Config /\ new.spec \in ConfigSpec /\ new.live = res.live
      /\ new.deleting = res.deleting
  BY <1>1, <1>2 DEF Config, ConfigSpec
<1>4. /\ config' = IF new = config THEN config ELSE [new EXCEPT !.rv = config.rv + 1]
      /\ keysMade' = IF key > keysMade THEN key ELSE keysMade
      /\ heldSpecs' = IF new.live THEN heldSpecs \cup {new.spec} ELSE heldSpecs
  BY DEF Stores
<1>5. config' \in Config /\ config'.spec = new.spec /\ config'.live = new.live
      /\ config'.deleting = new.deleting
  <2>1. CASE new = config
    BY <2>1, <1>3, <1>4
  <2>2. CASE new # config
    <3>1. config' = [new EXCEPT !.rv = config.rv + 1] /\ config.rv + 1 \in Nat
      BY <2>2, <1>1, <1>4
    <3> QED  BY <3>1, <1>3 DEF Config
  <2> QED  BY <2>1, <2>2
<1>6. keysMade' \in Nat
  BY <1>1, <1>2, <1>4
<1>7. heldSpecs \subseteq ConfigSpec
  BY DEF SettingsTypeOK
<1> HIDE DEF new, key
<1> QED  BY <1>3, <1>4, <1>5, <1>6, <1>7

LEMMA TakesType ==
  ASSUME SettingsTypeOK, NEW res \in Config, NEW dirty \in BOOLEAN, NEW added \in BOOLEAN,
         Takes(res, dirty, added)
  PROVE  /\ phase' \in {"idle", "announce", "write", "finalizer"} /\ cr' \in Copy
         /\ cr'.dirty <=> phase' \in {"announce", "write"}
<1>1. CASE phase' = "idle"
  <2>1. ~dirty /\ cr' = NoCopy
    BY <1>1 DEF Takes
  <2> QED  BY <1>1, <2>1, SpecTypes DEF NoCopy
<1>2. CASE phase' # "idle"
  <2>1. cr' = [res |-> res, dirty |-> dirty, added |-> added]
    BY <1>2 DEF Takes
  <2>2. phase' = IF dirty THEN "announce" ELSE "finalizer"
    BY <1>2 DEF Takes
  <2> QED  BY <2>1, <2>2 DEF Copy
<1> QED  BY <1>1, <1>2

LEMMA AddsType ==
  ASSUME SettingsTypeOK, NEW res \in Config, Adds(res)
  PROVE  /\ phase' \in {"idle", "announce", "write", "finalizer"} /\ cr' \in Copy
         /\ cr'.dirty <=> phase' \in {"announce", "write"}
         /\ globalConfig' = res.spec /\ globalConfig' \in ConfigSpec
<1>1. [res EXCEPT !.ready = TRUE] \in Config /\ res.spec \in ConfigSpec
  BY DEF Config
<1>2. Takes([res EXCEPT !.ready = TRUE], ~res.ready, TRUE) /\ globalConfig' = res.spec
  BY DEF Adds
<1>3. (~res.ready) \in BOOLEAN
  OBVIOUS
<1> QED  BY <1>1, <1>2, <1>3, TakesType

LEMMA KeptType ==
  SettingsTypeOK => Kept \in Config /\ Kept.spec = cachedConfig.spec
BY DEF SettingsTypeOK, Kept, Config

-----------------------------------------------------------------------------
(* Types. *)

LEMMA UserType ==
  ASSUME SettingsTypeOK, NEW any \in BOOLEAN,
         CreateConfig \/ EditConfig(any) \/ DeleteConfig(any)
  PROVE  SettingsTypeOK'
<1>1. /\ UNCHANGED <<cachedConfig, configQueued, globalConfig, phase, cr, fresh, patchFailed,
                    faults>>
      /\ edits < MaxEdits /\ edits' = edits + 1
  BY DEF CreateConfig, EditConfig, DeleteConfig, UserKeeps
<1>4. edits' \in 0 .. MaxEdits
  BY <1>1, SettingsAssumption DEF SettingsTypeOK
<1>2. configGen' \in [id : Nat, uid : Nat, validated : BOOLEAN]
  BY ValidatedType DEF CreateConfig, EditConfig, DeleteConfig, SettingsTypeOK
<1>3. config' \in Config /\ keysMade' \in Nat /\ heldSpecs' \in SUBSET ConfigSpec
  <2>1. CASE CreateConfig
    <3>1. PICK value \in Values :
            Stores([Gone EXCEPT !.live = TRUE, !.id = config.id + 1, !.spec.setting = value])
      BY <2>1 DEF CreateConfig
    <3>2. config.id + 1 \in Nat
      BY DEF SettingsTypeOK, Config
    <3>3. [Gone EXCEPT !.live = TRUE, !.id = config.id + 1, !.spec.setting = value] \in Config
      <4>1. ASSUME NEW res \in Config, NEW n \in Nat
            PROVE  [res EXCEPT !.live = TRUE, !.id = n, !.spec.setting = value] \in Config
        BY DEF Config, ConfigSpec
      <4> QED  BY <3>2, <4>1, SpecTypes
    <3> QED  BY <3>1, <3>3, StoresKeeps
  <2>2. CASE EditConfig(any)
    <3>1. PICK value \in Values, rekey \in BOOLEAN :
            Stores([config EXCEPT !.spec = [key |-> IF rekey THEN NoKey ELSE @.key,
                                            setting |-> value]])
      BY <2>2 DEF EditConfig
    <3>2. [config EXCEPT !.spec = [key |-> IF rekey THEN NoKey ELSE @.key,
                                   setting |-> value]] \in Config
      BY DEF SettingsTypeOK, Config, ConfigSpec, NoKey
    <3> QED  BY <3>1, <3>2, StoresKeeps
  <2>3. CASE DeleteConfig(any)
    <3>1. /\ config' = [config EXCEPT !.rv = @ + 1, !.deleting = TRUE, !.live = config.finalizer]
          /\ UNCHANGED <<keysMade, heldSpecs>>
      BY <2>3 DEF DeleteConfig
    <3>2. config.rv + 1 \in Nat /\ config.finalizer \in BOOLEAN /\ config \in Config
      BY DEF SettingsTypeOK, Config
    <3>3. config' \in Config
      BY <3>1, <3>2 DEF Config
    <3> QED  BY <3>1, <3>3 DEF SettingsTypeOK
  <2> QED  BY <2>1, <2>2, <2>3
<1> QED  BY <1>1, <1>2, <1>3, <1>4 DEF SettingsTypeOK

LEMMA BeginType ==
  ASSUME SettingsTypeOK,
         \/ BeginGone \/ BeginDeleting \/ BeginStale \/ BeginNew \/ BeginKnown
         \/ BeginRecovered \/ BeginPatched \/ BeginUnpatched
  PROVE  SettingsTypeOK'
<1> USE KeptType, SpecTypes, UnknownType
<1>1. CASE BeginGone
  BY <1>1 DEF BeginGone, Begins, PassKeeps, stored, SettingsTypeOK
<1>2. CASE BeginDeleting
  <2>1. [cachedConfig EXCEPT !.finalizer = FALSE] \in Config
    BY DEF SettingsTypeOK, Config
  <2>2. /\ phase' \in {"idle", "announce", "write", "finalizer"} /\ cr' \in Copy
        /\ cr'.dirty <=> phase' \in {"announce", "write"}
    BY <1>2, <2>1, TakesType DEF BeginDeleting
  <2> QED  BY <1>2, <2>2 DEF BeginDeleting, Begins, PassKeeps, stored, SettingsTypeOK
<1>3. CASE BeginStale
  <2>1. /\ phase' \in {"idle", "announce", "write", "finalizer"} /\ cr' \in Copy
        /\ cr'.dirty <=> phase' \in {"announce", "write"}
    BY <1>3, TakesType DEF BeginStale
  <2> QED  BY <1>3, <2>1 DEF BeginStale, PassKeeps, stored, SettingsTypeOK
<1>4. CASE BeginNew
  <2>1. /\ phase' \in {"idle", "announce", "write", "finalizer"} /\ cr' \in Copy
        /\ cr'.dirty <=> phase' \in {"announce", "write"}
    BY <1>4, TakesType DEF BeginNew
  <2> QED  BY <1>4, <2>1 DEF BeginNew, Processes, Begins, PassKeeps, stored, SettingsTypeOK
<1>5. CASE BeginKnown
  <2>1. Adds(Kept)
    BY <1>5 DEF BeginKnown
  <2> QED
    BY <1>5, <2>1, AddsType DEF BeginKnown, Processes, Begins, PassKeeps, stored, SettingsTypeOK
<1>6. ASSUME Recovers PROVE configGen' \in [id : Nat, uid : Nat, validated : BOOLEAN]
  BY <1>6 DEF Recovers, SettingsTypeOK, Config
<1>7. CASE BeginRecovered
  <2>1. Adds(Kept) /\ Recovers
    BY <1>7 DEF BeginRecovered
  <2> QED
    BY <1>6, <1>7, <2>1, AddsType
    DEF BeginRecovered, Recovers, Processes, Begins, PassKeeps, stored, SettingsTypeOK
<1>8. CASE BeginPatched
  <2>1. config' \in Config /\ keysMade' \in Nat /\ heldSpecs' \in SUBSET ConfigSpec
    BY <1>8, StoresKeeps DEF BeginPatched, stored, SettingsTypeOK
  <2>2. [Kept EXCEPT !.spec = config'.spec] \in Config
    BY <2>1 DEF Config
  <2>3. Recovers /\ Adds([Kept EXCEPT !.spec = config'.spec])
    BY <1>8 DEF BeginPatched
  <2>4. /\ phase' \in {"idle", "announce", "write", "finalizer"} /\ cr' \in Copy
        /\ cr'.dirty <=> phase' \in {"announce", "write"}
        /\ globalConfig' \in ConfigSpec
    BY <2>2, <2>3, AddsType
  <2> QED
    BY <1>6, <1>8, <2>1, <2>3, <2>4
    DEF BeginPatched, Recovers, Processes, Begins, PassKeeps, SettingsTypeOK
<1>9. CASE BeginUnpatched
  <2>1. keysMade' \in Nat /\ faults' \in 0 .. MaxFaults
    BY <1>9, SettingsAssumption DEF BeginUnpatched, SettingsTypeOK
  <2>2. [Kept EXCEPT !.spec.key = keysMade'] \in Config
    BY <2>1 DEF Config, ConfigSpec
  <2>3. Recovers /\ Adds([Kept EXCEPT !.spec.key = keysMade'])
    BY <1>9 DEF BeginUnpatched
  <2>4. /\ phase' \in {"idle", "announce", "write", "finalizer"} /\ cr' \in Copy
        /\ cr'.dirty <=> phase' \in {"announce", "write"}
        /\ globalConfig' \in ConfigSpec
    BY <2>2, <2>3, AddsType
  <2> QED
    BY <1>6, <1>9, <2>1, <2>3, <2>4
    DEF BeginUnpatched, Recovers, Processes, Begins, PassKeeps, SettingsTypeOK
<1> QED  BY <1>1, <1>2, <1>3, <1>4, <1>5, <1>7, <1>8, <1>9

LEMMA WriteType ==
  ASSUME SettingsTypeOK,
         Announce \/ WriteStatus \/ WriteUnheard \/ WriteFinalizer \/ Refetch \/ GiveUp
  PROVE  SettingsTypeOK'
<1> USE SpecTypes
<1>0. cr.res \in Config /\ cr \in Copy /\ config \in Config
  BY DEF SettingsTypeOK, Copy
<1>1. CASE Announce
  <2>1. fresh' \in Nat /\ configGen' \in [id : Nat, uid : Nat, validated : BOOLEAN]
    BY <1>0, <1>1 DEF Announce, SettingsTypeOK, Config
  <2>2. cr' \in Copy /\ cr'.dirty = cr.dirty
    BY <1>0, <1>1, <2>1 DEF Announce, Copy, Config
  <2> QED  BY <1>1, <2>1, <2>2 DEF Announce, WriteKeeps, stored, SettingsTypeOK
<1>2. ASSUME StatusStored PROVE config' \in Config /\ config'.rv \in Nat
  <2>1. /\ config.rv \in Nat /\ config.rv + 1 \in Nat /\ cr.res.uid \in Nat
        /\ cr.res.ready \in BOOLEAN
    BY <1>0 DEF Config
  <2>2. config' = [config EXCEPT !.uid = cr.res.uid, !.ready = cr.res.ready,
                                 !.rv = config.rv + 1]
    BY <1>2 DEF StatusStored
  <2> QED  BY <1>0, <2>1, <2>2 DEF Config
<1>3. CASE WriteStatus
  <2>1. config' \in Config /\ config'.rv \in Nat
    BY <1>2, <1>3 DEF WriteStatus
  <2>2. phase' \in {"idle", "finalizer"}
    BY <1>3 DEF WriteStatus
  <2>3. cr' \in Copy /\ ~cr'.dirty
    <3>1. CASE phase' = "idle"
      BY <1>3, <3>1 DEF WriteStatus, NoCopy
    <3>2. CASE phase' # "idle"
      BY <1>0, <1>3, <2>1, <3>2 DEF WriteStatus, Copy, Config
    <3> QED  BY <3>1, <3>2
  <2> QED  BY <1>3, <2>1, <2>2, <2>3 DEF WriteStatus, WriteKeeps, SettingsTypeOK
<1>4. CASE WriteUnheard
  <2>1. config' \in Config /\ faults' \in 0 .. MaxFaults
    BY <1>2, <1>4, SettingsAssumption DEF WriteUnheard, SettingsTypeOK
  <2> QED  BY <1>4, <2>1 DEF WriteUnheard, WriteKeeps, SettingsTypeOK
<1>5. CASE WriteFinalizer
  <2>1. [config EXCEPT !.finalizer = cr.res.finalizer, !.spec = cr.res.spec,
                       !.live = cr.res.finalizer \/ ~config.deleting] \in Config
    BY <1>0 DEF Config
  <2>2. config' \in Config /\ keysMade' \in Nat /\ heldSpecs' \in SUBSET ConfigSpec
    BY <1>5, <2>1, StoresKeeps DEF WriteFinalizer
  <2> QED
    BY <1>5, <2>2, ValidatedType DEF WriteFinalizer, WriteKeeps, NoCopy, SettingsTypeOK
<1>6. CASE Refetch
  <2>1. /\ cr' \in Copy /\ cr'.dirty = cr.dirty
        /\ globalConfig' \in ConfigSpec
    BY <1>0, <1>6 DEF Refetch, SettingsTypeOK, Copy, Config
  <2>2. phase' = IF cr.dirty THEN "announce" ELSE "finalizer"
    BY <1>6 DEF Refetch
  <2> QED  BY <1>6, <2>1, <2>2 DEF Refetch, WriteKeeps, stored, SettingsTypeOK
<1>7. CASE GiveUp
  BY <1>7 DEF GiveUp, WriteKeeps, stored, NoCopy, SettingsTypeOK
<1> QED  BY <1>1, <1>3, <1>4, <1>5, <1>6, <1>7

LEMMA OtherType == SettingsTypeOK /\ (CacheMoves \/ RestartSettings) => SettingsTypeOK'
<1> USE SpecTypes, UnknownType, SettingsAssumption
<1>1. SettingsTypeOK /\ CacheMoves => SettingsTypeOK'
  BY DEF CacheMoves, stored, SettingsTypeOK
<1>2. SettingsTypeOK /\ RestartSettings => SettingsTypeOK'
  BY DEF RestartSettings, stored, NoCopy, SettingsTypeOK
<1> QED  BY <1>1, <1>2

-----------------------------------------------------------------------------
(* What each part of the system does to the settings. *)

LEMMA UserMoves ==
  ASSUME Inv, SettingsTypeOK', NEW any \in BOOLEAN,
         CreateConfig \/ EditConfig(any) \/ DeleteConfig(any)
  PROVE  Sourced' /\ Register!Replace
<1>1. UNCHANGED <<cachedConfig, globalConfig, patchFailed>>
  BY DEF CreateConfig, EditConfig, DeleteConfig, UserKeeps
<1>2. heldSpecs' = heldSpecs \cup {Current'} /\ (config'.live => config'.spec \in heldSpecs')
  <2>1. ASSUME NEW res \in Config, res.live, Stores(res)
        PROVE  heldSpecs' = heldSpecs \cup {Current'}
               /\ (config'.live => config'.spec \in heldSpecs')
    BY <2>1, StoresKeeps DEF Inv, Current
  <2>2. CASE CreateConfig
    <3>1. PICK value \in Values :
            Stores([Gone EXCEPT !.live = TRUE, !.id = config.id + 1, !.spec.setting = value])
      BY <2>2 DEF CreateConfig
    <3>2. config.id + 1 \in Nat
      BY DEF Inv, SettingsTypeOK, Config
    <3>3. ASSUME NEW res \in Config, NEW n \in Nat
          PROVE  /\ [res EXCEPT !.live = TRUE, !.id = n, !.spec.setting = value] \in Config
                 /\ [res EXCEPT !.live = TRUE, !.id = n, !.spec.setting = value].live
      BY DEF Config, ConfigSpec
    <3> QED  BY <2>1, <3>1, <3>2, <3>3, SpecTypes
  <2>3. CASE EditConfig(any)
    <3>1. PICK value \in Values, rekey \in BOOLEAN :
            Stores([config EXCEPT !.spec = [key |-> IF rekey THEN NoKey ELSE @.key,
                                            setting |-> value]])
      BY <2>3 DEF EditConfig
    <3> DEFINE res == [config EXCEPT !.spec = [key |-> IF rekey THEN NoKey ELSE @.key,
                                               setting |-> value]]
    <3>2. res \in Config /\ res.live
      BY <2>3 DEF EditConfig, Inv, SettingsTypeOK, Config, ConfigSpec, NoKey
    <3> QED  BY <2>1, <3>1, <3>2
  <2>4. CASE DeleteConfig(any)
    <3>1. /\ config' = [config EXCEPT !.rv = @ + 1, !.deleting = TRUE, !.live = config.finalizer]
          /\ config.live /\ heldSpecs' = heldSpecs
      BY <2>4 DEF DeleteConfig
    <3>2. config'.spec = config.spec
      BY <3>1 DEF Inv, SettingsTypeOK, Config
    <3>3. NoConfig' = NoConfig
      BY DEF NoConfig, Spec0
    <3> QED  BY <3>1, <3>2, <3>3 DEF Inv, Sourced, Current
  <2> QED  BY <2>2, <2>3, <2>4
<1>3. Current' \in ConfigSpec
  BY SpecTypes DEF SettingsTypeOK, Config, Current, NoConfig, Spec0
<1>4. Sourced'
  BY <1>1, <1>2 DEF Inv, Sourced, NoConfig, Spec0
<1> QED  BY <1>1, <1>2, <1>3, <1>4 DEF Register!Replace

LEMMA BeginMoves ==
  ASSUME Inv, SettingsTypeOK',
         \/ BeginGone \/ BeginDeleting \/ BeginStale \/ BeginNew \/ BeginKnown
         \/ BeginRecovered \/ BeginPatched \/ BeginUnpatched
  PROVE  Sourced' /\ (Register!Replace \/ Register!TakeEffect \/ Register!LoseGrip)
<1>0. NoConfig' = NoConfig /\ (globalConfig = globalConfig' => UNCHANGED globalConfig)
  BY DEF NoConfig, Spec0
<1>1. ASSUME UNCHANGED <<stored, cachedConfig, patchFailed>>,
             globalConfig' \in heldSpecs \cup {globalConfig}
      PROVE  Sourced' /\ (Register!Replace \/ Register!TakeEffect)
  <2>1. Current' = Current /\ Current \in heldSpecs /\ Current \in ConfigSpec
    BY <1>0, <1>1, SpecTypes DEF stored, Current, Inv, Sourced, SettingsTypeOK, Config
  <2>2. Sourced'
    BY <1>0, <1>1 DEF Inv, Sourced, stored
  <2>3. CASE globalConfig' \in heldSpecs
    BY <1>1, <2>1, <2>2, <2>3 DEF Register!TakeEffect, stored
  <2>4. CASE globalConfig' = globalConfig
    BY <1>1, <2>1, <2>2, <2>4 DEF Register!Replace, stored
  <2> QED  BY <1>1, <2>3, <2>4
<1>2. CASE BeginGone
  BY <1>1, <1>2 DEF BeginGone, Begins, PassKeeps, Inv, Sourced
<1>3. CASE BeginDeleting \/ BeginStale \/ BeginNew
  BY <1>1, <1>3 DEF BeginDeleting, BeginStale, BeginNew, Processes, Begins, PassKeeps
<1>4. CASE BeginKnown \/ BeginRecovered
  <2>1. UNCHANGED <<stored, cachedConfig, patchFailed>> /\ Adds(Kept) /\ cachedConfig.live
    BY <1>4 DEF BeginKnown, BeginRecovered, Recovers, Processes, Begins, PassKeeps
  <2>2. globalConfig' = cachedConfig.spec
    BY <2>1, KeptType DEF Adds, Inv
  <2> QED  BY <1>1, <2>1, <2>2 DEF Inv, Sourced
<1>5. CASE BeginPatched
  <2>1. /\ Adds([Kept EXCEPT !.spec = config'.spec]) /\ config.live
        /\ UNCHANGED <<cachedConfig, patchFailed>>
    BY <1>5 DEF BeginPatched, Recovers, Processes, Begins, PassKeeps
  <2>2. globalConfig' = config'.spec
    BY <2>1, KeptType DEF Adds, Inv, Config
  <2>3. CASE UNCHANGED stored
    BY <1>1, <2>1, <2>2, <2>3 DEF stored, Inv, Sourced
  <2>4. CASE Stores(config)
    <3>1. /\ config'.live /\ heldSpecs' = heldSpecs \cup {config'.spec}
          /\ Current' = config'.spec
      BY <2>1, <2>4, StoresKeeps DEF Inv, SettingsTypeOK, Current
    <3>2. config'.spec \in ConfigSpec
      BY DEF SettingsTypeOK, Config
    <3>3. Sourced'
      BY <1>0, <2>1, <2>2, <3>1 DEF Inv, Sourced
    <3> QED  BY <2>1, <2>2, <3>1, <3>2, <3>3 DEF Register!Replace
  <2> QED  BY <1>5, <2>3, <2>4 DEF BeginPatched
<1>6. CASE BeginUnpatched
  <2>1. patchFailed' = TRUE /\ UNCHANGED <<config, heldSpecs, cachedConfig>>
    BY <1>6 DEF BeginUnpatched, Recovers, Processes, Begins, PassKeeps
  <2>2. Sourced' /\ Current' = Current
    BY <1>0, <2>1 DEF Inv, Sourced, Current
  <2> QED  BY <2>1, <2>2 DEF Register!LoseGrip
<1> QED  BY <1>2, <1>3, <1>4, <1>5, <1>6

LEMMA WriteMoves ==
  ASSUME Inv, SettingsTypeOK',
         Announce \/ WriteStatus \/ WriteUnheard \/ WriteFinalizer \/ Refetch \/ GiveUp
  PROVE  Sourced' /\ (Register!Replace \/ Register!TakeEffect)
<1>0. /\ NoConfig' = NoConfig /\ UNCHANGED <<cachedConfig, patchFailed>>
      /\ Current \in ConfigSpec /\ Current \in heldSpecs
  BY SpecTypes
  DEF NoConfig, Spec0, Announce, WriteStatus, WriteUnheard, WriteFinalizer, Refetch, GiveUp,
      WriteKeeps, Current, Inv, Sourced, SettingsTypeOK, Config
<1>1. CASE Announce \/ GiveUp
  <2>1. UNCHANGED <<stored, globalConfig>>
    BY <1>1 DEF Announce, GiveUp
  <2> QED  BY <1>0, <2>1 DEF stored, Current, Inv, Sourced, Register!Replace
<1>2. CASE WriteStatus \/ WriteUnheard
  <2>1. UNCHANGED <<globalConfig, heldSpecs>> /\ StatusStored
    BY <1>2 DEF WriteStatus, WriteUnheard
  <2>2. config'.live = config.live /\ config'.spec = config.spec
    BY <2>1 DEF StatusStored, Inv, SettingsTypeOK, Config
  <2> QED  BY <1>0, <2>1, <2>2 DEF Current, Inv, Sourced, Register!Replace
<1>3. CASE WriteFinalizer
  <2> DEFINE res == [config EXCEPT !.finalizer = cr.res.finalizer, !.spec = cr.res.spec,
                                   !.live = cr.res.finalizer \/ ~config.deleting]
  <2>1. res \in Config /\ res.live \in BOOLEAN
    BY DEF Inv, SettingsTypeOK, Config, Copy
  <2>2. Stores(res) /\ UNCHANGED globalConfig
    BY <1>3 DEF WriteFinalizer
  <2> HIDE DEF res
  <2>3. /\ config'.live = res.live /\ config' \in Config
        /\ res.live => heldSpecs' = heldSpecs \cup {config'.spec}
        /\ ~res.live => heldSpecs' = heldSpecs
    BY <2>1, <2>2, StoresKeeps DEF Inv
  <2>4. heldSpecs' = heldSpecs \cup {Current'} /\ (config'.live => config'.spec \in heldSpecs')
    BY <1>0, <2>1, <2>3 DEF Current, Inv, Sourced
  <2>5. Current' \in ConfigSpec
    BY <1>0, <2>3, SpecTypes DEF Current, Config
  <2> QED  BY <1>0, <2>2, <2>4, <2>5 DEF Inv, Sourced, Register!Replace
<1>4. CASE Refetch
  <2>1. config.live /\ globalConfig' \in {globalConfig, config.spec} /\ UNCHANGED stored
    BY <1>4 DEF Refetch
  <2>2. globalConfig' \in {globalConfig, Current} /\ Current' = Current
    BY <1>0, <2>1 DEF Current, stored
  <2> QED  BY <1>0, <2>1, <2>2 DEF stored, Current, Inv, Sourced, Register!Replace
<1> QED  BY <1>1, <1>2, <1>3, <1>4

LEMMA OtherMoves ==
  ASSUME Inv, CacheMoves \/ RestartSettings
  PROVE  Sourced' /\ (Register!Replace \/ Register!TakeEffect)
<1>0. /\ NoConfig' = NoConfig /\ UNCHANGED <<stored, patchFailed>>
      /\ Current \in ConfigSpec /\ Current \in heldSpecs /\ Current' = Current
  BY SpecTypes
  DEF NoConfig, Spec0, CacheMoves, RestartSettings, stored, Current, Inv, Sourced,
      SettingsTypeOK, Config
<1>1. cachedConfig' = config /\ globalConfig' \in {globalConfig, NoConfig}
  BY DEF CacheMoves, RestartSettings
<1>2. CASE globalConfig' = NoConfig
  BY <1>0, <1>1, <1>2 DEF stored, Inv, Sourced, Register!TakeEffect
<1>3. CASE globalConfig' = globalConfig
  BY <1>0, <1>1, <1>3 DEF stored, Inv, Sourced, Register!Replace
<1> QED  BY <1>1, <1>2, <1>3

-----------------------------------------------------------------------------

LEMMA InitInv == SettingsInit => Inv /\ Register!RegisterInit
<1> SUFFICES ASSUME SettingsInit PROVE Inv /\ Register!RegisterInit
  OBVIOUS
<1>1. config \in Config /\ config.spec = Spec0
  <2>1. [Gone EXCEPT !.live = TRUE, !.id = 1, !.finalizer = TRUE, !.uid = 1, !.ready = TRUE]
          \in Config
    BY SpecTypes DEF Config
  <2> QED  BY <2>1, SpecTypes DEF SettingsInit, Gone
<1>2. Current = NoConfig
  BY <1>1 DEF Current, NoConfig
<1>3. SettingsTypeOK
  <2>1. NoCopy.dirty = FALSE /\ Spec0 \in ConfigSpec
    BY SpecTypes DEF NoCopy, NoConfig
  <2>2. /\ cachedConfig \in Config /\ globalConfig \in ConfigSpec /\ heldSpecs \subseteq ConfigSpec
        /\ configGen \in [id : Nat, uid : Nat, validated : BOOLEAN]
    BY <1>1, <2>1, SpecTypes, UnknownType DEF SettingsInit
  <2>3. phase = "idle" /\ cr \in Copy /\ ~cr.dirty /\ configQueued \in BOOLEAN
    BY <2>1, SpecTypes DEF SettingsInit
  <2>4. fresh \in Nat /\ keysMade \in Nat /\ patchFailed \in BOOLEAN
    BY DEF SettingsInit
  <2>5. edits \in 0 .. MaxEdits /\ faults \in 0 .. MaxFaults
    BY SettingsAssumption DEF SettingsInit
  <2> QED  BY <1>1, <2>2, <2>3, <2>4, <2>5 DEF SettingsTypeOK
<1>4. Sourced
  BY <1>1 DEF SettingsInit, Sourced, NoConfig
<1>5. Register!RegisterInit
  BY <1>2, SpecTypes DEF SettingsInit, Register!RegisterInit, NoConfig
<1> QED  BY <1>3, <1>4, <1>5 DEF Inv

LEMMA StepInv ==
  Inv /\ [SettingsNext]_vars => Inv' /\ [Register!RegisterNext]_(Register!registerVars)
<1> SUFFICES ASSUME Inv, [SettingsNext]_vars
             PROVE  Inv' /\ [Register!RegisterNext]_(Register!registerVars)
  OBVIOUS
<1> USE DEF Register!RegisterNext
<1>1. CASE CreateConfig \/ EditConfig(FALSE) \/ DeleteConfig(FALSE)
  <2>1. SettingsTypeOK'
    BY <1>1, UserType DEF Inv
  <2> QED  BY <1>1, <2>1, UserMoves DEF Inv
<1>2. CASE \/ BeginGone \/ BeginDeleting \/ BeginStale \/ BeginNew \/ BeginKnown
           \/ BeginRecovered \/ BeginPatched \/ BeginUnpatched
  <2>1. SettingsTypeOK'
    BY <1>2, BeginType DEF Inv
  <2> QED  BY <1>2, <2>1, BeginMoves DEF Inv
<1>3. CASE Announce \/ WriteStatus \/ WriteUnheard \/ WriteFinalizer \/ Refetch \/ GiveUp
  <2>1. SettingsTypeOK'
    BY <1>3, WriteType DEF Inv
  <2> QED  BY <1>3, <2>1, WriteMoves DEF Inv
<1>4. CASE CacheMoves \/ RestartSettings
  <2>1. SettingsTypeOK'
    BY <1>4, OtherType DEF Inv
  <2> QED  BY <1>4, <2>1, OtherMoves DEF Inv
<1>5. CASE UNCHANGED vars
  <2>1. SettingsTypeOK'
    BY <1>5 DEF vars, Inv, SettingsTypeOK
  <2>2. Sourced' /\ Current' = Current
    BY <1>5 DEF vars, Inv, Sourced, Current, NoConfig, Spec0
  <2> QED  BY <1>5, <2>1, <2>2 DEF vars, Inv, Register!registerVars
<1> QED  BY <1>1, <1>2, <1>3, <1>4, <1>5 DEF SettingsNext, Pass

-----------------------------------------------------------------------------
(* The status UID.  A resource that users delete and create again has a new id; *)
(* its resource version goes on rising. *)

\* A copy with the stored version is one of the stored resource.
Versions ==
  /\ config.live => config.id # 0
  /\ cachedConfig.id \leq config.id /\ cachedConfig.rv \leq config.rv
  /\ cachedConfig.rv = config.rv => cachedConfig.id = config.id
  /\ phase # "idle" => /\ cr.res.rv \leq config.rv
                       /\ cr.res.rv = config.rv => cr.res.id = config.id

\* The UID to be written has been announced for the resource that is written.
Announced ==
  phase = "write" => configGen.id = cr.res.id /\ configGen.uid = cr.res.uid

\* Outside a status write, the known UID of the stored resource is the stored one.
ExpectedIsStored ==
  config.live /\ phase \notin {"announce", "write"} => StatusAdmitted

\* When no UID is known for the stored resource, or the pass still works on its
\* predecessor, no status can have been written that the cache lacks.
UnknownIsCached ==
  /\ cachedConfig.id = config.id /\ ~cachedConfig.deleting
  /\ configGen.id # config.id \/ (phase # "idle" /\ cr.res.id # config.id)
  => cachedConfig.uid = config.uid

UidInv == Versions /\ Announced /\ ExpectedIsStored /\ UnknownIsCached

\* The stored resource is another version of the same, if it is one.
SameResource ==
  /\ config'.id = config.id /\ config'.uid = config.uid
  /\ config'.live => config.live
  /\ config.rv \leq config'.rv

LEMMA Fields ==
  ASSUME SettingsTypeOK
  PROVE  /\ config.id \in Nat /\ config.rv \in Nat /\ config.uid \in Nat
         /\ cachedConfig.id \in Nat /\ cachedConfig.rv \in Nat /\ cachedConfig.uid \in Nat
         /\ cr.res \in Config /\ cr.res.id \in Nat /\ cr.res.rv \in Nat /\ cr.res.uid \in Nat
         /\ configGen.id \in Nat /\ configGen.uid \in Nat
BY DEF SettingsTypeOK, Config, Copy

LEMMA StoresVersion ==
  ASSUME SettingsTypeOK, NEW res \in Config, Stores(res)
  PROVE  /\ config'.id = res.id /\ config'.uid = res.uid /\ config'.live = res.live
         /\ config'.rv \in {config.rv, config.rv + 1}
         /\ config'.rv = config.rv => config' = config
<1> DEFINE new == [res EXCEPT !.spec.key = Populated(res.spec.key)]
<1>1. new.id = res.id /\ new.uid = res.uid /\ new.live = res.live
  BY DEF Config
<1>2. config' = IF new = config THEN config ELSE [new EXCEPT !.rv = config.rv + 1]
  BY DEF Stores
<1>3. config.rv \in Nat
  BY Fields
<1>4. CASE new = config
  BY <1>1, <1>2, <1>4
<1>5. CASE new # config
  <2>1. config'.rv = config.rv + 1 /\ config'.id = new.id /\ config'.uid = new.uid
        /\ config'.live = new.live
    BY <1>2, <1>5 DEF Config
  <2> QED  BY <1>1, <1>3, <2>1
<1> QED  BY <1>4, <1>5

LEMMA ValidatedUid ==
  SettingsTypeOK => Validated.id = configGen.id /\ Validated.uid = configGen.uid
BY DEF SettingsTypeOK, Validated

LEMMA TakesCopy ==
  ASSUME NEW res, NEW dirty \in BOOLEAN, NEW added, Takes(res, dirty, added)
  PROVE  /\ phase' \in {"idle", "announce", "finalizer"}
         /\ phase' = "announce" <=> dirty
         /\ phase' # "idle" => cr'.res = res
BY DEF Takes

\* A write by a user or of the finalizer: it may be a new version of the resource,
\* and what is known is the same.
LEMMA SameResourceUid ==
  ASSUME SettingsTypeOK, UidInv, SameResource, config' # config => config'.rv # config.rv,
         cachedConfig' = cachedConfig,
         configGen'.id = configGen.id, configGen'.uid = configGen.uid,
         \/ phase' = phase /\ cr' = cr
         \/ phase' = "idle" /\ phase # "announce" /\ phase # "write",
         config'.rv \in Nat
  PROVE  UidInv'
<1>1. Versions'
  BY Fields DEF UidInv, Versions, SameResource
<1>2. Announced'
  BY DEF UidInv, Announced
<1>3. ExpectedIsStored'
  BY DEF UidInv, ExpectedIsStored, SameResource, StatusAdmitted
<1>4. UnknownIsCached'
  BY DEF UidInv, UnknownIsCached, SameResource
<1> QED  BY <1>1, <1>2, <1>3, <1>4 DEF UidInv

LEMMA UserUid ==
  ASSUME SettingsTypeOK, UidInv, NEW any \in BOOLEAN,
         CreateConfig \/ EditConfig(any) \/ DeleteConfig(any)
  PROVE  UidInv'
<1>0. UNCHANGED <<cachedConfig, phase, cr>>
  BY DEF CreateConfig, EditConfig, DeleteConfig, UserKeeps
<1>1. CASE CreateConfig
  <2>1. PICK value \in Values :
          Stores([Gone EXCEPT !.live = TRUE, !.id = config.id + 1, !.spec.setting = value])
    BY <1>1 DEF CreateConfig
  <2> DEFINE res == [Gone EXCEPT !.live = TRUE, !.id = config.id + 1, !.spec.setting = value]
  <2>2. config.id + 1 \in Nat
    BY Fields
  <2>3. ASSUME NEW r \in Config, NEW n \in Nat
        PROVE  /\ [r EXCEPT !.live = TRUE, !.id = n, !.spec.setting = value] \in Config
               /\ [r EXCEPT !.live = TRUE, !.id = n, !.spec.setting = value].id = n
               /\ [r EXCEPT !.live = TRUE, !.id = n, !.spec.setting = value].live
               /\ [r EXCEPT !.live = TRUE, !.id = n, !.spec.setting = value].uid = r.uid
    BY DEF Config, ConfigSpec
  <2>4. res \in Config /\ res.id = config.id + 1 /\ res.live /\ res.uid = 0
    BY <2>2, <2>3, SpecTypes DEF Gone
  <2>5. Stores(res)
    BY <2>1
  <2> HIDE DEF res
  <2>6. config'.id = config.id + 1 /\ config'.uid = 0 /\ config'.live
        /\ config'.rv \in {config.rv, config.rv + 1}
        /\ (config'.rv = config.rv => config' = config)
    BY <2>4, <2>5, StoresVersion
  <2>7. config'.rv = config.rv + 1
    BY <1>1, <2>6, Fields DEF CreateConfig
  <2>8. configGen' = configGen
    BY <1>1 DEF CreateConfig
  <2>9. Versions'
    BY <1>0, <2>6, <2>7, Fields DEF UidInv, Versions
  <2>10. Announced' /\ ExpectedIsStored'
    BY <1>0, <2>6, <2>8 DEF UidInv, Announced, ExpectedIsStored, StatusAdmitted
  <2>11. UnknownIsCached'
    BY <1>0, <2>6, Fields DEF UidInv, Versions, UnknownIsCached
  <2> QED  BY <2>9, <2>10, <2>11 DEF UidInv
<1>2. CASE EditConfig(any)
  <2>1. PICK value \in Values, rekey \in BOOLEAN :
          Stores([config EXCEPT !.spec = [key |-> IF rekey THEN NoKey ELSE @.key,
                                          setting |-> value]])
    BY <1>2 DEF EditConfig
  <2> DEFINE res == [config EXCEPT !.spec = [key |-> IF rekey THEN NoKey ELSE @.key,
                                             setting |-> value]]
  <2>2. res \in Config /\ res.id = config.id /\ res.uid = config.uid /\ res.live = config.live
    BY DEF SettingsTypeOK, Config, ConfigSpec, NoKey
  <2>3. Stores(res)
    BY <2>1
  <2> HIDE DEF res
  <2>4. /\ SameResource /\ config'.rv \in Nat
        /\ config' # config => config'.rv # config.rv
    BY <2>2, <2>3, StoresVersion, Fields DEF SameResource
  <2>5. configGen'.id = configGen.id /\ configGen'.uid = configGen.uid
    BY <1>2, ValidatedUid DEF EditConfig
  <2> QED  BY <1>0, <2>4, <2>5, SameResourceUid
<1>3. CASE DeleteConfig(any)
  <2>1. /\ config' = [config EXCEPT !.rv = config.rv + 1, !.deleting = TRUE,
                                    !.live = config.finalizer]
        /\ config.live /\ configGen' = configGen
    BY <1>3 DEF DeleteConfig
  <2>2. config \in Config
    BY DEF SettingsTypeOK
  <2>3. config'.id = config.id /\ config'.uid = config.uid /\ config'.rv = config.rv + 1
    BY <2>1, <2>2 DEF Config
  <2>4. SameResource /\ config'.rv # config.rv /\ config'.rv \in Nat
    BY <2>1, <2>3, Fields DEF SameResource
  <2> QED  BY <1>0, <2>1, <2>4, SameResourceUid
<1> QED  BY <1>1, <1>2, <1>3

\* The start of a pass: what is known stays, is forgotten with the resource that the
\* cache shows on its way out, or is taken from the cache when nothing is known.
LEMMA BeginUid ==
  ASSUME SettingsTypeOK, UidInv,
         \/ BeginGone \/ BeginDeleting \/ BeginStale \/ BeginNew \/ BeginKnown
         \/ BeginRecovered \/ BeginPatched \/ BeginUnpatched
  PROVE  UidInv'
<1> DEFINE Copied(res) == res.id = cachedConfig.id /\ res.rv = cachedConfig.rv
           Took == /\ phase' \in {"idle", "announce", "finalizer"}
                   /\ phase' # "idle" => Copied(cr'.res)
           Learned == \/ configGen' = configGen
                      \/ configGen' = Unknown /\ cachedConfig.deleting
                      \/ /\ configGen.id # cachedConfig.id /\ ~cachedConfig.deleting
                         /\ configGen'.id = cachedConfig.id
                         /\ configGen'.uid = cachedConfig.uid
<1>1. phase = "idle" /\ UNCHANGED cachedConfig
  BY DEF BeginGone, BeginDeleting, BeginStale, BeginNew, BeginKnown, BeginRecovered,
     BeginPatched, BeginUnpatched, Recovers, Processes, Begins, PassKeeps
<1>2. cachedConfig \in Config /\ Copied(Kept) /\ Kept \in Config
  BY KeptType DEF SettingsTypeOK, Kept, Config
<1>3. ASSUME NEW res \in Config, Copied(res), Adds(res) PROVE Took
  <2>1. Takes([res EXCEPT !.ready = TRUE], ~res.ready, TRUE) /\ (~res.ready) \in BOOLEAN
    BY <1>3 DEF Adds
  <2>2. Copied([res EXCEPT !.ready = TRUE])
    BY <1>3 DEF Config
  <2> QED  BY <2>1, <2>2, TakesCopy
<1>4. ASSUME Recovers PROVE Learned
  BY <1>4 DEF Recovers, Processes, Known
<1>5. Took /\ Learned
  <2>1. CASE BeginGone
    BY <1>1, <2>1 DEF BeginGone
  <2>2. CASE BeginDeleting
    <3>1. Copied([cachedConfig EXCEPT !.finalizer = FALSE])
      BY <1>2 DEF Config
    <3>2. Took
      BY <2>2, <3>1, TakesCopy DEF BeginDeleting
    <3> QED  BY <2>2, <3>2 DEF BeginDeleting
  <2>3. CASE BeginStale
    BY <1>2, <2>3, TakesCopy DEF BeginStale
  <2>4. CASE BeginNew
    BY <1>2, <2>4, TakesCopy DEF BeginNew
  <2>5. CASE BeginKnown
    BY <1>2, <1>3, <2>5 DEF BeginKnown
  <2>6. CASE BeginRecovered
    BY <1>2, <1>3, <1>4, <2>6 DEF BeginRecovered
  <2>7. CASE BeginPatched
    <3>1. config' \in Config
      BY <2>7, StoresKeeps DEF BeginPatched, stored, SettingsTypeOK
    <3>2. [Kept EXCEPT !.spec = config'.spec] \in Config
          /\ Copied([Kept EXCEPT !.spec = config'.spec])
      BY <1>2, <3>1 DEF Config
    <3> QED  BY <1>3, <1>4, <2>7, <3>2 DEF BeginPatched
  <2>8. CASE BeginUnpatched
    <3>1. keysMade' \in Nat
      BY <2>8 DEF BeginUnpatched, SettingsTypeOK
    <3>2. [Kept EXCEPT !.spec.key = keysMade'] \in Config
          /\ Copied([Kept EXCEPT !.spec.key = keysMade'])
      BY <1>2, <3>1 DEF Config, ConfigSpec
    <3> QED  BY <1>3, <1>4, <2>8, <3>2 DEF BeginUnpatched
  <2> QED  BY <2>1, <2>2, <2>3, <2>4, <2>5, <2>6, <2>7, <2>8
<1>6. SameResource /\ config'.rv \in Nat /\ (config' # config => config'.rv # config.rv)
  <2>1. CASE UNCHANGED config
    BY <2>1, Fields DEF SameResource
  <2>2. CASE Stores(config)
    <3>1. config \in Config
      BY DEF SettingsTypeOK
    <3> QED  BY <2>2, <3>1, StoresVersion, Fields DEF SameResource
  <2> QED
    BY <2>1, <2>2 DEF BeginGone, BeginDeleting, BeginStale, BeginNew, BeginKnown,
       BeginRecovered, BeginPatched, BeginUnpatched, stored
<1>7. Versions'
  BY <1>1, <1>5, <1>6, Fields DEF UidInv, Versions, SameResource
<1>8. Announced'
  BY <1>5 DEF Announced
<1>9. ExpectedIsStored'
  <2>1. CASE configGen' = configGen
    BY <1>1, <1>6, <2>1 DEF UidInv, ExpectedIsStored, SameResource, StatusAdmitted
  <2>2. CASE configGen' = Unknown
    BY <1>6, <2>2 DEF UidInv, Versions, ExpectedIsStored, SameResource, StatusAdmitted, Unknown
  <2>3. CASE /\ configGen.id # cachedConfig.id /\ ~cachedConfig.deleting
             /\ configGen'.id = cachedConfig.id /\ configGen'.uid = cachedConfig.uid
    BY <1>6, <2>3
    DEF UidInv, UnknownIsCached, ExpectedIsStored, SameResource, StatusAdmitted
  <2> QED  BY <1>5, <2>1, <2>2, <2>3
<1>10. UnknownIsCached'
  BY <1>1, <1>5, <1>6 DEF UidInv, UnknownIsCached, SameResource
<1> QED  BY <1>7, <1>8, <1>9, <1>10 DEF UidInv

LEMMA WriteUid ==
  ASSUME SettingsTypeOK, UidInv,
         Announce \/ WriteStatus \/ WriteUnheard \/ WriteFinalizer \/ Refetch \/ GiveUp
  PROVE  UidInv'
<1>0. UNCHANGED cachedConfig /\ config \in Config /\ cr \in Copy /\ cr.res \in Config
  BY Fields DEF Announce, WriteStatus, WriteUnheard, WriteFinalizer, Refetch, GiveUp,
     WriteKeeps, SettingsTypeOK
<1>1. CASE Announce
  <2>1. /\ configGen' = [id |-> cr.res.id, uid |-> fresh', validated |-> FALSE]
        /\ cr' = [cr EXCEPT !.res.uid = fresh']
        /\ phase = "announce" /\ phase' = "write" /\ UNCHANGED config
    BY <1>1 DEF Announce, stored
  <2>2. cr'.res.uid = fresh' /\ cr'.res.id = cr.res.id /\ cr'.res.rv = cr.res.rv
    BY <1>0, <2>1 DEF Copy, Config
  <2>3. Versions'
    BY <1>0, <2>1, <2>2 DEF UidInv, Versions
  <2>4. Announced' /\ ExpectedIsStored'
    BY <2>1, <2>2 DEF Announced, ExpectedIsStored
  <2>5. UnknownIsCached'
    BY <1>0, <2>1, <2>2 DEF UidInv, UnknownIsCached
  <2> QED  BY <2>3, <2>4, <2>5 DEF UidInv
<1>2. CASE WriteStatus \/ WriteUnheard
  <2>1. phase = "write" /\ InDate /\ StatusStored /\ UNCHANGED configGen
    BY <1>2 DEF WriteStatus, WriteUnheard
  <2>2. config'.id = config.id /\ config'.uid = cr.res.uid /\ config'.live = config.live
        /\ config'.rv = config.rv + 1
    BY <1>0, <2>1 DEF StatusStored, Config
  <2>3. cr.res.id = config.id /\ config.rv = cr.res.rv
        /\ configGen.id = config.id /\ configGen.uid = config'.uid
    BY <2>1, <2>2 DEF UidInv, Versions, Announced, InDate
  <2>4. phase' \in {"idle", "finalizer", "announce"}
        /\ (phase' # "idle" => /\ cr'.res.id = config.id /\ cr'.res.rv \in {config.rv, config'.rv})
    <3>1. CASE WriteUnheard
      BY <2>3, <3>1 DEF WriteUnheard
    <3>2. CASE WriteStatus /\ phase' = "idle"
      BY <3>2
    <3>3. CASE WriteStatus /\ phase' # "idle"
      <4>1. phase' = "finalizer" /\ cr' = [cr EXCEPT !.dirty = FALSE, !.res.rv = config'.rv]
        BY <3>3 DEF WriteStatus
      <4> QED  BY <1>0, <2>3, <4>1 DEF Copy, Config
    <3> QED  BY <1>2, <3>1, <3>2, <3>3
  <2>5. Versions'
    BY <1>0, <2>2, <2>3, <2>4, Fields DEF UidInv, Versions
  <2>6. Announced' /\ ExpectedIsStored' /\ UnknownIsCached'
    BY <2>1, <2>2, <2>3, <2>4 DEF Announced, ExpectedIsStored, StatusAdmitted, UnknownIsCached
  <2> QED  BY <2>5, <2>6 DEF UidInv
<1>3. CASE WriteFinalizer
  <2> DEFINE res == [config EXCEPT !.finalizer = cr.res.finalizer, !.spec = cr.res.spec,
                                   !.live = cr.res.finalizer \/ ~config.deleting]
  <2>1. res \in Config /\ res.id = config.id /\ res.uid = config.uid
    BY <1>0 DEF Config
  <2>2. Stores(res) /\ phase = "finalizer" /\ phase' = "idle" /\ config.live
    BY <1>3 DEF WriteFinalizer, InDate
  <2> HIDE DEF res
  <2>3. /\ SameResource /\ config'.rv \in Nat
        /\ config' # config => config'.rv # config.rv
    BY <2>1, <2>2, StoresVersion, Fields DEF SameResource
  <2>4. configGen'.id = configGen.id /\ configGen'.uid = configGen.uid
    BY <1>3, ValidatedUid DEF WriteFinalizer
  <2> QED  BY <1>0, <2>2, <2>3, <2>4, SameResourceUid
<1>4. CASE Refetch
  <2>1. /\ cr' = [cr EXCEPT !.res = [config EXCEPT !.uid = cr.res.uid, !.ready = cr.res.ready,
                                                   !.finalizer = cr.res.finalizer]]
        /\ phase' = IF cr.dirty THEN "announce" ELSE "finalizer"
        /\ phase \in {"write", "finalizer"} /\ UNCHANGED <<config, configGen>>
    BY <1>4 DEF Refetch, stored
  <2>2. cr'.res.id = config.id /\ cr'.res.rv = config.rv
    BY <1>0, <2>1 DEF Copy, Config
  <2>3. phase = "finalizer" \/ phase' = "announce"
    BY <2>1 DEF SettingsTypeOK
  <2>4. Versions'
    BY <1>0, <2>1, <2>2, Fields DEF UidInv, Versions
  <2>5. Announced' /\ ExpectedIsStored'
    BY <2>1, <2>3 DEF UidInv, Announced, ExpectedIsStored, StatusAdmitted
  <2>6. UnknownIsCached'
    BY <1>0, <2>1, <2>2 DEF UidInv, UnknownIsCached
  <2> QED  BY <2>4, <2>5, <2>6 DEF UidInv
<1>5. CASE GiveUp
  <2>1. /\ ~config.live /\ phase' = "idle" /\ UNCHANGED <<config, configGen>>
    BY <1>5 DEF GiveUp, stored
  <2> QED
    BY <1>0, <2>1 DEF UidInv, Versions, Announced, ExpectedIsStored, UnknownIsCached
<1> QED  BY <1>1, <1>2, <1>3, <1>4, <1>5

LEMMA OtherUid ==
  ASSUME SettingsTypeOK, UidInv, CacheMoves \/ RestartSettings
  PROVE  UidInv'
<1>1. cachedConfig' = config /\ UNCHANGED config
      /\ \/ UNCHANGED <<configGen, phase, cr>>
         \/ configGen' = Unknown /\ phase' = "idle"
  BY DEF CacheMoves, RestartSettings, stored
<1>2. Versions'
  BY <1>1, Fields DEF UidInv, Versions
<1>3. Announced' /\ ExpectedIsStored'
  BY <1>1 DEF UidInv, Versions, Announced, ExpectedIsStored, StatusAdmitted, Unknown
<1>4. UnknownIsCached'
  BY <1>1 DEF UnknownIsCached
<1> QED  BY <1>2, <1>3, <1>4 DEF UidInv

LEMMA InitUid == SettingsInit => UidInv
<1> SUFFICES ASSUME SettingsInit PROVE UidInv
  OBVIOUS
<1>1. Inv
  BY InitInv
<1>2. config.live => config.id = 1
  BY DEF SettingsInit, Gone
<1>3. cachedConfig = config /\ phase = "idle" /\ configGen.id = 0
  BY DEF SettingsInit, Unknown
<1> QED
  BY <1>1, <1>2, <1>3, Fields
  DEF Inv, UidInv, Versions, Announced, ExpectedIsStored, StatusAdmitted, UnknownIsCached

LEMMA StepUid == SettingsTypeOK /\ UidInv /\ [SettingsNext]_vars => UidInv'
<1> SUFFICES ASSUME SettingsTypeOK, UidInv, [SettingsNext]_vars PROVE UidInv'
  OBVIOUS
<1>1. CASE CreateConfig \/ EditConfig(FALSE) \/ DeleteConfig(FALSE)
  BY <1>1, UserUid
<1>2. CASE \/ BeginGone \/ BeginDeleting \/ BeginStale \/ BeginNew \/ BeginKnown
           \/ BeginRecovered \/ BeginPatched \/ BeginUnpatched
  BY <1>2, BeginUid
<1>3. CASE Announce \/ WriteStatus \/ WriteUnheard \/ WriteFinalizer \/ Refetch \/ GiveUp
  BY <1>3, WriteUid
<1>4. CASE CacheMoves \/ RestartSettings
  BY <1>4, OtherUid
<1>5. CASE UNCHANGED vars
  BY <1>5 DEF vars, UidInv, Versions, Announced, ExpectedIsStored, StatusAdmitted,
     UnknownIsCached
<1> QED  BY <1>1, <1>2, <1>3, <1>4, <1>5 DEF SettingsNext, Pass

-----------------------------------------------------------------------------
(* The results. *)

\* Every variable keeps its type through users' edits, passes, refused and unheard
\* writes and restarts.
THEOREM SettingsTypeCorrect == SettingsSpec => []SettingsTypeOK
<1>1. Inv => SettingsTypeOK
  BY DEF Inv
<1> QED  BY <1>1, InitInv, StepInv, PTL DEF SettingsSpec

\* The master key in memory has been stored, unless its patch failed.
THEOREM KeyStored == SettingsSpec => []KeyIsStored
<1>1. Inv => KeyIsStored
  BY DEF Inv, Sourced, KeyIsStored
<1> QED  BY <1>1, InitInv, StepInv, PTL DEF SettingsSpec

\* Between passes an edit of the resource is let through: the status UID that the
\* webhook expects is the stored one, whatever write was refused, unheard or
\* overtaken by a deletion and a new resource of the same name, and after restarts.
THEOREM SettingsStayEditable == SettingsSpec => []StaysEditable
<1>1. UidInv => StaysEditable
  BY DEF UidInv, ExpectedIsStored, StaysEditable
<1> QED  BY <1>1, SettingsTypeCorrect, InitUid, StepUid, PTL DEF SettingsSpec

\* The resource, the webhook, the reconciler and the copy in memory together act as
\* the register of ConfigRegister.
THEOREM ImplementsRegister == SettingsSpec => ActsAsRegister
BY InitInv, StepInv, PTL DEF SettingsSpec, ActsAsRegister, Register!RegisterSpec
=============================================================================
