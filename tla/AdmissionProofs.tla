--------------------------- MODULE AdmissionProofs ---------------------------
(***************************************************************************)
(* What the webhook's rules of Admission.tla come to, for any apps,        *)
(* requests, roles, clusters and settings: whatever is admitted, edited,   *)
(* deleted, worked on and forgotten in a restart, a stored cluster is one  *)
(* that its app can run, and apps and key are not changed under it.  The   *)
(* settings act as in Settings.tla, so that what SettingsProofs.tla has on *)
(* them holds here too.                                                    *)
(*                                                                         *)
(* Induction over a list takes the form of a least counterexample, whose   *)
(* existence is a fact about sets (HasMinimum).                            *)
(***************************************************************************)
EXTENDS Admission, SettingsProofs, SequenceTheorems, FiniteSetTheorems, WellFoundedInduction

-----------------------------------------------------------------------------
(* Lists with names. *)

\* In a list without repetition a name stands for at most one entry.
LEMMA OneByName ==
  ASSUME NEW S, NEW list \in Seq(S), Unique(list)
  PROVE  \A i, j \in DOMAIN list : list[i].name = list[j].name => i = j
<1> DEFINE n == Len(list)
           f == [i \in 1 .. n |-> list[i].name]
<1>1. n \in Nat /\ DOMAIN list = 1 .. n
  OBVIOUS
<1>2. f \in Surjection(1 .. n, Names(list))
  BY <1>1 DEF Surjection, Names
<1>3. IsFiniteSet(1 .. n) /\ Cardinality(1 .. n) = n
  BY <1>1, FS_Interval
<1>4. Cardinality(Names(list)) = n
  BY DEF Unique
<1>5. f \in Injection(1 .. n, Names(list))
  <2>1. Cardinality(1 .. n) = Cardinality(Names(list))
    BY <1>3, <1>4
  <2> HIDE DEF f, n
  <2> QED  BY Zenon, <1>2, <1>3, <2>1, FS_SurjSameCardinalityImpliesInj
<1> QED  BY <1>1, <1>5 DEF Injection, IsInjective

LEMMA NamedAre ==
  ASSUME NEW list, NEW r
  PROVE  /\ \A i \in DOMAIN list : list[i].name = r => list[i] \in Named(list, r)
         /\ \A x \in Named(list, r) : \E i \in DOMAIN list : x = list[i] /\ list[i].name = r
         /\ r \in Names(list) <=> Named(list, r) # {}
         /\ r \in Names(list) => TheOne(list, r) \in Named(list, r)
BY DEF Named, Names, TheOne

LEMMA NamedOne ==
  ASSUME NEW S, NEW list \in Seq(S), Unique(list), NEW r, NEW x \in Named(list, r)
  PROVE  TheOne(list, r) = x /\ Named(list, r) = {x}
<1>1. PICK i \in DOMAIN list : x = list[i] /\ list[i].name = r
  BY NamedAre
<1>2. \A y \in Named(list, r) : y = x
  BY <1>1, NamedAre, OneByName
<1>3. r \in Names(list)
  BY NamedAre
<1> QED  BY <1>2, <1>3, NamedAre

\* The names that a unique list has are at most as often in it as in a list that has
\* them all.
LEMMA NoMoreOften ==
  ASSUME NEW S, NEW T, NEW list \in Seq(S), NEW other \in Seq(T), Unique(list), Unique(other),
         Names(list) \subseteq Names(other), NEW r
  PROVE  Cardinality({i \in DOMAIN list : list[i].name = r}) <= Cardinality(Named(other, r))
<1> DEFINE I == {i \in DOMAIN list : list[i].name = r}
<1>1. CASE r \in Names(list)
  <2>1. PICK x : x \in Named(other, r)
    BY <1>1, NamedAre
  <2>2. Cardinality(Named(other, r)) = 1
    BY <2>1, NamedOne, FS_Singleton
  <2>3. PICK i \in DOMAIN list : list[i].name = r
    BY <1>1 DEF Names
  <2>4. I = {i}
    BY <2>3, OneByName
  <2>5. Cardinality(I) = 1
    BY <2>4, FS_Singleton
  <2> QED  BY <2>2, <2>5
<1>2. CASE r \notin Names(list)
  <2>1. I = {}
    BY <1>2 DEF Names
  <2>2. Cardinality(I) = 0
    BY <2>1, FS_EmptySet
  <2>3. IsFiniteSet(Named(other, r))
    <3>1. CASE Named(other, r) = {}
      BY <3>1, FS_EmptySet
    <3>2. ASSUME NEW x \in Named(other, r) PROVE IsFiniteSet(Named(other, r))
      <4>1. Named(other, r) = {x}
        BY <3>2, NamedOne
      <4> QED  BY <4>1, FS_Singleton
    <3> QED  BY <3>1, <3>2
  <2>4. Cardinality(Named(other, r)) \in Nat
    BY <2>3, FS_CardinalityType
  <2> QED  BY <2>2, <2>4
<1> QED  BY <1>1, <1>2

-----------------------------------------------------------------------------
(* Apps. *)

\* What is stored of an app.
StoredApp ==
  {app \in NodeApp : /\ AppValid(app)
                     /\ ~app.logSize /\ app.package = Nil
                     /\ \A role \in ToSet(app.roles) : role.package # Nil}

LEMMA FunctionIsSeq ==
  ASSUME NEW S, NEW n \in Nat, NEW f \in [1 .. n -> S]
  PROVE  f \in Seq(S) /\ Len(f) = n
<1>1. f \in Seq(S)
  BY SeqDef
<1> QED  BY <1>1

LEMMA DefaultedStored ==
  ASSUME NEW app \in NodeApp, AppValid(app)
  PROVE  Defaulted(app) \in StoredApp
<1> DEFINE roles == RolesDefaulted(app)
           stored1 == [app EXCEPT !.package = Nil, !.logSize = FALSE, !.roles = roles]
<1>1. app.roles \in Seq(AppRole) /\ app.package \in Packages
  BY DEF NodeApp
<1>2. DOMAIN app.roles = 1 .. Len(app.roles) /\ Len(app.roles) \in Nat
  BY <1>1
<1>3. ASSUME NEW i \in DOMAIN app.roles
      PROVE  roles[i] \in AppRole /\ roles[i].name = app.roles[i].name
             /\ roles[i].package # Nil
  <2> DEFINE own == SetupPackage(app.roles[i], app)
  <2>1. app.roles[i] \in AppRole
    BY <1>1, <1>2
  <2>2. own \in Packages /\ own # Nil
    <3>1. "none" # Nil
      BY DocumentsAssumption
    <3>2. "none" \in Packages
      BY DEF Packages
    <3>3. app.roles[i].package \in Packages
      BY <2>1 DEF AppRole
    <3> QED  BY <1>1, <3>1, <3>2, <3>3 DEF SetupPackage
  <2>3. roles[i] = [app.roles[i] EXCEPT !.package = own]
    BY DEF RolesDefaulted
  <2> HIDE DEF own
  <2> QED  BY <2>1, <2>2, <2>3 DEF AppRole
<1>4. roles \in Seq(AppRole) /\ Len(roles) = Len(app.roles)
      /\ DOMAIN roles = DOMAIN app.roles
  <2> HIDE DEF roles
  <2>1. roles \in [1 .. Len(app.roles) -> AppRole]
    <3>1. \A i \in 1 .. Len(app.roles) : roles[i] \in AppRole
      BY <1>2, <1>3
    <3>2. roles = [i \in 1 .. Len(app.roles) |-> roles[i]]
      BY <1>2 DEF roles, RolesDefaulted
    <3> QED  BY <3>1, <3>2
  <2> QED  BY <1>2, <2>1, FunctionIsSeq
<1>5. Names(roles) = Names(app.roles)
  <2> HIDE DEF roles
  <2> QED  BY <1>3, <1>4 DEF Names
<1>6. Defaulted(app) = stored1
  BY DEF Defaulted
<1> HIDE DEF roles
<1>7. /\ stored1 \in NodeApp /\ stored1.roles = roles /\ stored1.package = Nil
      /\ ~stored1.logSize
      /\ stored1.roleServices = app.roleServices /\ stored1.services = app.services
      /\ stored1.selected = app.selected
  BY <1>1, <1>4 DEF NodeApp, Packages
<1> HIDE DEF stored1
<1>8. AppValid(stored1)
  BY <1>4, <1>5, <1>7 DEF AppValid, Unique, RefsUnique
<1>9. \A role \in ToSet(stored1.roles) : role.package # Nil
  BY <1>3, <1>4, <1>7 DEF ToSet
<1> QED  BY <1>6, <1>7, <1>8, <1>9 DEF StoredApp

\* An app that is let through while it is in use is the one stored.
LEMMA ComparedSame ==
  ASSUME NEW app \in NodeApp, AppValid(app), NEW old \in StoredApp,
         Compared(app) = [old EXCEPT !.package = Nil]
  PROVE  Defaulted(app) = old
<1>1. Defaulted(app) \in StoredApp
  BY DefaultedStored
<1>2. [old EXCEPT !.package = Nil] = old
  BY DEF StoredApp, NodeApp
<1>3. [Defaulted(app) EXCEPT !.logSize = app.logSize] = old
  BY <1>2 DEF Compared
<1>4. app.logSize = old.logSize /\ old.logSize = Defaulted(app).logSize
  BY <1>1, <1>3 DEF StoredApp, NodeApp
<1> QED  BY <1>1, <1>3, <1>4 DEF StoredApp, NodeApp

-----------------------------------------------------------------------------
(* What is stored of a request. *)

LEMMA FilledCfgType ==
  ASSUME SettingsTypeOK, NEW role \in AskedRole, NEW kept \in Nat
  PROVE  LET cfg == FilledCfg(role.cfg, kept)
         IN  /\ cfg \in RoleCfg
             /\ cfg.resources = role.cfg.resources /\ cfg.storage = role.cfg.storage
<1> DEFINE class == IF role.cfg.class = Nil /\ role.cfg.storage > 0 THEN globalConfig.setting
                    ELSE role.cfg.class
           secret == CASE role.cfg.secret = "none" -> NoKey
                       [] role.cfg.secret = "value" -> globalConfig.key
                       [] role.cfg.secret = "kept" -> kept
<1>1. role.cfg \in [resources : Nat, storage : Nat, class : Values \cup {Nil},
                    claim : BOOLEAN, secret : {"none", "value", "kept"}]
  BY DEF AskedRole
<1>2. globalConfig.key \in Nat /\ globalConfig.setting \in Values /\ NoKey \in Nat
  BY DEF SettingsTypeOK, ConfigSpec, NoKey
<1>3. class \in Values \cup {Nil} /\ secret \in Nat
  BY <1>1, <1>2
<1>4. FilledCfg(role.cfg, kept) = [role.cfg EXCEPT !.class = class, !.secret = secret]
  BY DEF FilledCfg
<1> HIDE DEF class, secret
<1> QED  BY <1>1, <1>3, <1>4 DEF RoleCfg

\* A request for an app that passes the checks is completed to typed roles, one for
\* each entry and with its name, resources and storage.
LEMMA FilledRoles ==
  ASSUME SettingsTypeOK, NEW app \in StoredApp, NEW roles \in Seq(AskedRole),
         NEW prev \in Seq(Role), RolesOk(roles, app)
  PROVE  LET filled == Filled(roles, app, prev)
         IN  /\ filled \in Seq(Role) /\ Len(filled) = Len(roles)
             /\ \A i \in 1 .. Len(roles) :
                  /\ filled[i].name = roles[i].name
                  /\ filled[i].members = IF roles[i].members = Nil
                                         THEN TheOne(app.roles, roles[i].name).min
                                         ELSE roles[i].members
                  /\ filled[i].cfg.resources = roles[i].cfg.resources
                  /\ filled[i].cfg.storage = roles[i].cfg.storage
<1> DEFINE n == Len(roles)
           filled == Filled(roles, app, prev)
           Members(role) == IF role.members = Nil THEN TheOne(app.roles, role.name).min
                            ELSE role.members
           cfg(role) == FilledCfg(role.cfg, KeptSecret(prev, role.name))
           Done(role) == [role EXCEPT !.members = Members(role), !.cfg = cfg(role)]
<1>1. n \in Nat /\ DOMAIN roles = 1 .. n
  OBVIOUS
<1>2. filled = [i \in 1 .. n |-> Done(roles[i])]
  BY <1>1 DEF Filled
<1>3. ASSUME NEW i \in 1 .. n
      PROVE  /\ Done(roles[i]) \in Role /\ Done(roles[i]).name = roles[i].name
             /\ Done(roles[i]).members = Members(roles[i])
             /\ Done(roles[i]).cfg.resources = roles[i].cfg.resources
             /\ Done(roles[i]).cfg.storage = roles[i].cfg.storage
  <2> DEFINE role == roles[i]
  <2>1. role \in AskedRole
    BY <1>1
  <2>2. Members(role) \in Nat
    <3>1. role.name \in Names(app.roles)
      BY <1>1 DEF RolesOk, Names
    <3>2. TheOne(app.roles, role.name) \in AppRole
      <4>1. app.roles \in Seq(AppRole)
        BY DEF StoredApp, NodeApp
      <4> QED  BY <3>1, <4>1, NamedAre
    <3> QED  BY <2>1, <3>2 DEF AskedRole, AppRole
  <2>3. KeptSecret(prev, role.name) \in Nat
    <3>1. Named(prev, role.name) # {} => TheOne(prev, role.name) \in Role
      BY NamedAre
    <3> QED  BY <3>1 DEF Role, RoleCfg, KeptSecret, NoKey
  <2>4. Done(role) = [role EXCEPT !.members = Members(role), !.cfg = cfg(role)]
    OBVIOUS
  <2> HIDE DEF Members, Done, role
  <2>5. /\ cfg(role) \in RoleCfg
        /\ cfg(role).resources = role.cfg.resources /\ cfg(role).storage = role.cfg.storage
    BY <2>1, <2>3, FilledCfgType
  <2> HIDE DEF cfg
  <2>6. /\ Done(role) \in Role /\ Done(role).name = role.name
        /\ Done(role).members = Members(role) /\ Done(role).cfg = cfg(role)
    BY <2>1, <2>2, <2>4, <2>5 DEF AskedRole, Role
  <2> QED  BY <2>5, <2>6 DEF role
<1> HIDE DEF Done, n
<1>4. filled \in [1 .. n -> Role]
  BY <1>2, <1>3
<1>5. filled \in Seq(Role) /\ Len(filled) = n
  <2> HIDE DEF filled
  <2> QED  BY <1>1, <1>4, FunctionIsSeq
<1> QED  BY <1>2, <1>3, <1>5 DEF n

\* What is admitted for an app fits it.
LEMMA AdmittedFits ==
  ASSUME SettingsTypeOK, NEW app \in StoredApp, NEW request \in Requests, NEW prev \in Seq(Role),
         NEW filled, Admits(request, app, prev, filled)
  PROVE  filled \in Seq(Role) /\ Fits(filled, app)
<1> DEFINE roles == request.roles
           n == Len(roles)
<1>1. roles \in Seq(AskedRole) /\ app.roles \in Seq(AppRole) /\ Unique(app.roles)
  BY DocumentsAssumption DEF StoredApp, NodeApp, AppValid
<1>2. n \in Nat /\ DOMAIN roles = 1 .. n
  BY <1>1
<1>3. RolesOk(roles, app) /\ filled = Filled(roles, app, prev)
  BY DEF Admits
<1>4. /\ filled \in Seq(Role) /\ Len(filled) = n
      /\ \A i \in 1 .. n :
           /\ filled[i].name = roles[i].name
           /\ filled[i].members = IF roles[i].members = Nil
                                  THEN TheOne(app.roles, roles[i].name).min
                                  ELSE roles[i].members
           /\ filled[i].cfg.resources = roles[i].cfg.resources
           /\ filled[i].cfg.storage = roles[i].cfg.storage
  BY <1>1, <1>3, FilledRoles
<1>5. DOMAIN filled = 1 .. n
  BY <1>4
<1>6. Names(filled) = Names(roles)
  BY <1>2, <1>4, <1>5 DEF Names
<1>7. Unique(filled) /\ Names(filled) \subseteq Names(app.roles)
  BY <1>3, <1>4, <1>6 DEF RolesOk, Unique
<1> HIDE DEF n
<1>8. ASSUME NEW r \in RoleNames
      PROVE  LET asked == Named(app.roles, r)
                 given == Named(filled, r)
             IN  /\ Cardinality({i \in DOMAIN filled : filled[i].name = r}) <= Cardinality(asked)
                 /\ given = {} /\ r \in app.selected => \A x \in asked : x.min = 0
                 /\ \A x \in asked, y \in given :
                      /\ y.members >= x.min /\ (x.scaleOut \/ y.members = x.min)
                      /\ y.cfg.resources >= x.resources
                      /\ y.cfg.storage >= x.storage \/ (x.ephemeral /\ y.cfg.storage = 0)
  <2> DEFINE asked == Named(app.roles, r)
             given == Named(filled, r)
  <2>1. Cardinality({i \in DOMAIN filled : filled[i].name = r}) <= Cardinality(asked)
    <3>1. \A other \in Seq(AppRole) :
            Unique(other) /\ Names(filled) \subseteq Names(other) =>
              Cardinality({i \in DOMAIN filled : filled[i].name = r})
                <= Cardinality(Named(other, r))
      <4>1. filled \in Seq(Role) /\ Unique(filled)
        BY <1>4, <1>7
      <4> QED  BY <4>1, NoMoreOften, ZenonT(40)
    <3> QED  BY <1>1, <1>7, <3>1
  <2>2. ASSUME given = {}, r \in app.selected, NEW x \in asked PROVE x.min = 0
    <3>1. r \notin Names(roles)
      BY <1>6, <2>2, NamedAre
    <3>2. TheOne(app.roles, r).min = 0
      BY <1>3, <2>2, <3>1 DEF RolesOk
    <3> QED  BY <1>1, <2>2, <3>2, NamedOne
  <2>3. ASSUME NEW x \in asked, NEW y \in given
        PROVE  /\ y.members >= x.min /\ (x.scaleOut \/ y.members = x.min)
               /\ y.cfg.resources >= x.resources
               /\ y.cfg.storage >= x.storage \/ (x.ephemeral /\ y.cfg.storage = 0)
    <3>1. PICK i \in DOMAIN filled : y = filled[i] /\ filled[i].name = r
      BY NamedAre
    <3>2. i \in 1 .. n /\ roles[i].name = r /\ roles[i] \in AskedRole /\ roles[i] \in ToSet(roles)
      BY <1>1, <1>2, <1>4, <1>5, <3>1 DEF ToSet
    <3>3. TheOne(app.roles, r) = x
      BY <1>1, NamedOne
    <3>4. CardinalityOk(roles[i], x) /\ MinimumsOk(roles[i], x)
      BY <1>3, <3>2, <3>3 DEF RolesOk
    <3>5. x \in AppRole
      BY <1>1, NamedAre
    <3>6. /\ y.members = IF roles[i].members = Nil THEN x.min ELSE roles[i].members
          /\ y.cfg.resources = roles[i].cfg.resources /\ y.cfg.storage = roles[i].cfg.storage
      BY <1>4, <3>1, <3>2, <3>3
    <3>7. x.min \in Nat /\ x.storage \in Nat /\ x.scaleOut \in BOOLEAN
      BY <3>5 DEF AppRole
    <3>8. y.members >= x.min /\ (x.scaleOut \/ y.members = x.min)
      BY <3>4, <3>6, <3>7 DEF CardinalityOk
    <3>9. /\ y.cfg.resources >= x.resources
          /\ y.cfg.storage >= x.storage \/ (x.ephemeral /\ y.cfg.storage = 0)
      BY <3>4, <3>6, <3>7 DEF MinimumsOk
    <3> QED  BY <3>8, <3>9
  <2> QED  BY <2>1, <2>2, <2>3
<1> QED  BY <1>4, <1>8 DEF Fits

-----------------------------------------------------------------------------
(* The limit of members. *)

LEMMA HasMinimum ==
  ASSUME NEW T, T \subseteq Nat, T # {}
  PROVE  \E x \in T : \A y \in T : x <= y
<1> DEFINE R == OpToRel(<, Nat)
<1>1. PICK x \in T : \A y \in T : ~ (<<y, x>> \in R)
  <2>1. IsWellFoundedOn(R, Nat)
    BY NatLessThanWellFounded
  <2> HIDE DEF R
  <2> QED  BY <2>1, WFMin
<1>2. \A y, z \in Nat : y < z => <<y, z>> \in R
  BY DEF OpToRel
<1> HIDE DEF R
<1>3. ASSUME NEW y \in T PROVE x <= y
  <2>1. x \in Nat /\ y \in Nat /\ ~ (y < x)
    BY <1>1, <1>2, <1>3
  <2> QED  BY <2>1
<1> QED  BY <1>3

\* The sums are what their definition says: there is such a function up to every number,
\* since one that ends below the first number without any can be extended.
LEMMA SumsAre ==
  ASSUME NEW counts, NEW n \in Nat, Len(counts) = n
  PROVE  Sums(counts) = [k \in 0 .. n |-> IF k = 0 THEN 0
                                          ELSE Wrapped(Sums(counts)[k - 1] + counts[k])]
<1> DEFINE Added(g, k) == IF k = 0 THEN 0 ELSE Wrapped(g[k - 1] + counts[k])
           IsSum(g, m) == g = [k \in 0 .. m |-> Added(g, k)]
           Unsummed == {m \in Nat : ~ \E g : IsSum(g, m)}
<1>1. Unsummed = {}
  <2> SUFFICES ASSUME Unsummed # {} PROVE FALSE
    OBVIOUS
  <2>1. PICK m \in Unsummed : \A y \in Unsummed : m <= y
    BY HasMinimum
  <2>2. CASE m = 0
    <3>1. IsSum([k \in 0 .. 0 |-> 0], 0)
      OBVIOUS
    <3> QED  BY <2>1, <2>2, <3>1
  <2>3. CASE m # 0
    <3>1. m - 1 \in Nat /\ m - 1 \notin Unsummed
      <4>1. m \in Nat /\ m - 1 \in Nat /\ ~ (m <= m - 1)
        BY <2>3
      <4> HIDE DEF Unsummed
      <4> QED  BY <2>1, <4>1
    <3>2. PICK g : IsSum(g, m - 1)
      BY <3>1
    <3> DEFINE h == [k \in 0 .. m |-> IF k = m THEN Wrapped(g[m - 1] + counts[m]) ELSE g[k]]
    <3>3. ASSUME NEW k \in 0 .. m PROVE h[k] = Added(h, k)
      <4>1. CASE k = m
        <5>1. h[m - 1] = g[m - 1] /\ h[m] = Wrapped(g[m - 1] + counts[m])
          BY <3>1
        <5> QED  BY <2>3, <4>1, <5>1
      <4>2. CASE k # m
        <5>1. k \in 0 .. (m - 1) /\ (k # 0 => k - 1 \in 0 .. m /\ k - 1 # m)
          BY <3>1, <4>2
        <5>2. h[k] = g[k] /\ (k # 0 => h[k - 1] = g[k - 1])
          BY <4>2, <5>1
        <5>3. g[k] = Added(g, k)
          BY <3>2, <5>1
        <5> QED  BY <5>2, <5>3
      <4> QED  BY <4>1, <4>2
    <3>4. IsSum(h, m)
      BY <3>3
    <3> QED  BY <2>1, <3>4
  <2> QED  BY <2>2, <2>3
<1>2. \E g : IsSum(g, n)
  BY <1>1
<1>3. Sums(counts) = CHOOSE g : IsSum(g, n)
  BY DEF Sums
<1>4. IsSum(Sums(counts), n)
  <2> HIDE DEF IsSum
  <2> QED  BY <1>2, <1>3
<1> QED  BY <1>4

LEMMA NoWrap ==
  ASSUME NEW k \in Nat, k <= IntMax
  PROVE  Wrapped(k) = k
<1> DEFINE size == 2 * (IntMax + 1)
<1>1. size \in Nat /\ size > 0 /\ k + IntMax + 1 \in 0 .. (size - 1)
  BY LimitsAssumption
<1>2. (k + IntMax + 1) % size = k + IntMax + 1
  <2> HIDE DEF size
  <2>1. \A a, b \in Int : b > 0 /\ 0 <= a /\ a < b => a % b = a
    OBVIOUS
  <2> QED  BY <1>1, <2>1, LimitsAssumption
<1> QED  BY <1>2, LimitsAssumption DEF Wrapped

\* As long as no sum exceeds the limit and no count is so large that it could take one
\* past the largest number, the sums do not wrap around, and neither do those of lesser
\* counts.
LEMMA SumsAddUp ==
  ASSUME NEW n \in Nat, NEW counts \in [1 .. n -> Nat], NEW fewer \in [1 .. n -> Nat],
         \A k \in 1 .. n : /\ counts[k] <= IntMax - MaxMembers
                           /\ fewer[k] <= counts[k]
                           /\ Sums(counts)[k] <= MaxMembers
  PROVE  /\ Sums(fewer)[0] = 0
         /\ \A k \in 0 .. n : Sums(fewer)[k] \in Nat /\ Sums(fewer)[k] <= Sums(counts)[k]
         /\ \A k \in 1 .. n : Sums(fewer)[k] = Sums(fewer)[k - 1] + fewer[k]
<1> DEFINE s == Sums(counts)
           t == Sums(fewer)
           Fine(k) == s[k] \in Nat /\ s[k] <= MaxMembers /\ t[k] \in Nat /\ t[k] <= s[k]
           Bad == {k \in 0 .. n : ~ Fine(k)}
<1>1. Len(counts) = n /\ Len(fewer) = n
  BY FunctionIsSeq
<1>2. /\ s[0] = 0 /\ \A k \in 1 .. n : s[k] = Wrapped(s[k - 1] + counts[k])
      /\ t[0] = 0 /\ \A k \in 1 .. n : t[k] = Wrapped(t[k - 1] + fewer[k])
  <2>1. /\ s = [k \in 0 .. n |-> IF k = 0 THEN 0 ELSE Wrapped(s[k - 1] + counts[k])]
        /\ t = [k \in 0 .. n |-> IF k = 0 THEN 0 ELSE Wrapped(t[k - 1] + fewer[k])]
    BY <1>1, SumsAre
  <2> HIDE DEF s, t
  <2> QED  BY <2>1
<1>3. \A k \in 1 .. n : s[k] <= MaxMembers
  OBVIOUS
<1> HIDE DEF s, t
<1>4. ASSUME NEW k \in 1 .. n, Fine(k - 1)
      PROVE  Fine(k) /\ t[k] = t[k - 1] + fewer[k]
  <2>1. /\ counts[k] \in Nat /\ fewer[k] \in Nat
        /\ counts[k] <= IntMax - MaxMembers /\ fewer[k] <= counts[k]
    OBVIOUS
  <2>2. /\ s[k - 1] + counts[k] \in Nat /\ s[k - 1] + counts[k] <= IntMax
        /\ t[k - 1] + fewer[k] \in Nat /\ t[k - 1] + fewer[k] <= s[k - 1] + counts[k]
    <3>1. \A a, b, c, d \in Nat :
            a <= MaxMembers /\ c <= a /\ b <= IntMax - MaxMembers /\ d <= b =>
              a + b \in Nat /\ a + b <= IntMax /\ c + d \in Nat /\ c + d <= a + b
      BY LimitsAssumption
    <3>2. /\ s[k - 1] \in Nat /\ s[k - 1] <= MaxMembers
          /\ t[k - 1] \in Nat /\ t[k - 1] <= s[k - 1]
      BY <1>4
    <3> QED  BY <2>1, <3>1, <3>2
  <2>3. s[k] = s[k - 1] + counts[k] /\ t[k] = t[k - 1] + fewer[k]
    <3>1. t[k - 1] + fewer[k] <= IntMax
      BY <2>2, LimitsAssumption
    <3> QED  BY <1>2, <2>2, <3>1, NoWrap
  <2> QED  BY <1>3, <2>2, <2>3
<1>5. Bad = {}
  <2> SUFFICES ASSUME Bad # {} PROVE FALSE
    OBVIOUS
  <2>1. Bad \subseteq Nat
    OBVIOUS
  <2>2. PICK k \in Bad : \A y \in Bad : k <= y
    BY <2>1, HasMinimum
  <2>3. k # 0
    BY <1>2, LimitsAssumption
  <2>4. k \in 1 .. n /\ k - 1 \in 0 .. n /\ ~ (k <= k - 1)
    BY <2>3
  <2>5. Fine(k - 1)
    BY <2>2, <2>4
  <2> QED  BY <1>4, <2>4, <2>5
<1>6. \A k \in 0 .. n : Fine(k)
  BY <1>5
<1>7. \A k \in 1 .. n : t[k] = t[k - 1] + fewer[k]
  <2>1. \A k \in 1 .. n : k - 1 \in 0 .. n
    OBVIOUS
  <2> HIDE DEF Fine
  <2> QED  BY <1>4, <1>6, <2>1
<1> QED  BY <1>2, <1>6, <1>7 DEF s, t

AllOf(part, n) == UNION {part[k] : k \in 1 .. n}

\* A union has no more elements than its parts have together.
LEMMA UnionAddsUp ==
  ASSUME NEW n \in Nat, NEW part, NEW sum,
         sum[0] = 0, \A k \in 0 .. n : sum[k] \in Nat,
         \A k \in 1 .. n : /\ IsFiniteSet(part[k])
                           /\ Cardinality(part[k]) <= sum[k] - sum[k - 1]
  PROVE  /\ IsFiniteSet(AllOf(part, n))
         /\ Cardinality(AllOf(part, n)) \in Nat /\ Cardinality(AllOf(part, n)) <= sum[n]
<1> DEFINE U(m) == AllOf(part, m)
           Fine(m) == IsFiniteSet(U(m)) /\ Cardinality(U(m)) <= sum[m]
           Bad == {m \in 0 .. n : ~ Fine(m)}
<1>1. Fine(0)
  <2>1. U(0) = {}
    BY DEF AllOf
  <2>2. IsFiniteSet(U(0)) /\ Cardinality(U(0)) = 0
    BY <2>1, FS_EmptySet
  <2> HIDE DEF U
  <2> QED  BY <2>2
<1>2. ASSUME NEW m \in 1 .. n, Fine(m - 1) PROVE Fine(m)
  <2>1. U(m) = U(m - 1) \cup part[m]
    <3>1. 1 .. m = (1 .. (m - 1)) \cup {m}
      OBVIOUS
    <3> QED  BY <3>1 DEF AllOf
  <2>2. IsFiniteSet(part[m]) /\ Cardinality(part[m]) <= sum[m] - sum[m - 1]
    OBVIOUS
  <2>3. sum[m] \in Nat /\ sum[m - 1] \in Nat
    OBVIOUS
  <2> HIDE DEF U
  <2>4. /\ IsFiniteSet(U(m))
        /\ Cardinality(U(m)) = Cardinality(U(m - 1)) + Cardinality(part[m])
                                 - Cardinality(U(m - 1) \cap part[m])
    BY <1>2, <2>1, <2>2, FS_Union
  <2>5. IsFiniteSet(U(m - 1) \cap part[m])
    BY <1>2, FS_Intersection
  <2>6. /\ Cardinality(U(m - 1)) \in Nat /\ Cardinality(part[m]) \in Nat
        /\ Cardinality(U(m - 1) \cap part[m]) \in Nat
    BY <1>2, <2>2, <2>5, FS_CardinalityType
  <2> QED  BY <1>2, <2>2, <2>3, <2>4, <2>6
<1> HIDE DEF Fine
<1>3. Bad = {}
  <2> SUFFICES ASSUME Bad # {} PROVE FALSE
    OBVIOUS
  <2>1. Bad \subseteq Nat
    OBVIOUS
  <2>2. PICK m \in Bad : \A y \in Bad : m <= y
    BY <2>1, HasMinimum
  <2>3. m \in 1 .. n /\ m - 1 \in 0 .. n /\ ~ (m <= m - 1)
    BY <1>1
  <2>4. Fine(m - 1)
    BY <2>2, <2>3
  <2> QED  BY <1>2, <2>3, <2>4
<1>4. Fine(n)
  BY <1>3
<1> QED  BY <1>4, FS_CardinalityType DEF Fine

LEMMA PodsCounted ==
  ASSUME NEW role \in Role
  PROVE  IsFiniteSet(Pods(role)) /\ Cardinality(Pods(role)) = role.members
<1>1. role.members \in Nat
  BY DEF Role
<1>2. IsFiniteSet(1 .. role.members) /\ Cardinality(1 .. role.members) = role.members
  <2>1. \A m \in Nat : IsFiniteSet(1 .. m) /\ Cardinality(1 .. m) = m
    BY FS_Interval
  <2> QED  BY <1>1, <2>1
<1>3. IsFiniteSet({role.name}) /\ Cardinality({role.name}) = 1
  BY FS_Singleton
<1>4. /\ IsFiniteSet({role.name} \X (1 .. role.members))
      /\ Cardinality({role.name} \X (1 .. role.members)) = 1 * role.members
  BY <1>2, <1>3, FS_Product
<1> QED  BY <1>1, <1>4 DEF Pods

\* What WithinLimits says of each cluster.
Limited(roles) ==
  /\ Cardinality(UNION {Pods(role) : role \in ToSet(roles)}) <= MaxMembers
  /\ Cardinality(UNION {Pods(role) : role \in {x \in ToSet(roles) : x.cfg.claim}}) <= 1

LEMMA NothingLimited == Limited(<<>>)
<1> DEFINE all == UNION {Pods(role) : role \in ToSet(<<>>)}
           claimed == UNION {Pods(role) : role \in {x \in ToSet(<<>>) : x.cfg.claim}}
<1>1. ToSet(<<>>) = {}
  BY DEF ToSet
<1>2. all = {} /\ claimed = {}
  BY <1>1
<1>3. Limited(<<>>) <=> Cardinality(all) <= MaxMembers /\ Cardinality(claimed) <= 1
  BY DEF Limited
<1> HIDE DEF all, claimed
<1>4. Cardinality(all) = 0 /\ Cardinality(claimed) = 0
  BY <1>2, FS_EmptySet
<1> QED  BY <1>3, <1>4, LimitsAssumption

LEMMA SumsLimit ==
  ASSUME NEW roles \in Seq(Role), WithinLimit(roles), ClaimsOk(roles),
         \A i \in DOMAIN roles : roles[i].members <= IntMax - MaxMembers
  PROVE  Limited(roles)
<1> DEFINE n == Len(roles)
           counts == Counts(roles)
           claims == Claimants(roles)
           pods == [i \in 1 .. n |-> Pods(roles[i])]
           claimed == [i \in 1 .. n |-> IF roles[i].cfg.claim THEN Pods(roles[i]) ELSE {}]
<1>1. n \in Nat /\ DOMAIN roles = 1 .. n /\ \A i \in 1 .. n : roles[i] \in Role
  OBVIOUS
<1>2. \A i \in 1 .. n : roles[i].members \in Nat /\ roles[i].cfg.claim \in BOOLEAN
  BY <1>1 DEF Role, RoleCfg
<1>3. /\ counts \in [1 .. n -> Nat] /\ \A i \in 1 .. n : counts[i] = roles[i].members
      /\ claims \in [1 .. n -> Nat]
      /\ \A i \in 1 .. n : claims[i] = IF roles[i].cfg.claim THEN roles[i].members ELSE 0
  BY <1>1, <1>2 DEF Counts, Claimants
<1>4. \A i \in 1 .. n : /\ counts[i] <= IntMax - MaxMembers
                        /\ counts[i] <= counts[i] /\ claims[i] <= counts[i]
                        /\ Sums(counts)[i] <= MaxMembers
  <2>1. \A i \in 1 .. n : Sums(counts)[i] <= MaxMembers
    BY <1>1 DEF WithinLimit
  <2> QED  BY <1>1, <1>2, <1>3, <2>1
<1>5. Sums(claims)[n] <= 1
  BY DEF ClaimsOk
<1> HIDE DEF n, counts, claims
<1>6. /\ Sums(counts)[0] = 0 /\ Sums(claims)[0] = 0
      /\ \A k \in 0 .. n : Sums(counts)[k] \in Nat /\ Sums(claims)[k] \in Nat
      /\ \A k \in 1 .. n : /\ Sums(counts)[k] = Sums(counts)[k - 1] + counts[k]
                           /\ Sums(claims)[k] = Sums(claims)[k - 1] + claims[k]
  BY <1>1, <1>3, <1>4, SumsAddUp
<1>7. \A k \in 1 .. n : Sums(counts)[k - 1] \in Nat /\ Sums(claims)[k - 1] \in Nat
  <2>1. \A k \in 1 .. n : k - 1 \in 0 .. n
    BY <1>1
  <2> QED  BY <1>6, <2>1
<1>8. Cardinality(UNION {Pods(role) : role \in ToSet(roles)}) <= MaxMembers
  <2>1. \A k \in 1 .. n : /\ IsFiniteSet(pods[k])
                          /\ Cardinality(pods[k]) <= Sums(counts)[k] - Sums(counts)[k - 1]
    <3> SUFFICES ASSUME NEW k \in 1 .. n
                 PROVE  /\ IsFiniteSet(pods[k])
                        /\ Cardinality(pods[k]) <= Sums(counts)[k] - Sums(counts)[k - 1]
      OBVIOUS
    <3>1. IsFiniteSet(pods[k]) /\ Cardinality(pods[k]) = roles[k].members
      BY <1>1, PodsCounted
    <3> HIDE DEF pods
    <3> QED  BY <1>2, <1>3, <1>6, <1>7, <3>1
  <2>2. AllOf(pods, n) = UNION {Pods(role) : role \in ToSet(roles)}
    BY <1>1 DEF ToSet, AllOf
  <2> HIDE DEF pods
  <2>3. /\ Cardinality(AllOf(pods, n)) \in Nat
        /\ Cardinality(AllOf(pods, n)) <= Sums(counts)[n]
    BY <1>1, <1>6, <2>1, UnionAddsUp
  <2>4. Sums(counts)[n] \in Nat /\ Sums(counts)[n] <= MaxMembers
    <3>1. n = 0 \/ n \in 1 .. n
      BY <1>1
    <3>2. n \in 0 .. n
      BY <1>1
    <3> QED  BY <1>4, <1>6, <3>1, <3>2, LimitsAssumption
  <2>5. Cardinality(AllOf(pods, n)) <= MaxMembers
    BY <2>3, <2>4, LimitsAssumption
  <2> QED  BY <2>2, <2>5
<1>9. Cardinality(UNION {Pods(role) : role \in {x \in ToSet(roles) : x.cfg.claim}}) <= 1
  <2>1. \A k \in 1 .. n : /\ IsFiniteSet(claimed[k])
                          /\ Cardinality(claimed[k]) <= Sums(claims)[k] - Sums(claims)[k - 1]
    <3> SUFFICES ASSUME NEW k \in 1 .. n
                 PROVE  /\ IsFiniteSet(claimed[k])
                        /\ Cardinality(claimed[k]) <= Sums(claims)[k] - Sums(claims)[k - 1]
      OBVIOUS
    <3>1. /\ IsFiniteSet(claimed[k])
          /\ Cardinality(claimed[k]) = IF roles[k].cfg.claim THEN roles[k].members ELSE 0
      BY <1>1, PodsCounted, FS_EmptySet
    <3>2. claims[k] = IF roles[k].cfg.claim THEN roles[k].members ELSE 0
      BY <1>3
    <3>3. /\ Sums(claims)[k] = Sums(claims)[k - 1] + claims[k]
          /\ Sums(claims)[k - 1] \in Nat /\ claims[k] \in Nat
      BY <1>3, <1>6, <1>7
    <3> HIDE DEF claimed
    <3> QED  BY <3>1, <3>2, <3>3
  <2>2. AllOf(claimed, n)
          = UNION {Pods(role) : role \in {x \in ToSet(roles) : x.cfg.claim}}
    BY <1>1 DEF ToSet, AllOf
  <2> HIDE DEF claimed
  <2>3. /\ Cardinality(AllOf(claimed, n)) \in Nat
        /\ Cardinality(AllOf(claimed, n)) <= Sums(claims)[n]
    BY <1>1, <1>6, <2>1, UnionAddsUp
  <2>4. Sums(claims)[n] \in Nat
    BY <1>1, <1>6
  <2>5. Cardinality(AllOf(claimed, n)) <= 1
    BY <1>5, <2>3, <2>4
  <2> QED  BY <2>2, <2>5
<1> QED  BY <1>8, <1>9 DEF Limited

-----------------------------------------------------------------------------
(* The invariant. *)

Cluster == [state : {"absent", "new", "live", "deleting"}, catalog : Catalogs \cup {Nil},
            service : Values \cup {Nil}, roles : Seq(Role),
            made : [RoleNames -> RoleCfg \cup {NoRole}], pending : BOOLEAN]

Typed ==
  /\ apps \in [Catalogs -> StoredApp \cup {NoApp}]
  /\ clusters \in [Clusters -> Cluster]
  /\ working \in [Clusters -> Seq(Role) \cup {Nil}]
  /\ refs \in [Catalogs -> SUBSET Clusters] /\ known \subseteq Clusters
  /\ sameApp \subseteq Clusters /\ changes \in 0 .. MaxChanges

\* A cluster is of a catalog; once an entry has been made for it, it has a status and
\* is noted as using the app; while the app is the one that it was admitted for, it fits.
Kempt(c) ==
  /\ clusters[c].state # "absent" => clusters[c].catalog \in Catalogs
  /\ c \in known => /\ clusters[c].state \in {"live", "deleting"}
                    /\ c \in refs[clusters[c].catalog]
  /\ Admitted(c) => /\ apps[clusters[c].catalog] # NoApp
                    /\ Fits(clusters[c].roles, apps[clusters[c].catalog])

AdmissionInv == Inv /\ UidInv /\ Typed /\ \A c \in Clusters : Kempt(c)

LEMMA NoClusterType == NoCluster \in Cluster
<1>1. [r \in RoleNames |-> NoRole] \in [RoleNames -> RoleCfg \cup {NoRole}]
  OBVIOUS
<1>2. <<>> \in Seq(Role)
  OBVIOUS
<1> QED  BY <1>1, <1>2 DEF NoCluster, Cluster

\* For the settings every step is one of theirs, or none.
LEMMA SettingsStep == [Next]_allVars => [SettingsNext]_vars
<1> SUFFICES ASSUME [Next]_allVars PROVE [SettingsNext]_vars
  OBVIOUS
<1>1. ASSUME NEW any \in BOOLEAN, EditConfig(any) PROVE EditConfig(FALSE)
  BY <1>1 DEF EditConfig
<1>2. ASSUME NEW any \in BOOLEAN, DeleteConfig(any) PROVE DeleteConfig(FALSE)
  BY <1>2 DEF DeleteConfig
<1>3. CASE Pass \/ CacheMoves \/ CreateConfig \/ EditConfig(AnyClusters) \/ DeleteConfig(AnyClusters)
  <2>1. AnyClusters \in BOOLEAN
    BY DEF AnyClusters
  <2> QED  BY <1>1, <1>2, <1>3, <2>1 DEF SettingsNext
<1>4. CASE Restart
  BY <1>4 DEF Restart, SettingsNext
<1>5. CASE UNCHANGED vars
  BY <1>5
<1>6. UNCHANGED allVars => UNCHANGED vars
  BY DEF allVars, vars
<1>7. ASSUME NEW catalog \in Catalogs,
             DeleteApp(catalog) \/ \E app \in NodeApps : PutApp(catalog, app)
      PROVE  UNCHANGED vars
  BY <1>7 DEF DeleteApp, PutApp, Changes
<1>8. ASSUME NEW c \in Clusters,
             \/ \E request \in Requests : CreateCluster(c, request) \/ EditCluster(c, request)
             \/ DeleteCluster(c) \/ FirstPass(c) \/ BeginPass(c) \/ EndPass(c) \/ FinalPass(c)
      PROVE  UNCHANGED vars
  BY <1>8 DEF CreateCluster, EditCluster, DeleteCluster, Changes, FirstPass, BeginPass,
     EndPass, FinalPass, ReconcilerKeeps
<1> QED  BY <1>3, <1>4, <1>5, <1>6, <1>7, <1>8 DEF Next

\* Users change apps.
LEMMA AppStep ==
  ASSUME AdmissionInv, NEW catalog \in Catalogs,
         DeleteApp(catalog) \/ \E app \in NodeApps : PutApp(catalog, app)
  PROVE  Typed' /\ \A c \in Clusters : Kempt(c)'
<1>1. /\ UNCHANGED <<clusters, working, refs, known>>
      /\ changes < MaxChanges /\ changes' = changes + 1
  BY DEF DeleteApp, PutApp, Changes
<1>2. \E x \in StoredApp \cup {NoApp} : apps' = [apps EXCEPT ![catalog] = x]
  <2>1. ASSUME NEW app \in NodeApps, PutApp(catalog, app)
        PROVE  Defaulted(app) \in StoredApp
    BY <2>1, DocumentsAssumption, DefaultedStored DEF PutApp
  <2> QED  BY <2>1 DEF DeleteApp, PutApp
<1>3. \/ apps' = apps /\ sameApp' = sameApp
      \/ sameApp' = {c \in sameApp : clusters[c].catalog # catalog}
  BY DEF DeleteApp, PutApp
<1>4. Typed'
  <2>1. changes' \in 0 .. MaxChanges
    BY <1>1, LimitsAssumption DEF AdmissionInv, Typed
  <2>2. apps' \in [Catalogs -> StoredApp \cup {NoApp}]
    BY <1>2 DEF AdmissionInv, Typed
  <2>3. sameApp' \subseteq Clusters
    BY <1>3 DEF AdmissionInv, Typed
  <2> QED  BY <1>1, <2>1, <2>2, <2>3 DEF AdmissionInv, Typed
<1>5. ASSUME NEW c \in Clusters PROVE Kempt(c)'
  <2>1. Kempt(c)
    BY DEF AdmissionInv
  <2>2. /\ (clusters[c].state # "absent" => clusters[c].catalog \in Catalogs)'
        /\ (c \in known => /\ clusters[c].state \in {"live", "deleting"}
                           /\ c \in refs[clusters[c].catalog])'
    BY <1>1, <2>1 DEF Kempt
  <2>3. ASSUME Admitted(c)'
        PROVE  Admitted(c) /\ apps'[clusters[c].catalog] = apps[clusters[c].catalog]
    <3>1. Admitted(c) /\ clusters[c].catalog \in Catalogs
      BY <1>1, <1>3, <2>1, <2>3 DEF Admitted, Kempt
    <3>2. CASE apps' = apps
      BY <3>1, <3>2
    <3>3. CASE sameApp' = {d \in sameApp : clusters[d].catalog # catalog}
      <4>1. clusters[c].catalog # catalog
        BY <2>3, <3>3 DEF Admitted
      <4> QED  BY <1>2, <3>1, <4>1 DEF AdmissionInv, Typed
    <3> QED  BY <1>3, <3>1, <3>2, <3>3
  <2>4. (Admitted(c) => /\ apps[clusters[c].catalog] # NoApp
                        /\ Fits(clusters[c].roles, apps[clusters[c].catalog]))'
    BY <1>1, <2>1, <2>3 DEF Kempt
  <2> QED  BY <2>2, <2>4 DEF Kempt
<1> QED  BY <1>4, <1>5

\* What is done to one cluster, without taking others out of the notes.
LEMMA OthersKempt ==
  ASSUME \A d \in Clusters : Kempt(d), NEW c \in Clusters, UNCHANGED apps,
         \A d \in Clusters \ {c} :
           /\ clusters'[d] = clusters[d]
           /\ d \in known' => d \in known
           /\ d \in sameApp' => d \in sameApp
           /\ \A catalog \in Catalogs : d \in refs[catalog] => d \in refs'[catalog],
         Kempt(c)'
  PROVE  \A d \in Clusters : Kempt(d)'
<1> SUFFICES ASSUME NEW d \in Clusters \ {c} PROVE Kempt(d)'
  OBVIOUS
<1>1. Kempt(d)
  OBVIOUS
<1>2. Admitted(d)' => Admitted(d)
  BY DEF Admitted
<1> QED  BY <1>1, <1>2 DEF Kempt

\* Users change clusters.
LEMMA ClusterStep ==
  ASSUME AdmissionInv, NEW c \in Clusters,
         \/ \E request \in Requests : CreateCluster(c, request) \/ EditCluster(c, request)
         \/ DeleteCluster(c)
  PROVE  Typed' /\ \A d \in Clusters : Kempt(d)'
<1>0. Kempt(c) /\ clusters[c] \in Cluster /\ SettingsTypeOK
  BY DEF AdmissionInv, Typed, Inv
<1>1. /\ UNCHANGED <<apps, working, refs, known>>
      /\ changes < MaxChanges /\ changes' = changes + 1
      /\ sameApp' = sameApp \/ sameApp' = sameApp \cup {c}
  BY DEF CreateCluster, EditCluster, DeleteCluster, Changes
<1>2. \E new \in Cluster : clusters' = [clusters EXCEPT ![c] = new] /\ Kempt(c)'
  <2>1. ASSUME NEW request \in Requests, CreateCluster(c, request)
        PROVE  \E new \in Cluster : clusters' = [clusters EXCEPT ![c] = new] /\ Kempt(c)'
    <3> DEFINE catalog == FindApp(request.catalog)
               filled == Filled(request.roles, apps[catalog], <<>>)
               new == [NoCluster EXCEPT !.state = "new", !.catalog = catalog,
                                        !.roles = filled, !.service = Service(request)]
    <3>1. /\ clusters[c].state = "absent" /\ Admits(request, apps[catalog], <<>>, filled)
          /\ clusters' = [clusters EXCEPT ![c] = new]
      BY <2>1 DEF CreateCluster
    <3>2. catalog \in Catalogs
      BY DEF FindApp, Catalogs
    <3>3. apps[catalog] \in StoredApp /\ apps[catalog] # NoApp
      BY <3>1, <3>2 DEF Admits, AdmissionInv, Typed
    <3>4. filled \in Seq(Role) /\ Fits(filled, apps[catalog])
      <4>1. <<>> \in Seq(Role)
        OBVIOUS
      <4> QED  BY <1>0, <3>1, <3>3, <4>1, AdmittedFits
    <3>5. Service(request) \in Values \cup {Nil}
      BY <1>0, DocumentsAssumption DEF Service, SettingsTypeOK, ConfigSpec
    <3> HIDE DEF filled, catalog
    <3>6. new \in Cluster /\ new.state = "new" /\ new.catalog = catalog /\ new.roles = filled
      BY <3>2, <3>4, <3>5, NoClusterType DEF Cluster
    <3> HIDE DEF new
    <3>7. clusters'[c] = new
      BY <3>1 DEF AdmissionInv, Typed
    <3>8. c \notin known'
      BY <1>0, <1>1, <3>1 DEF Kempt
    <3>9. Kempt(c)'
      BY <1>1, <3>2, <3>3, <3>4, <3>6, <3>7, <3>8 DEF Kempt
    <3> QED  BY <3>1, <3>6, <3>9
  <2>2. ASSUME NEW request \in Requests, EditCluster(c, request)
        PROVE  \E new \in Cluster : clusters' = [clusters EXCEPT ![c] = new] /\ Kempt(c)'
    <3> DEFINE catalog == clusters[c].catalog
               filled == Filled(request.roles, apps[catalog], clusters[c].roles)
               new == [clusters[c] EXCEPT !.roles = filled, !.service = Service(request)]
    <3>1. /\ clusters[c].state \in {"new", "live"}
          /\ Admits(request, apps[catalog], clusters[c].roles, filled)
          /\ clusters' = [clusters EXCEPT ![c].roles = filled, ![c].service = Service(request)]
      BY <2>2 DEF EditCluster
    <3>2. catalog \in Catalogs /\ clusters[c].roles \in Seq(Role)
      BY <1>0, <3>1 DEF Kempt, Cluster
    <3>3. apps[catalog] \in StoredApp /\ apps[catalog] # NoApp
      BY <3>1, <3>2 DEF Admits, AdmissionInv, Typed
    <3>4. filled \in Seq(Role) /\ Fits(filled, apps[catalog])
      BY <1>0, <3>1, <3>2, <3>3, AdmittedFits
    <3>5. Service(request) \in Values \cup {Nil}
      BY <1>0, DocumentsAssumption DEF Service, SettingsTypeOK, ConfigSpec
    <3>6. clusters' = [clusters EXCEPT ![c] = new]
      BY <3>1 DEF AdmissionInv, Typed
    <3> HIDE DEF filled
    <3>7. /\ new \in Cluster /\ new.state = clusters[c].state /\ new.catalog = catalog
          /\ new.roles = filled
      BY <1>0, <3>4, <3>5 DEF Cluster
    <3> HIDE DEF new, catalog
    <3>8. clusters'[c] = new
      BY <3>6 DEF AdmissionInv, Typed
    <3>9. Kempt(c)'
      BY <1>0, <1>1, <3>2, <3>3, <3>4, <3>7, <3>8 DEF Kempt, catalog
    <3> QED  BY <3>6, <3>7, <3>9
  <2>3. ASSUME DeleteCluster(c)
        PROVE  \E new \in Cluster : clusters' = [clusters EXCEPT ![c] = new] /\ Kempt(c)'
    <3>1. CASE clusters[c].state = "live"
      <4> DEFINE new == [clusters[c] EXCEPT !.state = "deleting"]
      <4>1. clusters' = [clusters EXCEPT ![c] = new] /\ UNCHANGED sameApp
        BY <2>3, <3>1 DEF DeleteCluster, AdmissionInv, Typed
      <4>2. /\ new \in Cluster /\ new.state = "deleting"
            /\ new.catalog = clusters[c].catalog /\ new.roles = clusters[c].roles
        BY <1>0 DEF Cluster
      <4> HIDE DEF new
      <4>3. clusters'[c] = new
        BY <4>1 DEF AdmissionInv, Typed
      <4>4. Kempt(c)'
        BY <1>0, <1>1, <3>1, <4>1, <4>2, <4>3 DEF Kempt, Admitted
      <4> QED  BY <4>1, <4>2, <4>4
    <3>2. CASE clusters[c].state # "live"
      <4>1. clusters' = [clusters EXCEPT ![c] = NoCluster] /\ clusters[c].state = "new"
        BY <2>3, <3>2 DEF DeleteCluster
      <4>2. clusters'[c] = NoCluster /\ NoCluster.state = "absent"
        BY <4>1 DEF AdmissionInv, Typed, NoCluster
      <4>3. Kempt(c)'
        BY <1>0, <1>1, <4>1, <4>2 DEF Kempt, Admitted
      <4> QED  BY <4>1, <4>3, NoClusterType
    <3> QED  BY <3>1, <3>2
  <2> QED  BY <2>1, <2>2, <2>3
<1>3. Typed'
  <2>1. changes' \in 0 .. MaxChanges
    BY <1>1, LimitsAssumption DEF AdmissionInv, Typed
  <2>2. clusters' \in [Clusters -> Cluster]
    BY <1>2 DEF AdmissionInv, Typed
  <2> QED  BY <1>1, <2>1, <2>2 DEF AdmissionInv, Typed
<1>4. \A d \in Clusters : Kempt(d)'
  <2>1. \A d \in Clusters \ {c} : clusters'[d] = clusters[d]
    BY <1>2 DEF AdmissionInv, Typed
  <2> QED  BY <1>1, <1>2, <2>1, OthersKempt DEF AdmissionInv
<1> QED  BY <1>3, <1>4

\* What a pass leaves of a cluster: its spec is as it was.
LEMMA MadeType ==
  ASSUME Typed, NEW c \in Clusters, EndPass(c), clusters[c].state = "live"
  PROVE  \E made \in [RoleNames -> RoleCfg \cup {NoRole}], pending \in BOOLEAN :
           clusters' = [clusters EXCEPT ![c] = [clusters[c] EXCEPT !.made = made,
                                                                   !.pending = pending]]
<1> DEFINE wanted == {role.name : role \in {x \in ToSet(working[c]) : x.members > 0}}
           made(leaving) ==
             [r \in RoleNames |->
                IF r \in wanted THEN IF clusters[c].made[r] # NoRole THEN clusters[c].made[r]
                                     ELSE TheOne(working[c], r).cfg
                ELSE IF r \in leaving THEN clusters[c].made[r] ELSE NoRole]
<1>1. PICK leaving \in SUBSET RoleNames, pending \in BOOLEAN :
        clusters' = [clusters EXCEPT ![c].made = made(leaving), ![c].pending = pending]
  BY DEF EndPass
<1>2. working[c] \in Seq(Role) /\ clusters[c].made \in [RoleNames -> RoleCfg \cup {NoRole}]
  BY DEF EndPass, Typed, Cluster
<1>3. ASSUME NEW r \in RoleNames, r \in wanted PROVE TheOne(working[c], r).cfg \in RoleCfg
  <2>1. r \in Names(working[c])
    BY <1>3 DEF Names, ToSet
  <2>2. TheOne(working[c], r) \in Role
    BY <1>2, <2>1, NamedAre
  <2> QED  BY <2>2 DEF Role
<1> HIDE DEF wanted
<1>4. made(leaving) \in [RoleNames -> RoleCfg \cup {NoRole}]
  BY <1>2, <1>3
<1> HIDE DEF made
<1>5. clusters' = [clusters EXCEPT ![c] = [clusters[c] EXCEPT !.made = made(leaving),
                                                              !.pending = pending]]
  BY <1>1 DEF Typed
<1> QED  BY <1>4, <1>5

\* The reconciler works on a cluster.
LEMMA PassStep ==
  ASSUME AdmissionInv, NEW c \in Clusters,
         FirstPass(c) \/ BeginPass(c) \/ EndPass(c) \/ FinalPass(c)
  PROVE  Typed' /\ \A d \in Clusters : Kempt(d)'
<1>0. Kempt(c) /\ clusters[c] \in Cluster /\ Typed
  BY DEF AdmissionInv, Typed
<1>1. UNCHANGED <<apps, sameApp, changes>>
  BY DEF FirstPass, BeginPass, EndPass, FinalPass, ReconcilerKeeps
<1>2. CASE FirstPass(c) \/ BeginPass(c)
  <2> DEFINE catalog == clusters[c].catalog
             new == [clusters[c] EXCEPT !.state = "live"]
  <2>1. clusters[c].state \in {"new", "live"} /\ Registers(c)
    BY <1>2 DEF FirstPass, BeginPass
  <2>2. catalog \in Catalogs
    BY <1>0, <2>1 DEF Kempt
  <2>3. new \in Cluster /\ new.state = "live" /\ new.catalog = catalog
        /\ new.roles = clusters[c].roles
    BY <1>0 DEF Cluster
  <2>4. clusters' = [clusters EXCEPT ![c] = new]
    <3>1. CASE FirstPass(c)
      BY <1>0, <3>1 DEF FirstPass, Typed
    <3>2. CASE BeginPass(c)
      <4>1. new = clusters[c]
        BY <1>0, <3>2 DEF BeginPass, Cluster
      <4> QED  BY <1>0, <3>2, <4>1 DEF BeginPass, Typed
    <3> QED  BY <1>2, <3>1, <3>2
  <2> HIDE DEF new
  <2>5. clusters' \in [Clusters -> Cluster] /\ clusters'[c] = new
        /\ \A d \in Clusters \ {c} : clusters'[d] = clusters[d]
    BY <1>0, <2>3, <2>4 DEF Typed
  <2>6. /\ known' = known \cup {c} /\ refs' \in [Catalogs -> SUBSET Clusters]
        /\ c \in refs'[catalog]
        /\ \A d \in Clusters, x \in Catalogs : d \in refs[x] => d \in refs'[x]
    <3>1. CASE c \in known
      BY <1>0, <2>1, <3>1 DEF Registers, Kempt, Typed
    <3>2. CASE c \notin known
      <4>1. refs' = [refs EXCEPT ![catalog] = refs[catalog] \cup {c}] /\ known' = known \cup {c}
        BY <2>1, <3>2 DEF Registers
      <4> QED  BY <1>0, <2>2, <4>1 DEF Typed
    <3> QED  BY <3>1, <3>2
  <2>7. working' \in [Clusters -> Seq(Role) \cup {Nil}]
    <3>1. clusters[c].roles \in Seq(Role)
      BY <1>0 DEF Cluster
    <3> QED  BY <1>0, <1>2, <3>1 DEF FirstPass, BeginPass, Typed
  <2>8. Typed'
    BY <1>0, <1>1, <2>5, <2>6, <2>7 DEF Typed
  <2>9. Kempt(c)'
    <3> HIDE DEF catalog
    <3>1. Admitted(c)' => Admitted(c)
      BY <1>1, <2>1 DEF Admitted
    <3> QED  BY <1>0, <1>1, <2>2, <2>3, <2>5, <2>6, <3>1 DEF Kempt, catalog
  <2> QED  BY <1>1, <2>5, <2>6, <2>8, <2>9, OthersKempt DEF AdmissionInv
<1>3. CASE EndPass(c)
  <2>1. /\ working' = [working EXCEPT ![c] = Nil] /\ UNCHANGED <<refs, known>>
    BY <1>3 DEF EndPass
  <2>2. \E new \in Cluster :
          /\ clusters' = [clusters EXCEPT ![c] = new]
          /\ new.state = clusters[c].state /\ new.catalog = clusters[c].catalog
          /\ new.roles = clusters[c].roles
    <3>1. CASE clusters[c].state = "live"
      <4>1. PICK made \in [RoleNames -> RoleCfg \cup {NoRole}], pending \in BOOLEAN :
              clusters' = [clusters EXCEPT ![c] = [clusters[c] EXCEPT !.made = made,
                                                                      !.pending = pending]]
        BY <1>0, <1>3, <3>1, MadeType
      <4> DEFINE new == [clusters[c] EXCEPT !.made = made, !.pending = pending]
      <4>2. /\ new \in Cluster /\ new.state = clusters[c].state
            /\ new.catalog = clusters[c].catalog /\ new.roles = clusters[c].roles
        BY <1>0 DEF Cluster
      <4>3. clusters' = [clusters EXCEPT ![c] = new]
        BY <4>1
      <4> HIDE DEF new
      <4> QED  BY <4>2, <4>3
    <3>2. CASE clusters[c].state # "live"
      BY <1>0, <1>3, <3>2 DEF EndPass, Typed
    <3> QED  BY <3>1, <3>2
  <2>3. Typed'
    BY <1>0, <1>1, <2>1, <2>2 DEF Typed
  <2>4. \A d \in Clusters : /\ clusters'[d].state = clusters[d].state
                            /\ clusters'[d].catalog = clusters[d].catalog
                            /\ clusters'[d].roles = clusters[d].roles
    BY <1>0, <2>2 DEF Typed
  <2>5. ASSUME NEW d \in Clusters PROVE Kempt(d)'
    <3>1. Kempt(d)
      BY DEF AdmissionInv
    <3>2. Admitted(d)' => Admitted(d)
      BY <1>1, <2>4 DEF Admitted
    <3> QED  BY <1>1, <2>1, <2>4, <3>1, <3>2 DEF Kempt
  <2> QED  BY <2>3, <2>5
<1>4. CASE FinalPass(c)
  <2> DEFINE catalog == clusters[c].catalog
  <2>1. /\ clusters' = [clusters EXCEPT ![c] = NoCluster] /\ UNCHANGED working
        /\ refs' = [refs EXCEPT ![catalog] = refs[catalog] \ {c}] /\ known' = known \ {c}
        /\ clusters[c].state = "deleting"
    BY <1>4 DEF FinalPass, Unreferenced
  <2>2. catalog \in Catalogs
    BY <1>0, <2>1 DEF Kempt
  <2>3. clusters' \in [Clusters -> Cluster] /\ clusters'[c].state = "absent"
        /\ \A d \in Clusters \ {c} : clusters'[d] = clusters[d]
    BY <1>0, <2>1, NoClusterType DEF Typed, NoCluster
  <2>4. refs' \in [Catalogs -> SUBSET Clusters] /\ known' \subseteq Clusters
        /\ \A d \in Clusters \ {c}, x \in Catalogs : d \in refs[x] => d \in refs'[x]
    BY <1>0, <2>1, <2>2 DEF Typed
  <2>5. Typed'
    BY <1>0, <1>1, <2>1, <2>3, <2>4 DEF Typed
  <2>6. Kempt(c)'
    BY <2>1, <2>3 DEF Kempt, Admitted
  <2> QED  BY <1>1, <2>1, <2>3, <2>4, <2>5, <2>6, OthersKempt DEF AdmissionInv
<1> QED  BY <1>2, <1>3, <1>4

LEMMA AdmissionInit == Init => AdmissionInv
<1> SUFFICES ASSUME Init PROVE AdmissionInv
  OBVIOUS
<1>1. Inv /\ UidInv
  BY InitInv, InitUid DEF Init
<1>2. Defaulted(FirstApp) \in StoredApp
  BY DocumentsAssumption, FirstAppAssumption, DefaultedStored
<1>3. Typed
  BY <1>2, NoClusterType, LimitsAssumption DEF Init, Typed, Catalogs
<1>4. \A c \in Clusters : Kempt(c)
  BY DEF Init, Kempt, Admitted, NoCluster
<1> QED  BY <1>1, <1>3, <1>4 DEF AdmissionInv

LEMMA AdmissionStep == AdmissionInv /\ [Next]_allVars => AdmissionInv'
<1> SUFFICES ASSUME AdmissionInv, [Next]_allVars PROVE AdmissionInv'
  OBVIOUS
<1>1. Inv' /\ UidInv'
  BY SettingsStep, StepInv, StepUid DEF AdmissionInv, Inv
<1>2. CASE UNCHANGED admissionVars
  <2>1. Typed'
    BY <1>2 DEF AdmissionInv, Typed, admissionVars
  <2>2. \A c \in Clusters : Kempt(c)'
    BY <1>2 DEF AdmissionInv, Kempt, Admitted, admissionVars
  <2> QED  BY <1>1, <2>1, <2>2 DEF AdmissionInv
<1>3. CASE Restart
  <2>1. Typed'
    BY <1>3 DEF Restart, AdmissionInv, Typed
  <2>2. \A c \in Clusters : Kempt(c)'
    BY <1>3 DEF Restart, AdmissionInv, Kempt, Admitted
  <2> QED  BY <1>1, <2>1, <2>2 DEF AdmissionInv
<1>4. ASSUME NEW catalog \in Catalogs,
             DeleteApp(catalog) \/ \E app \in NodeApps : PutApp(catalog, app)
      PROVE  AdmissionInv'
  BY <1>1, <1>4, AppStep DEF AdmissionInv
<1>5. ASSUME NEW c \in Clusters,
             \/ \E request \in Requests : CreateCluster(c, request) \/ EditCluster(c, request)
             \/ DeleteCluster(c)
      PROVE  AdmissionInv'
  BY <1>1, <1>5, ClusterStep DEF AdmissionInv
<1>6. ASSUME NEW c \in Clusters, FirstPass(c) \/ BeginPass(c) \/ EndPass(c) \/ FinalPass(c)
      PROVE  AdmissionInv'
  BY <1>1, <1>6, PassStep DEF AdmissionInv
<1>7. UNCHANGED allVars => UNCHANGED admissionVars
  BY DEF allVars
<1> QED  BY <1>2, <1>3, <1>4, <1>5, <1>6, <1>7 DEF Next

-----------------------------------------------------------------------------
(* The master key. *)

\* A copy with the stored version has the stored key, if there is one.
Keyed ==
  /\ cachedConfig.rv = config.rv => cachedConfig.spec.key = config.spec.key
  /\ phase # "idle" /\ cr.res.rv = config.rv /\ config.spec.key # NoKey =>
       cr.res.spec.key = config.spec.key

KeyStays == config.live /\ config.spec.key # NoKey => config'.spec.key = config.spec.key

LEMMA StoresKey ==
  ASSUME SettingsTypeOK, NEW res \in Config, Stores(res)
  PROVE  /\ res.spec.key # NoKey => config'.spec.key = res.spec.key
         /\ config' = config \/ config'.rv = config.rv + 1
<1> DEFINE key == Populated(res.spec.key)
           new == [res EXCEPT !.spec.key = key]
<1>1. config' = IF new = config THEN config ELSE [new EXCEPT !.rv = config.rv + 1]
  BY DEF Stores
<1>2. new.spec.key = key
  BY DEF Config, ConfigSpec
<1>3. new \in Config
  BY StoresKeeps DEF Config, ConfigSpec, Populated, SettingsTypeOK
<1>4. config'.spec.key = key
  <2> HIDE DEF new
  <2> QED  BY <1>1, <1>2, <1>3 DEF Config
<1>5. config' = config \/ config'.rv = config.rv + 1
  BY StoresVersion
<1> QED  BY <1>4, <1>5 DEF Populated

\* A new version makes the copies old.
LEMMA CopiesOld ==
  ASSUME SettingsTypeOK, UidInv, Keyed, config' = config \/ config'.rv = config.rv + 1,
         UNCHANGED cachedConfig, phase' = "idle" \/ UNCHANGED <<phase, cr>>
  PROVE  Keyed'
<1>1. CASE config' = config
  BY <1>1 DEF Keyed
<1>2. CASE config'.rv = config.rv + 1
  BY <1>2, Fields DEF UidInv, Versions, Keyed
<1> QED  BY <1>1, <1>2

LEMMA UserKey ==
  ASSUME SettingsTypeOK, UidInv, Keyed, NEW any \in BOOLEAN,
         CreateConfig \/ EditConfig(any) \/ DeleteConfig(any)
  PROVE  Keyed' /\ (any => KeyStays)
<1>0. UNCHANGED <<cachedConfig, phase, cr>> /\ config \in Config /\ config.rv \in Nat
  BY Fields DEF CreateConfig, EditConfig, DeleteConfig, UserKeeps, SettingsTypeOK
<1>1. CASE CreateConfig
  <2>1. config' = config \/ config'.rv = config.rv + 1
    <3>1. PICK value \in Values :
            Stores([Gone EXCEPT !.live = TRUE, !.id = config.id + 1, !.spec.setting = value])
      BY <1>1 DEF CreateConfig
    <3>2. [Gone EXCEPT !.live = TRUE, !.id = config.id + 1, !.spec.setting = value] \in Config
      <4>1. ASSUME NEW r \in Config, NEW n \in Nat
            PROVE  [r EXCEPT !.live = TRUE, !.id = n, !.spec.setting = value] \in Config
        BY DEF Config, ConfigSpec
      <4>2. config.id + 1 \in Nat
        BY Fields
      <4> QED  BY <4>1, <4>2, SpecTypes
    <3> QED  BY <3>1, <3>2, StoresKey
  <2> QED  BY <1>0, <1>1, <2>1, CopiesOld DEF CreateConfig, KeyStays
<1>2. CASE EditConfig(any)
  <2>1. PICK value \in Values, rekey \in BOOLEAN :
          /\ rekey => ~any \/ config.spec.key = NoKey
          /\ Stores([config EXCEPT !.spec = [key |-> IF rekey THEN NoKey ELSE @.key,
                                             setting |-> value]])
    BY <1>2 DEF EditConfig
  <2> DEFINE res == [config EXCEPT !.spec = [key |-> IF rekey THEN NoKey ELSE config.spec.key,
                                             setting |-> value]]
  <2>2. res \in Config /\ res.spec.key = IF rekey THEN NoKey ELSE config.spec.key
    BY <1>0 DEF Config, ConfigSpec, NoKey
  <2>3. Stores(res)
    BY <2>1
  <2> HIDE DEF res
  <2>4. /\ res.spec.key # NoKey => config'.spec.key = res.spec.key
        /\ config' = config \/ config'.rv = config.rv + 1
    BY <2>2, <2>3, StoresKey
  <2> QED  BY <1>0, <2>1, <2>2, <2>4, CopiesOld DEF KeyStays
<1>3. CASE DeleteConfig(any)
  <2>1. config' = [config EXCEPT !.rv = config.rv + 1, !.deleting = TRUE,
                                 !.live = config.finalizer]
    BY <1>3 DEF DeleteConfig
  <2>2. config'.spec.key = config.spec.key /\ config'.rv = config.rv + 1
    BY <1>0, <2>1 DEF Config
  <2> QED  BY <1>0, <2>2, CopiesOld DEF KeyStays
<1> QED  BY <1>1, <1>2, <1>3

\* What a pass begins with: the cached resource, or the one that its patch left.
LEMMA BeginKey ==
  ASSUME SettingsTypeOK, UidInv, Keyed,
         \/ BeginGone \/ BeginDeleting \/ BeginStale \/ BeginNew \/ BeginKnown
         \/ BeginRecovered \/ BeginPatched \/ BeginUnpatched
  PROVE  Keyed' /\ KeyStays
<1> DEFINE Took(spec) == phase' # "idle" => cr'.res.rv = cachedConfig.rv /\ cr'.res.spec = spec
<1>1. UNCHANGED cachedConfig /\ phase = "idle"
  BY DEF BeginGone, BeginDeleting, BeginStale, BeginNew, BeginKnown,
     BeginRecovered, BeginPatched, BeginUnpatched, Recovers, Processes, Begins, PassKeeps
<1>2. /\ cachedConfig \in Config /\ Kept \in Config /\ config \in Config
      /\ Kept.rv = cachedConfig.rv /\ Kept.spec = cachedConfig.spec
  BY KeptType DEF SettingsTypeOK, Kept, Config
<1>3. ASSUME NEW res \in Config, res.rv = cachedConfig.rv, Adds(res) PROVE Took(res.spec)
  <2>1. Takes([res EXCEPT !.ready = TRUE], ~res.ready, TRUE) /\ (~res.ready) \in BOOLEAN
    BY <1>3 DEF Adds
  <2>2. [res EXCEPT !.ready = TRUE].rv = cachedConfig.rv
        /\ [res EXCEPT !.ready = TRUE].spec = res.spec
    BY <1>3 DEF Config
  <2> QED  BY <2>1, <2>2, TakesCopy
<1>4. ASSUME UNCHANGED config,
             \/ Took(cachedConfig.spec)
             \/ cachedConfig.spec.key = NoKey
                  /\ (phase' # "idle" => cr'.res.rv = cachedConfig.rv)
      PROVE  Keyed' /\ KeyStays
  BY <1>1, <1>4 DEF Keyed, KeyStays
<1>5. CASE BeginGone
  BY <1>1, <1>4, <1>5 DEF BeginGone, Begins, stored
<1>6. CASE BeginDeleting
  <2>1. [cachedConfig EXCEPT !.finalizer = FALSE].rv = cachedConfig.rv
        /\ [cachedConfig EXCEPT !.finalizer = FALSE].spec = cachedConfig.spec
    BY <1>2 DEF Config
  <2>2. Took(cachedConfig.spec)
    BY <1>6, <2>1, TakesCopy DEF BeginDeleting
  <2> QED  BY <1>4, <1>6, <2>2 DEF BeginDeleting, stored
<1>7. CASE BeginStale
  BY <1>2, <1>4, <1>7, TakesCopy DEF BeginStale, stored
<1>8. CASE BeginNew
  BY <1>2, <1>4, <1>8, TakesCopy DEF BeginNew, stored
<1>9. CASE BeginKnown
  BY <1>2, <1>3, <1>4, <1>9 DEF BeginKnown, stored
<1>10. CASE BeginRecovered
  BY <1>2, <1>3, <1>4, <1>10 DEF BeginRecovered, stored
<1>11. CASE BeginPatched
  <2>1. CASE config.spec.key = NoKey
    <3>1. Stores(config)
      BY <1>11, <2>1 DEF BeginPatched
    <3>2. config' \in Config /\ (config' = config \/ config'.rv = config.rv + 1)
      BY <1>2, <3>1, StoresKey, StoresKeeps
    <3>3. Took(config'.spec)
      <4>1. [Kept EXCEPT !.spec = config'.spec] \in Config
            /\ [Kept EXCEPT !.spec = config'.spec].rv = cachedConfig.rv
            /\ [Kept EXCEPT !.spec = config'.spec].spec = config'.spec
        BY <1>2, <3>2 DEF Config
      <4> QED  BY <1>3, <1>11, <4>1 DEF BeginPatched
    <3>4. (cachedConfig.rv = config.rv => cachedConfig.spec.key = config.spec.key)'
      BY <1>1, <3>2, Fields DEF UidInv, Versions, Keyed
    <3> QED  BY <2>1, <3>3, <3>4 DEF Keyed, KeyStays
  <2>2. CASE config.spec.key # NoKey
    <3>1. UNCHANGED config
      BY <1>11, <2>2 DEF BeginPatched, stored
    <3>2. [Kept EXCEPT !.spec = config'.spec] \in Config
          /\ [Kept EXCEPT !.spec = config'.spec].rv = cachedConfig.rv
      BY <1>2, <3>1 DEF Config
    <3>3. phase' # "idle" => cr'.res.rv = cachedConfig.rv
      BY <1>3, <1>11, <3>2 DEF BeginPatched
    <3> QED  BY <1>4, <1>11, <3>1, <3>3 DEF BeginPatched
  <2> QED  BY <2>1, <2>2
<1>12. CASE BeginUnpatched
  <2>1. keysMade' \in Nat /\ UNCHANGED config /\ cachedConfig.spec.key = NoKey
    BY <1>12 DEF BeginUnpatched, SettingsTypeOK
  <2>2. [Kept EXCEPT !.spec.key = keysMade'] \in Config
        /\ [Kept EXCEPT !.spec.key = keysMade'].rv = cachedConfig.rv
    BY <1>2, <2>1 DEF Config, ConfigSpec
  <2>3. phase' # "idle" => cr'.res.rv = cachedConfig.rv
    BY <1>3, <1>12, <2>2 DEF BeginUnpatched
  <2> QED  BY <1>4, <2>1, <2>3
<1> QED  BY <1>5, <1>6, <1>7, <1>8, <1>9, <1>10, <1>11, <1>12

\* The finalizer is written with the spec of the pass, which has the stored key.
LEMMA WriteKey ==
  ASSUME SettingsTypeOK, UidInv, Keyed,
         Announce \/ WriteStatus \/ WriteUnheard \/ WriteFinalizer \/ Refetch \/ GiveUp
  PROVE  Keyed' /\ KeyStays
<1>0. /\ UNCHANGED cachedConfig /\ config \in Config /\ cr \in Copy /\ cr.res \in Config
      /\ config.rv \in Nat
  BY Fields DEF Announce, WriteStatus, WriteUnheard, WriteFinalizer, Refetch, GiveUp,
     WriteKeeps, SettingsTypeOK
<1>1. CASE Announce
  <2>1. cr' = [cr EXCEPT !.res.uid = fresh'] /\ phase # "idle" /\ UNCHANGED config
    BY <1>1 DEF Announce, stored
  <2>2. cr'.res.rv = cr.res.rv /\ cr'.res.spec = cr.res.spec
    BY <1>0, <2>1 DEF Copy, Config
  <2> QED  BY <1>0, <2>1, <2>2 DEF Keyed, KeyStays
<1>2. CASE WriteStatus \/ WriteUnheard
  <2>1. phase = "write" /\ InDate /\ StatusStored
    BY <1>2 DEF WriteStatus, WriteUnheard
  <2>2. config'.spec = config.spec /\ config'.rv = config.rv + 1
    BY <1>0, <2>1 DEF StatusStored, Config
  <2>3. CASE phase' = "idle" \/ UNCHANGED cr
    <3>1. cachedConfig.rv # config'.rv /\ cr.res.rv # config'.rv
      BY <2>1, <2>2, Fields DEF UidInv, Versions
    <3> QED  BY <1>0, <2>2, <2>3, <3>1 DEF Keyed, KeyStays
  <2>4. CASE phase' # "idle" /\ ~UNCHANGED cr
    <3>1. cr' = [cr EXCEPT !.dirty = FALSE, !.res.rv = config'.rv]
      BY <1>2, <2>4 DEF WriteStatus, WriteUnheard
    <3>2. cr'.res.spec = cr.res.spec
      BY <1>0, <3>1 DEF Copy, Config
    <3>3. cachedConfig.rv # config'.rv
      BY <2>2, Fields DEF UidInv, Versions
    <3> QED  BY <1>0, <2>1, <2>2, <3>2, <3>3 DEF Keyed, KeyStays, InDate
  <2> QED  BY <2>3, <2>4
<1>3. CASE WriteFinalizer
  <2> DEFINE res == [config EXCEPT !.finalizer = cr.res.finalizer, !.spec = cr.res.spec,
                                   !.live = cr.res.finalizer \/ ~config.deleting]
  <2>1. res \in Config /\ res.spec = cr.res.spec
    BY <1>0 DEF Config
  <2>2. Stores(res) /\ phase = "finalizer" /\ phase' = "idle" /\ cr.res.rv = config.rv
    BY <1>3 DEF WriteFinalizer, InDate
  <2> HIDE DEF res
  <2>3. /\ res.spec.key # NoKey => config'.spec.key = res.spec.key
        /\ config' = config \/ config'.rv = config.rv + 1
    BY <2>1, <2>2, StoresKey
  <2>4. KeyStays
    BY <2>1, <2>2, <2>3 DEF Keyed, KeyStays
  <2> QED  BY <1>0, <2>2, <2>3, <2>4, CopiesOld
<1>4. CASE Refetch
  <2>1. /\ cr' = [cr EXCEPT !.res = [config EXCEPT !.uid = cr.res.uid, !.ready = cr.res.ready,
                                                   !.finalizer = cr.res.finalizer]]
        /\ UNCHANGED config
    BY <1>4 DEF Refetch, stored
  <2>2. cr'.res.spec = config.spec
    BY <1>0, <2>1 DEF Copy, Config
  <2> QED  BY <1>0, <2>1, <2>2 DEF Keyed, KeyStays
<1>5. CASE GiveUp
  BY <1>0, <1>5 DEF GiveUp, stored, Keyed, KeyStays
<1> QED  BY <1>1, <1>2, <1>3, <1>4, <1>5

LEMMA OtherKey ==
  ASSUME SettingsTypeOK, UidInv, Keyed, CacheMoves \/ RestartSettings
  PROVE  Keyed' /\ KeyStays
BY DEF CacheMoves, RestartSettings, stored, Keyed, KeyStays

\* The key that the resource has stays through each step but an edit without clusters.
LEMMA KeyStep ==
  ASSUME SettingsTypeOK, UidInv, Keyed, [Next]_allVars
  PROVE  Keyed' /\ (KeyStays \/ (EditConfig(AnyClusters) /\ ~AnyClusters))
<1>1. CASE UNCHANGED vars
  BY <1>1 DEF vars, Keyed, KeyStays
<1>2. CASE Pass
  <2>1. CASE \/ BeginGone \/ BeginDeleting \/ BeginStale \/ BeginNew \/ BeginKnown
             \/ BeginRecovered \/ BeginPatched \/ BeginUnpatched
    BY <2>1, BeginKey
  <2>2. CASE Announce \/ WriteStatus \/ WriteUnheard \/ WriteFinalizer \/ Refetch \/ GiveUp
    BY <2>2, WriteKey
  <2> QED  BY <1>2, <2>1, <2>2 DEF Pass
<1>3. CASE CacheMoves \/ Restart
  BY <1>3, OtherKey DEF Restart
<1>4. CASE CreateConfig
  BY <1>4, UserKey
<1>5. CASE EditConfig(AnyClusters) \/ DeleteConfig(AnyClusters)
  <2>1. AnyClusters \in BOOLEAN
    BY DEF AnyClusters
  <2>2. Keyed' /\ (AnyClusters => KeyStays)
    BY <1>5, <2>1, UserKey
  <2>3. DeleteConfig(AnyClusters) => KeyStays
    BY DEF DeleteConfig, KeyStays, SettingsTypeOK, Config
  <2> QED  BY <1>5, <2>2, <2>3
<1>6. Pass \/ CacheMoves \/ Restart \/ CreateConfig
        \/ EditConfig(AnyClusters) \/ DeleteConfig(AnyClusters) \/ UNCHANGED vars
  <2>1. UNCHANGED allVars => UNCHANGED vars
    BY DEF allVars, vars
  <2>2. ASSUME NEW catalog \in Catalogs,
               DeleteApp(catalog) \/ \E app \in NodeApps : PutApp(catalog, app)
        PROVE  UNCHANGED vars
    BY <2>2 DEF DeleteApp, PutApp, Changes
  <2>3. ASSUME NEW c \in Clusters,
               \/ \E request \in Requests : CreateCluster(c, request) \/ EditCluster(c, request)
               \/ DeleteCluster(c) \/ FirstPass(c) \/ BeginPass(c) \/ EndPass(c) \/ FinalPass(c)
        PROVE  UNCHANGED vars
    BY <2>3 DEF CreateCluster, EditCluster, DeleteCluster, Changes, FirstPass, BeginPass,
       EndPass, FinalPass, ReconcilerKeeps
  <2> QED  BY <2>1, <2>2, <2>3 DEF Next
<1> QED  BY <1>1, <1>2, <1>3, <1>4, <1>5, <1>6

LEMMA KeyInit == Init => Keyed
BY DEF Init, SettingsInit, Keyed

\* While a processed cluster is noted, the key is given back or left out.
LEMMA KeyKeptStep ==
  ASSUME AdmissionInv, Keyed, [Next]_allVars,
         config.live, config'.live, config.spec.key \notin {NoKey, config'.spec.key}
  PROVE  \A c \in Clusters : ~Processed(c)
<1>1. ~KeyStays
  BY DEF KeyStays
<1>2. ~AnyClusters
  BY <1>1, KeyStep DEF AdmissionInv, Inv
<1>3. ASSUME NEW c \in Clusters, Processed(c) PROVE FALSE
  <2>1. /\ c \in known /\ clusters[c].catalog \in Catalogs
        /\ c \in refs[clusters[c].catalog]
    BY <1>3 DEF Processed, AdmissionInv, Kempt
  <2> QED  BY <1>2, <2>1 DEF AnyClusters
<1> QED  BY <1>3

\* An app in use is only replaced by what is stored already.
LEMMA AppUnchangedStep ==
  ASSUME AdmissionInv, [Next]_allVars, NEW c \in sameApp, Processed(c)
  PROVE  c \in sameApp'
<1>0. c \in Clusters /\ Kempt(c)
  BY DEF AdmissionInv, Typed
<1>1. LET catalog == clusters[c].catalog
      IN  catalog \in Catalogs /\ InUse(catalog) /\ apps[catalog] \in StoredApp
          /\ apps[catalog] # NoApp
  BY <1>0 DEF Processed, Kempt, Admitted, InUse, AdmissionInv, Typed
<1>2. ASSUME NEW catalog \in Catalogs, DeleteApp(catalog) PROVE c \in sameApp'
  BY <1>1, <1>2 DEF DeleteApp
<1>3. ASSUME NEW catalog \in Catalogs, NEW app \in NodeApps, PutApp(catalog, app)
      PROVE  c \in sameApp'
  <2>1. CASE clusters[c].catalog # catalog
    BY <1>3, <2>1 DEF PutApp
  <2>2. CASE clusters[c].catalog = catalog
    <3>1. AppValid(app) /\ Compared(app) = [apps[catalog] EXCEPT !.package = Nil]
          /\ apps[catalog] \in StoredApp
      BY <1>1, <1>3, <2>2 DEF PutApp
    <3>2. Defaulted(app) = apps[catalog]
      BY <3>1, DocumentsAssumption, ComparedSame
    <3>3. apps' = apps
      BY <1>3, <3>2 DEF PutApp, AdmissionInv, Typed
    <3> QED  BY <1>3, <3>3 DEF PutApp
  <2> QED  BY <2>1, <2>2
<1>4. ASSUME NEW d \in Clusters,
             \/ \E request \in Requests : CreateCluster(d, request) \/ EditCluster(d, request)
             \/ DeleteCluster(d) \/ FirstPass(d) \/ BeginPass(d) \/ EndPass(d) \/ FinalPass(d)
      PROVE  c \in sameApp'
  BY <1>4 DEF CreateCluster, EditCluster, DeleteCluster, FirstPass, BeginPass, EndPass,
     FinalPass, ReconcilerKeeps
<1>5. CASE UNCHANGED admissionVars \/ Restart \/ UNCHANGED allVars
  BY <1>5 DEF admissionVars, allVars, Restart
<1> QED  BY <1>2, <1>3, <1>4, <1>5 DEF Next

-----------------------------------------------------------------------------
(* The limit of members is kept. *)

\* Nobody asks for so many members of one role that the sum of counts could get past the
\* largest int32 before it is found to be above the limit.
SmallCounts ==
  /\ \A request \in Requests : \A role \in ToSet(request.roles) :
       role.members # Nil => role.members <= IntMax - MaxMembers
  /\ \A app \in NodeApps : \A role \in ToSet(app.roles) : role.min <= IntMax - MaxMembers

SmallApp(app) == app # NoApp => \A role \in ToSet(app.roles) : role.min <= IntMax - MaxMembers

LimitInv ==
  /\ AdmissionInv
  /\ \A catalog \in Catalogs : SmallApp(apps[catalog])
  /\ \A c \in Clusters : Limited(clusters[c].roles)

LEMMA DefaultedSmall ==
  ASSUME SmallCounts, NEW app \in NodeApps
  PROVE  SmallApp(Defaulted(app))
<1>1. app \in NodeApp /\ app.roles \in Seq(AppRole)
  BY DocumentsAssumption DEF NodeApp
<1>2. Defaulted(app).roles = RolesDefaulted(app)
  BY <1>1 DEF Defaulted, NodeApp
<1>3. /\ DOMAIN RolesDefaulted(app) = DOMAIN app.roles
      /\ \A i \in DOMAIN app.roles : RolesDefaulted(app)[i].min = app.roles[i].min
  BY <1>1 DEF RolesDefaulted, AppRole
<1>4. \A i \in DOMAIN app.roles : app.roles[i].min <= IntMax - MaxMembers
  BY DEF SmallCounts, ToSet
<1> QED  BY <1>2, <1>3, <1>4 DEF SmallApp, ToSet

LEMMA AdmittedLimited ==
  ASSUME SmallCounts, SettingsTypeOK, NEW app \in StoredApp, SmallApp(app), app # NoApp,
         NEW request \in Requests, NEW prev \in Seq(Role), NEW filled,
         Admits(request, app, prev, filled)
  PROVE  Limited(filled)
<1> DEFINE roles == request.roles
           n == Len(roles)
<1>1. roles \in Seq(AskedRole) /\ app.roles \in Seq(AppRole)
  BY DocumentsAssumption DEF StoredApp, NodeApp
<1>2. n \in Nat /\ DOMAIN roles = 1 .. n
  BY <1>1
<1>3. /\ RolesOk(roles, app) /\ filled = Filled(roles, app, prev)
      /\ WithinLimit(filled) /\ ClaimsOk(filled)
  BY DEF Admits
<1>4. /\ filled \in Seq(Role) /\ Len(filled) = n
      /\ \A i \in 1 .. n :
           filled[i].members = IF roles[i].members = Nil
                               THEN TheOne(app.roles, roles[i].name).min
                               ELSE roles[i].members
  BY <1>1, <1>3, FilledRoles
<1>5. DOMAIN filled = 1 .. n
  BY <1>4
<1>6. ASSUME NEW i \in 1 .. n PROVE filled[i].members <= IntMax - MaxMembers
  <2>1. roles[i] \in ToSet(roles) /\ roles[i].name \in Names(app.roles)
    BY <1>2, <1>3 DEF RolesOk, Names, ToSet
  <2>2. TheOne(app.roles, roles[i].name) \in ToSet(app.roles)
    BY <2>1, NamedAre DEF ToSet
  <2> QED  BY <1>4, <2>1, <2>2 DEF SmallCounts, SmallApp
<1> QED  BY <1>3, <1>4, <1>5, <1>6, SumsLimit

\* The spec of a cluster is what has been admitted for it.
LEMMA RolesAreAdmitted ==
  ASSUME AdmissionInv, [Next]_allVars, NEW c \in Clusters
  PROVE  \/ clusters'[c].roles = clusters[c].roles
         \/ clusters'[c].roles = <<>>
         \/ \E request \in Requests, catalog \in Catalogs, prev \in Seq(Role) :
              Admits(request, apps[catalog], prev, clusters'[c].roles)
<1>1. clusters \in [Clusters -> Cluster]
  BY DEF AdmissionInv, Typed
<1>2. CASE UNCHANGED clusters
  BY <1>2
<1>3. ASSUME NEW d \in Clusters, NEW request \in Requests, CreateCluster(d, request)
      PROVE  \/ clusters'[c] = clusters[c]
             \/ \E catalog \in Catalogs : Admits(request, apps[catalog], <<>>, clusters'[c].roles)
  <2> DEFINE catalog == FindApp(request.catalog)
             filled == Filled(request.roles, apps[catalog], <<>>)
             new == [NoCluster EXCEPT !.state = "new", !.catalog = catalog,
                                      !.roles = filled, !.service = Service(request)]
  <2>1. Admits(request, apps[catalog], <<>>, filled) /\ clusters' = [clusters EXCEPT ![d] = new]
    BY <1>3 DEF CreateCluster
  <2>2. new.roles = filled
    BY DEF NoCluster
  <2>3. catalog \in Catalogs
    BY DEF FindApp, Catalogs
  <2> HIDE DEF filled, catalog, new
  <2> QED  BY <1>1, <2>1, <2>2, <2>3
<1>4. ASSUME NEW d \in Clusters, NEW request \in Requests, EditCluster(d, request)
      PROVE  \/ clusters'[c] = clusters[c]
             \/ \E catalog \in Catalogs, prev \in Seq(Role) :
                  Admits(request, apps[catalog], prev, clusters'[c].roles)
  <2> DEFINE catalog == clusters[d].catalog
             filled == Filled(request.roles, apps[catalog], clusters[d].roles)
  <2>1. /\ clusters[d].state \in {"new", "live"}
        /\ Admits(request, apps[catalog], clusters[d].roles, filled)
        /\ clusters' = [clusters EXCEPT ![d].roles = filled, ![d].service = Service(request)]
    BY <1>4 DEF EditCluster
  <2>2. catalog \in Catalogs /\ clusters[d].roles \in Seq(Role)
    BY <2>1 DEF AdmissionInv, Typed, Kempt, Cluster
  <2>3. c = d => clusters'[c].roles = filled
    BY <1>1, <2>1 DEF Cluster
  <2>4. c # d => clusters'[c] = clusters[c]
    BY <1>1, <2>1
  <2> HIDE DEF filled, catalog
  <2> QED  BY <2>1, <2>2, <2>3, <2>4
<1>5. ASSUME NEW d \in Clusters,
             DeleteCluster(d) \/ FirstPass(d) \/ BeginPass(d) \/ EndPass(d) \/ FinalPass(d)
      PROVE  clusters'[c].roles = clusters[c].roles \/ clusters'[c].roles = <<>>
  <2>1. NoCluster.roles = <<>>
    BY DEF NoCluster
  <2>2. CASE DeleteCluster(d) \/ FirstPass(d) \/ BeginPass(d) \/ FinalPass(d)
    <3>1. \/ UNCHANGED clusters
          \/ clusters' = [clusters EXCEPT ![d] = NoCluster]
          \/ \E state : clusters' = [clusters EXCEPT ![d].state = state]
      BY <2>2 DEF DeleteCluster, FirstPass, BeginPass, FinalPass
    <3>2. ASSUME NEW state, clusters' = [clusters EXCEPT ![d].state = state]
          PROVE  clusters'[c].roles = clusters[c].roles
      BY <1>1, <3>2 DEF Cluster
    <3>3. CASE clusters' = [clusters EXCEPT ![d] = NoCluster]
      <4>1. clusters'[c] = clusters[c] \/ clusters'[c] = NoCluster
        BY <1>1, <3>3
      <4> QED  BY <2>1, <4>1
    <3> QED  BY <3>1, <3>2, <3>3
  <2>3. CASE EndPass(d)
    <3>1. CASE clusters[d].state = "live"
      <4>1. PICK made, pending :
              clusters' = [clusters EXCEPT ![d] = [clusters[d] EXCEPT !.made = made,
                                                                      !.pending = pending]]
        BY <2>3, <3>1, MadeType DEF AdmissionInv
      <4> QED  BY <1>1, <4>1 DEF Cluster
    <3> QED  BY <2>3, <3>1 DEF EndPass
  <2> QED  BY <1>5, <2>2, <2>3
<1>6. <<>> \in Seq(Role)
  OBVIOUS
<1>7. CASE \E d \in Clusters :
             \/ \E request \in Requests : CreateCluster(d, request) \/ EditCluster(d, request)
             \/ DeleteCluster(d) \/ FirstPass(d) \/ BeginPass(d) \/ EndPass(d) \/ FinalPass(d)
  BY <1>3, <1>4, <1>5, <1>6, <1>7
<1>8. ASSUME NEW catalog \in Catalogs,
             DeleteApp(catalog) \/ \E app \in NodeApps : PutApp(catalog, app)
      PROVE  UNCHANGED clusters
  BY <1>8 DEF DeleteApp, PutApp
<1>9. UNCHANGED admissionVars \/ UNCHANGED allVars \/ Restart => UNCHANGED clusters
  BY DEF admissionVars, allVars, Restart
<1> QED  BY <1>2, <1>7, <1>8, <1>9 DEF Next

LEMMA LimitStep == SmallCounts /\ LimitInv /\ [Next]_allVars => LimitInv'
<1> SUFFICES ASSUME SmallCounts, LimitInv, [Next]_allVars PROVE LimitInv'
  OBVIOUS
<1>1. AdmissionInv /\ AdmissionInv' /\ SettingsTypeOK /\ Typed
  BY AdmissionStep DEF LimitInv, AdmissionInv, Inv
<1>2. ASSUME NEW catalog \in Catalogs PROVE SmallApp(apps'[catalog])
  <2>1. apps \in [Catalogs -> StoredApp \cup {NoApp}] /\ SmallApp(apps[catalog])
    BY <1>1 DEF Typed, LimitInv
  <2>2. ASSUME NEW other \in Catalogs,
               DeleteApp(other) \/ \E app \in NodeApps : PutApp(other, app)
        PROVE  SmallApp(apps'[catalog])
    <3>1. CASE DeleteApp(other)
      BY <2>1, <3>1 DEF DeleteApp, SmallApp
    <3>2. ASSUME NEW app \in NodeApps, PutApp(other, app)
          PROVE  SmallApp(apps'[catalog])
      <4>1. apps' = [apps EXCEPT ![other] = Defaulted(app)] /\ SmallApp(Defaulted(app))
        BY <3>2, DefaultedSmall DEF PutApp
      <4> QED  BY <2>1, <4>1
    <3> QED  BY <2>2, <3>1, <3>2
  <2>3. ASSUME NEW c \in Clusters,
               \/ \E request \in Requests : CreateCluster(c, request) \/ EditCluster(c, request)
               \/ DeleteCluster(c) \/ FirstPass(c) \/ BeginPass(c) \/ EndPass(c)
               \/ FinalPass(c)
        PROVE  UNCHANGED apps
    BY <2>3 DEF CreateCluster, EditCluster, DeleteCluster, FirstPass, BeginPass, EndPass,
                FinalPass, ReconcilerKeeps
  <2>4. UNCHANGED admissionVars \/ UNCHANGED allVars \/ Restart => UNCHANGED apps
    BY DEF admissionVars, allVars, Restart
  <2> QED  BY <2>1, <2>2, <2>3, <2>4 DEF Next
<1>3. ASSUME NEW c \in Clusters PROVE Limited(clusters'[c].roles)
  <2>1. Limited(clusters[c].roles)
    BY DEF LimitInv
  <2>2. Limited(<<>>)
    BY NothingLimited
  <2>3. ASSUME NEW request \in Requests, NEW catalog \in Catalogs, NEW prev \in Seq(Role),
               Admits(request, apps[catalog], prev, clusters'[c].roles)
        PROVE  Limited(clusters'[c].roles)
    <3>1. apps[catalog] # NoApp /\ apps[catalog] \in StoredApp /\ SmallApp(apps[catalog])
      BY <1>1, <2>3 DEF Admits, Typed, LimitInv
    <3> QED  BY <1>1, <2>3, <3>1, AdmittedLimited
  <2> QED  BY <1>1, <2>1, <2>2, <2>3, RolesAreAdmitted
<1> QED  BY <1>1, <1>2, <1>3 DEF LimitInv

LEMMA LimitInit == SmallCounts /\ Init => LimitInv
<1> SUFFICES ASSUME SmallCounts, Init PROVE LimitInv
  OBVIOUS
<1>1. AdmissionInv
  BY AdmissionInit
<1>2. \A c \in Clusters : clusters[c].roles = <<>>
  BY DEF Init, NoCluster
<1>3. SmallApp(Defaulted(FirstApp))
  BY DocumentsAssumption, DefaultedSmall
<1>4. \A catalog \in Catalogs : SmallApp(apps[catalog])
  BY <1>3 DEF Init, SmallApp
<1> QED  BY <1>1, <1>2, <1>4, NothingLimited DEF LimitInv

-----------------------------------------------------------------------------
(* The results. *)

\* Everything keeps its type; the apps stored are valid, with their defaults filled in.
THEOREM AdmissionTypes == Spec => []TypeOK
<1>1. AdmissionInv => TypeOK
  <2> SUFFICES ASSUME AdmissionInv PROVE TypeOK
    OBVIOUS
  <2>1. \A catalog \in Catalogs :
          apps[catalog] # NoApp =>
            /\ ~apps[catalog].logSize /\ apps[catalog].package = Nil
            /\ \A role \in ToSet(apps[catalog].roles) : role.package # Nil
    BY DEF AdmissionInv, Typed, StoredApp
  <2>2. ASSUME NEW c \in Clusters
        PROVE  /\ clusters[c].state \in {"absent", "new", "live", "deleting"}
               /\ clusters[c].catalog \in Catalogs \cup {Nil}
               /\ clusters[c].service \in Values \cup {Nil}
               /\ ToSet(clusters[c].roles) \subseteq Role /\ clusters[c].pending \in BOOLEAN
    BY DEF AdmissionInv, Typed, Cluster, ToSet
  <2> QED  BY <2>1, <2>2 DEF TypeOK, AdmissionInv, Inv, Typed
<1> QED  BY <1>1, AdmissionInit, AdmissionStep, PTL DEF Spec

\* The ports of a role are those of all its entries, as there is at most one.
THEOREM PortsFound == Spec => []PortsComplete
<1>1. ASSUME AdmissionInv, NEW catalog \in Catalogs, NEW r \in RoleNames,
             apps[catalog] # NoApp
      PROVE  PortsForRole(apps[catalog], r)
               = UNION {rs.services : rs \in Named(apps[catalog].roleServices, r)}
  <2> DEFINE list == apps[catalog].roleServices
             entries == {i \in DOMAIN list : list[i].name = r}
  <2>1. apps[catalog] \in StoredApp
    BY <1>1 DEF AdmissionInv, Typed
  <2>2. list \in Seq([name : RoleNames, services : SUBSET STRING]) /\ Unique(list)
    BY <2>1 DEF StoredApp, NodeApp, AppValid, RefsUnique
  <2>3. Named(list, r) = {list[i] : i \in entries}
    BY DEF Named
  <2> HIDE DEF list
  <2>4. \A i \in DOMAIN list : i \in Nat
    BY <2>2
  <2>5. \A i, j \in entries : i = j
    BY <2>2, OneByName
  <2>6. {j \in entries : \A k \in entries : j <= k} = entries
    BY <2>4, <2>5
  <2> HIDE DEF entries
  <2>7. UNION {list[i].services : i \in {j \in entries : \A k \in entries : j <= k}}
          = UNION {rs.services : rs \in Named(list, r)}
    BY <2>3, <2>6
  <2> QED  BY <2>7 DEF list, entries, PortsForRole
<1>2. AdmissionInv => PortsComplete
  BY <1>1 DEF PortsComplete
<1> QED  BY <1>2, AdmissionInit, AdmissionStep, PTL DEF Spec

\* A stored cluster has what its app asks for, no role twice and none that is unknown,
\* whatever was left out, edited and replaced, as long as the app is the one that it
\* was admitted for.
THEOREM StoredConforms == Spec => []Conforms
<1>1. AdmissionInv => Conforms
  BY DEF AdmissionInv, Kempt, Conforms
<1> QED  BY <1>1, AdmissionInit, AdmissionStep, PTL DEF Spec

\* The members of a stored cluster, counted one by one, are within the limit, and a claim
\* that cannot be shared has one pod, although the webhook goes by sums that may wrap
\* around: they do not as long as no role is given more members than the largest int32
\* exceeds the limit by.  Each role's count is added to a sum that has passed the test.
THEOREM LimitsHold ==
  ASSUME SmallCounts
  PROVE  Spec => []WithinLimits
<1>1. LimitInv => WithinLimits
  BY DEF LimitInv, Limited, WithinLimits
<1>2. SmallCounts
  OBVIOUS
<1> QED  BY <1>1, <1>2, LimitInit, LimitStep, PTL DEF Spec

\* The app of a cluster that has been processed is neither deleted nor replaced by
\* another, also after a restart and with other clusters of the app coming and going.
THEOREM AppsStay == Spec => AppUnchanged
<1>1. AdmissionInv /\ [Next]_allVars =>
        [\A c \in sameApp : Processed(c) => c \in sameApp']_allVars
  BY AppUnchangedStep
<1> QED  BY <1>1, AdmissionInit, AdmissionStep, PTL DEF Spec, AppUnchanged

\* The master key does not change under a processed cluster: users are refused, and
\* what a pass writes with the finalizer has the key that is stored.
THEOREM KeyStaysStored == Spec => KeyKept
<1>1. AdmissionInv /\ Keyed /\ [Next]_allVars => Keyed'
  BY KeyStep DEF AdmissionInv, Inv
<1>2. AdmissionInv /\ Keyed /\ [Next]_allVars =>
        [config.live /\ config'.live /\ config.spec.key \notin {NoKey, config'.spec.key} =>
           \A c \in Clusters : ~Processed(c)]_allVars
  BY KeyKeptStep
<1> QED  BY <1>1, <1>2, AdmissionInit, AdmissionStep, KeyInit, PTL DEF Spec, KeyKept

\* For the settings, webhook and clusters do what Settings.tla leaves open: what it
\* promises holds in Admission.tla as well.
THEOREM SettingsHold == Spec => SettingsSpec
<1>1. Init => SettingsInit
  BY DEF Init
<1> QED  BY <1>1, SettingsStep, PTL DEF Spec, SettingsSpec

=============================================================================
