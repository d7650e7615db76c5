--------------------------- MODULE ConnectionsProofs ---------------------------
(***************************************************************************)
(* What Connections.tla promises for any members, config maps and secrets, *)
(* and any number of edits, resizes of the peer and faults.  Hash,         *)
(* configmeta and script data are read at different moments; the invariant *)
(* orders these moments by what they saw.  A version of a config map or    *)
(* secret is never used again once it is gone, so that data read after     *)
(* another still agrees with it wherever that is up to date.               *)
(***************************************************************************)
EXTENDS Connections, FiniteSetTheorems, WellFoundedInduction, TLAPS

\* Data that may have been read after h, when the sources are as in r.
Later(r, data, h) ==
  /\ h.gen <= data.gen
  /\ \A s \in Sources : r[s] # 0 /\ h.res[s] = r[s] => data.res[s] = r[s]

\* Data of the past, when n edits have been made and the peer's generation is gen.
Past(data, gen, n) == data.gen <= gen /\ \A s \in Sources : data.res[s] <= n

History ==
  /\ \A s \in Sources : res[s] <= edits
  /\ \A data \in {stat.hash, cr.status.hash, hash} : Past(data, peer.gen, edits)
  /\ \A m \in Members : /\ Past(guest[m].meta, peer.gen, edits)
                        /\ Past(guest[m].script, peer.gen, edits)
  /\ phase # "idle" => peer.gen # 0

\* A member of the current generation has a configmeta at least as new as the hash.
MetaKnown(st, g, r) ==
  /\ st.gen # 0
  /\ \A m \in Members : /\ st.mem[m].cfg <= st.gen
                        /\ st.mem[m].cfg = st.gen => Later(r, g[m].meta, st.hash)

Ran(gm) == gm.script # NoHash

\* So has the script of one that is being set up, is of the current generation or
\* has not missed a change (of the n that were counted), unless a change was seen
\* while it was being set up (j).
ScriptKnown(st, g, r, n, j) ==
  \A m \in Members :
    /\ st.mem[m].ver <= n
    /\ st.mem[m].state = "ready" \/ st.mem[m].cfg # 0 \/ g[m].done => Ran(g[m])
    /\ m \notin j /\ Ran(g[m])
         /\ (st.mem[m].state = "creating" \/ st.mem[m].cfg = st.gen \/ n <= st.mem[m].ver)
       => Later(r, g[m].script, st.hash)

Metas == MetaKnown(stat, guest, res) /\ MetaKnown(cr.status, guest, res)

Scripts ==
  ~refused => /\ cr.counter = counter
              /\ ScriptKnown(stat, guest, res, counter, joining)
              /\ ScriptKnown(cr.status, guest, res, counter, joining)

Inv == TypeOK /\ History /\ Metas /\ Scripts

-----------------------------------------------------------------------------
(* Facts about data. *)

\* Every source is as it was, gone, or of a version above n.
Renewed(r, r1, n) == \A s \in Sources : r1[s] = r[s] \/ r1[s] = 0 \/ r1[s] > n

LEMMA LaterStays ==
  ASSUME NEW r, NEW r1, NEW data \in Hash, NEW h \in Hash, NEW gen, NEW n \in Nat,
         r1 \in [Sources -> Nat], Past(h, gen, n), Renewed(r, r1, n), Later(r, data, h)
  PROVE  Later(r1, data, h)
<1>1. SUFFICES ASSUME NEW s \in Sources, r1[s] # 0, h.res[s] = r1[s]
               PROVE  data.res[s] = r1[s]
  BY DEF Later
<1>2. h.res[s] <= n /\ h.res[s] \in Nat
  BY DEF Past, Hash
<1>3. r1[s] = r[s]
  BY <1>1, <1>2 DEF Renewed
<1> QED  BY <1>1, <1>3 DEF Later

LEMMA MetaStays ==
  ASSUME NEW st \in Status, NEW g \in [Members -> Guest], NEW g1 \in [Members -> Guest],
         NEW r, NEW r1 \in [Sources -> Nat], NEW gen, NEW n \in Nat,
         MetaKnown(st, g, r), Past(st.hash, gen, n), Renewed(r, r1, n),
         \A m \in Members : g1[m].meta = g[m].meta \/ Later(r1, g1[m].meta, st.hash)
  PROVE  MetaKnown(st, g1, r1)
<1>1. st.hash \in Hash
  BY DEF Status
<1>2. ASSUME NEW m \in Members, st.mem[m].cfg = st.gen
      PROVE  Later(r1, g1[m].meta, st.hash)
  <2>1. Later(r, g[m].meta, st.hash) /\ g[m].meta \in Hash
    BY <1>2 DEF MetaKnown, Guest
  <2>2. Later(r1, g[m].meta, st.hash)
    BY <1>1, <2>1, LaterStays
  <2> QED  BY <2>2
<1> QED  BY <1>2 DEF MetaKnown

LEMMA ScriptStays ==
  ASSUME NEW st \in Status, NEW g \in [Members -> Guest], NEW g1 \in [Members -> Guest],
         NEW r, NEW r1 \in [Sources -> Nat], NEW gen, NEW n \in Nat,
         NEW c \in Nat, NEW c1 \in Nat, c <= c1, NEW j, NEW j1,
         ScriptKnown(st, g, r, c, j), Past(st.hash, gen, n), Renewed(r, r1, n),
         \A m \in Members :
           \/ /\ g1[m].script = g[m].script
              /\ g1[m].done => g[m].done \/ Ran(g[m])
              /\ m \in j => m \in j1
           \/ Ran(g1[m]) /\ Later(r1, g1[m].script, st.hash)
  PROVE  ScriptKnown(st, g1, r1, c1, j1)
<1>1. st.hash \in Hash /\ st.mem \in [Members -> MemberStatus]
  BY DEF Status
<1>2. ASSUME NEW m \in Members
      PROVE  /\ st.mem[m].ver <= c1
             /\ st.mem[m].state = "ready" \/ st.mem[m].cfg # 0 \/ g1[m].done => Ran(g1[m])
             /\ m \notin j1 /\ Ran(g1[m])
                  /\ (\/ st.mem[m].state = "creating" \/ st.mem[m].cfg = st.gen
                      \/ c1 <= st.mem[m].ver)
                => Later(r1, g1[m].script, st.hash)
  <2>0. st.mem[m].ver \in Nat /\ g[m].script \in Hash
    BY <1>1 DEF MemberStatus, Guest
  <2>1. st.mem[m].ver <= c1
    BY <2>0 DEF ScriptKnown
  <2>2. CASE Ran(g1[m]) /\ Later(r1, g1[m].script, st.hash)
    BY <2>1, <2>2
  <2>3. CASE /\ g1[m].script = g[m].script
             /\ g1[m].done => g[m].done \/ Ran(g[m])
             /\ m \in j => m \in j1
    <3>1. Ran(g1[m]) = Ran(g[m])
      BY <2>3 DEF Ran
    <3>2. st.mem[m].state = "ready" \/ st.mem[m].cfg # 0 \/ g1[m].done => Ran(g1[m])
      BY <2>3, <3>1 DEF ScriptKnown
    <3>3. ASSUME m \notin j1, Ran(g1[m]),
                 \/ st.mem[m].state = "creating" \/ st.mem[m].cfg = st.gen
                 \/ c1 <= st.mem[m].ver
          PROVE  Later(r1, g1[m].script, st.hash)
      <4>1. c1 <= st.mem[m].ver => c <= st.mem[m].ver
        BY <2>0
      <4>2. Later(r, g[m].script, st.hash)
        BY <2>3, <3>1, <3>3, <4>1 DEF ScriptKnown
      <4>3. Later(r1, g[m].script, st.hash)
        BY <1>1, <2>0, <4>2, LaterStays
      <4> QED  BY <2>3, <4>3
    <3> QED  BY <2>1, <3>2, <3>3
  <2> QED  BY <2>2, <2>3
<1> QED  BY <1>2 DEF ScriptKnown

LEMMA HashNowIsLate ==
  ASSUME TypeOK, History
  PROVE  /\ HashNow \in Hash /\ Past(HashNow, peer.gen, edits)
         /\ \A data : Past(data, peer.gen, edits) => Later(res, HashNow, data)
         /\ peer.gen # 0 => HashNow # NoHash
<1>1. HashNow.res = res /\ HashNow.gen = peer.gen /\ NoHash.gen = 0
  BY DEF HashNow, NoHash
<1>2. HashNow \in Hash /\ peer.gen \in Nat
  BY DEF HashNow, Hash, TypeOK, PeerType
<1>3. Past(HashNow, peer.gen, edits)
  BY <1>1, <1>2 DEF Past, History
<1> QED  BY <1>1, <1>2, <1>3 DEF Past, Later

LEMMA NoHashType == NoHash \in Hash /\ NewGuest \in Guest /\ ~Ran(NewGuest)
BY DEF NoHash, Hash, NewGuest, Guest, Ran

\* What the types say of the parts.
LEMMA Parts ==
  ASSUME TypeOK
  PROVE  /\ stat \in Status /\ cr.status \in Status /\ cr.counter \in Nat
         /\ stat.hash \in Hash /\ cr.status.hash \in Hash /\ hash \in Hash
         /\ stat.gen \in Nat /\ cr.status.gen \in Nat
         /\ stat.mem \in [Members -> MemberStatus]
         /\ cr.status.mem \in [Members -> MemberStatus]
         /\ guest \in [Members -> Guest]
         /\ res \in [Sources -> Nat]
         /\ edits \in Nat /\ resizes \in Nat /\ faults \in Nat /\ counter \in Nat
         /\ peer.gen \in Nat /\ peer.listed \in 0 .. PeerMax /\ peer.leaving \in 0 .. PeerMax
         /\ PeerMax \in Nat
BY BoundsAssumption DEF TypeOK, Status, PeerType

-----------------------------------------------------------------------------
(* Steps that leave the pass alone, and steps that end it. *)

\* The sources, the peer and the guests may move; a script may end.
LEMMA AroundInv ==
  ASSUME Inv, TypeOK', Renewed(res, res', edits), edits <= edits',
         \A s \in Sources : res'[s] <= edits',
         peer.gen <= peer'.gen,
         \A m \in Members : /\ guest'[m].meta = guest[m].meta
                            /\ guest'[m].script = guest[m].script
                            /\ guest'[m].done => guest[m].done \/ Ran(guest[m]),
         UNCHANGED <<counter, stat, refused, joining>>,
         \/ UNCHANGED passVars
         \/ PassOver
         \/ phase' # "idle" /\ peer'.gen # 0 /\ hash' \in {hash, HashNow}
              /\ cr' \in {cr, [status |-> stat, counter |-> counter]}
              /\ peer.gen = peer'.gen
  PROVE  Inv'
<1> USE DEF Inv
<1>1. /\ stat \in Status /\ cr.status \in Status /\ guest \in [Members -> Guest]
      /\ stat.hash \in Hash /\ cr.status.hash \in Hash /\ hash \in Hash
      /\ res' \in [Sources -> Nat] /\ guest' \in [Members -> Guest]
      /\ edits \in Nat /\ edits' \in Nat /\ peer.gen \in Nat /\ peer'.gen \in Nat
      /\ counter \in Nat
  BY Parts DEF TypeOK, PeerType
<1>2. ASSUME NEW data \in Hash, Past(data, peer.gen, edits)
      PROVE  Past(data, peer'.gen, edits')
  BY <1>1, <1>2 DEF Past, Hash
<1>3. cr'.status \in {stat, cr.status} /\ (~refused => cr'.counter = counter')
  <2>1. CASE UNCHANGED passVars
    BY <2>1 DEF passVars, Scripts
  <2>2. CASE PassOver
    BY <2>2 DEF PassOver
  <2>3. CASE cr' \in {cr, [status |-> stat, counter |-> counter]}
    BY <2>3 DEF Scripts
  <2> QED  BY <2>1, <2>2, <2>3
<1>4. hash' \in {hash, NoHash, HashNow}
  BY DEF passVars, PassOver
<1>5. phase' # "idle" => peer'.gen # 0
  <2>1. CASE UNCHANGED passVars
    BY <1>1, <2>1 DEF passVars, History
  <2>2. CASE PassOver
    BY <2>2 DEF PassOver
  <2> QED  BY <2>1, <2>2
<1>6. Past(hash', peer'.gen, edits')
  <2>1. Past(hash, peer.gen, edits) /\ Past(HashNow, peer.gen, edits) /\ HashNow \in Hash
    BY HashNowIsLate DEF History
  <2>2. Past(NoHash, peer'.gen, edits')
    BY <1>1 DEF NoHash, Past
  <2> QED  BY <1>1, <1>2, <1>4, <2>1, <2>2
<1>7. History'
  <2>1. \A data \in {stat.hash, cr.status.hash} : Past(data, peer'.gen, edits')
    BY <1>1, <1>2 DEF History
  <2>2. \A m \in Members : guest[m].meta \in Hash /\ guest[m].script \in Hash
    BY <1>1 DEF Guest
  <2>3. \A m \in Members : /\ Past(guest'[m].meta, peer'.gen, edits')
                           /\ Past(guest'[m].script, peer'.gen, edits')
    BY <1>2, <2>2 DEF History
  <2> QED  BY <1>3, <1>5, <1>6, <2>1, <2>3 DEF History
<1>8. Past(stat.hash, peer.gen, edits) /\ Past(cr.status.hash, peer.gen, edits)
  BY DEF History
<1>9. MetaKnown(stat, guest', res') /\ MetaKnown(cr.status, guest', res')
  BY <1>1, <1>8, MetaStays DEF Metas
<1>10. Metas'
  BY <1>3, <1>9 DEF Metas
<1>11. ~refused => /\ ScriptKnown(stat, guest', res', counter, joining)
                   /\ ScriptKnown(cr.status, guest', res', counter, joining)
  <2>1. SUFFICES ASSUME ~refused
                 PROVE  /\ ScriptKnown(stat, guest', res', counter, joining)
                        /\ ScriptKnown(cr.status, guest', res', counter, joining)
    OBVIOUS
  <2>2. counter <= counter
    BY <1>1
  <2>3. /\ ScriptKnown(stat, guest, res, counter, joining)
        /\ ScriptKnown(cr.status, guest, res, counter, joining)
    BY <2>1 DEF Scripts
  <2>4. ScriptKnown(stat, guest', res', counter, joining)
    BY <1>1, <1>8, <2>2, <2>3, ScriptStays
  <2>5. ScriptKnown(cr.status, guest', res', counter, joining)
    BY <1>1, <1>8, <2>2, <2>3, ScriptStays
  <2> QED  BY <2>4, <2>5
<1>12. Scripts'
  BY <1>3, <1>11 DEF Scripts
<1> QED  BY <1>7, <1>10, <1>12

LEMMA UnrenewedIsRenewed == \A r, n : Renewed(r, r, n)
BY DEF Renewed

LEMMA InitInv == Init => Inv
<1> SUFFICES ASSUME Init PROVE Inv
  OBVIOUS
<1> USE DEF Init
<1>1. NoHash \in Hash /\ NewGuest \in Guest /\ NewMember \in MemberStatus
  BY NoHashType DEF NewMember, MemberStatus
<1>2. stat \in Status
  BY <1>1 DEF Status
<1>3. peer \in PeerType /\ peer.leaving <= peer.listed /\ peer.gen \in Nat
  <2>1. PeerMax \in Nat
    BY BoundsAssumption
  <2>2. CASE peer = [gen |-> 0, listed |-> 0, leaving |-> 0, told |-> FALSE]
    BY <2>1, <2>2 DEF PeerType
  <2>3. CASE peer = [gen |-> 1, listed |-> PeerMax, leaving |-> 0, told |-> TRUE]
    BY <2>1, <2>3 DEF PeerType
  <2> QED  BY <2>2, <2>3
<1>4. TypeOK
  <2>1. res \in [Sources -> Nat] /\ guest \in [Members -> Guest]
    BY <1>1
  <2>2. cr \in [status : Status, counter : Nat]
    BY <1>2
  <2>3. hash \in Hash /\ stat \in Status
    BY <1>1, <1>2
  <2> QED  BY <1>3, <2>1, <2>2, <2>3 DEF TypeOK
<1>5. /\ stat.gen = 1 /\ stat.hash = NoHash /\ cr.status = stat
      /\ \A m \in Members : stat.mem[m] = NewMember /\ guest[m] = NewGuest
  OBVIOUS
<1>6. Past(NoHash, peer.gen, edits)
  BY <1>3 DEF Past, NoHash
<1>7. History
  BY <1>5, <1>6 DEF History, NewGuest
<1>8. Metas
  BY <1>5 DEF Metas, MetaKnown, NewMember
<1>9. /\ NewMember.ver = 0 /\ NewMember.cfg = 0 /\ NewMember.state = "creating"
      /\ NewGuest.done = FALSE
  BY DEF NewMember, NewGuest
<1>10. ScriptKnown(stat, guest, res, counter, joining)
  BY <1>5, <1>9, NoHashType DEF ScriptKnown
<1>11. Scripts
  BY <1>5, <1>10 DEF Scripts
<1> QED  BY <1>4, <1>7, <1>8, <1>11 DEF Inv

-----------------------------------------------------------------------------
(* The pass. *)

LEMMA ProcessDiesInv ==
  ASSUME Inv, ProcessDies, faults' \in Nat, UNCHANGED resizes
  PROVE  Inv'
<1>1. /\ UNCHANGED <<res, peer, counter, stat, guest, edits, refused, joining>> /\ PassOver
      /\ trying' = {} /\ current' = {} /\ events' \subseteq Sources
  BY DEF ProcessDies, peerVars
<1>2. cr' \in [status : Status, counter : Nat] /\ hash' \in Hash /\ phase' = "idle"
  BY <1>1, NoHashType DEF PassOver, Inv, TypeOK
<1>3. TypeOK'
  BY <1>1, <1>2 DEF Inv, TypeOK
<1>4. Renewed(res, res', edits) /\ edits <= edits' /\ peer.gen <= peer'.gen
      /\ \A s \in Sources : res'[s] <= edits'
  BY <1>1, Parts, UnrenewedIsRenewed DEF Inv, History
<1> QED  BY <1>1, <1>3, <1>4, AroundInv

LEMMA PassDiesInv == ASSUME Inv, PassDies PROVE Inv'
<1>1. ProcessDies /\ faults' \in Nat /\ UNCHANGED resizes
  BY Parts DEF PassDies, ProcessDies, peerVars, Inv
<1> QED  BY <1>1, ProcessDiesInv

LEMMA CrashInv == ASSUME Inv, Crash PROVE Inv'
<1>1. ProcessDies /\ faults' \in Nat /\ UNCHANGED resizes
  BY Parts DEF Crash, ProcessDies, peerVars, Fault, Inv
<1> QED  BY <1>1, ProcessDiesInv

LEMMA BeginPassInv == ASSUME Inv, BeginPass PROVE Inv'
<1>1. /\ UNCHANGED <<res, events, peer, resizes, trying, counter, stat, guest, edits, faults,
                     refused, joining>>
      /\ phase' = "hash" /\ hash' = HashNow /\ peer.gen # 0
      /\ cr' = [status |-> stat, counter |-> counter]
      /\ current' = current \cup {Pass}
  BY DEF BeginPass, peerVars
<1>2. TypeOK /\ HashNow \in Hash
  BY HashNowIsLate DEF Inv
<1>3. TypeOK'
  BY <1>1, <1>2 DEF TypeOK
<1>4. Renewed(res, res', edits) /\ edits <= edits' /\ peer.gen <= peer'.gen
      /\ \A s \in Sources : res'[s] <= edits'
  BY <1>1, Parts, UnrenewedIsRenewed DEF Inv, History
<1> QED  BY <1>1, <1>3, <1>4, AroundInv

LEMMA SameHashInv == ASSUME Inv, SameHash PROVE Inv'
<1>1. /\ UNCHANGED <<res, events, peer, resizes, trying, counter, stat, guest, edits, faults,
                     refused, joining>>
      /\ current' = current \ {Pass} /\ phase = "hash"
      /\ PassOver \/ (phase' = "members" /\ UNCHANGED <<cr, hash>>)
  BY DEF SameHash, peerVars
<1>2. TypeOK /\ peer.gen # 0
  BY <1>1 DEF Inv, History
<1>3. TypeOK'
  <2>1. phase' \in {"idle", "hash", "members", "write"} /\ hash' \in Hash
        /\ cr' \in [status : Status, counter : Nat]
    BY <1>1, <1>2, NoHashType DEF PassOver, TypeOK
  <2> QED  BY <1>1, <1>2, <2>1 DEF TypeOK
<1>4. Renewed(res, res', edits) /\ edits <= edits' /\ peer.gen <= peer'.gen
      /\ \A s \in Sources : res'[s] <= edits'
  BY <1>1, Parts, UnrenewedIsRenewed DEF Inv, History
<1> QED  BY <1>1, <1>2, <1>3, <1>4, AroundInv

\* No member is of the new generation yet, none that is ready has seen the change,
\* and the others join.
LEMMA NewHashInv == ASSUME Inv, NewHash PROVE Inv'
<1>1. /\ UNCHANGED <<res, events, peer, resizes, trying, stat, guest, hash, edits, faults>>
      /\ phase = "hash" /\ phase' \in {"write", "members"}
      /\ cr' = [cr EXCEPT !.counter = @ + 1, !.status.gen = @ + 1, !.status.hash = hash]
      /\ joining' = joining \cup {m \in Members : cr.status.mem[m].state = "creating"}
      /\ \/ counter' = cr.counter + 1 /\ current' = {} /\ refused' = refused
         \/ refused' = TRUE /\ UNCHANGED <<counter, current>>
  BY DEF NewHash, peerVars
<1>2. TypeOK /\ History /\ Metas /\ Scripts
  BY DEF Inv
<1>3. /\ cr.counter + 1 \in Nat /\ cr.status.gen + 1 \in Nat /\ hash \in Hash
      /\ cr \in [status : Status, counter : Nat] /\ cr.status \in Status
      /\ cr.status.gen \in Nat /\ cr.counter \in Nat
      /\ cr.status.mem \in [Members -> MemberStatus]
  BY <1>2, Parts DEF TypeOK
<1> DEFINE st == [cr.status EXCEPT !.gen = cr.status.gen + 1, !.hash = hash]
<1>4. st \in Status /\ st.gen = cr.status.gen + 1 /\ st.hash = hash /\ st.mem = cr.status.mem
  BY <1>3 DEF Status
<1>5. cr' = [cr EXCEPT !.counter = cr.counter + 1, !.status = st]
  BY <1>1, <1>3
<1> HIDE DEF st
<1>6. cr' \in [status : Status, counter : Nat] /\ cr'.status = st
      /\ cr'.counter = cr.counter + 1
  BY <1>3, <1>4, <1>5
<1>7. TypeOK'
  BY <1>1, <1>2, <1>3, <1>6 DEF TypeOK
<1>8. History'
  BY <1>1, <1>2, <1>4, <1>6 DEF History
<1>9. Metas'
  <2>1. MetaKnown(st, guest, res)
    <3>1. ASSUME NEW m \in Members PROVE st.mem[m].cfg <= st.gen /\ st.mem[m].cfg # st.gen
      <4>1. cr.status.mem[m].cfg \in Nat /\ cr.status.mem[m].cfg <= cr.status.gen
        BY <1>2, <1>3 DEF MemberStatus, Metas, MetaKnown
      <4> QED  BY <1>3, <1>4, <4>1
    <3> QED  BY <1>3, <1>4, <3>1 DEF MetaKnown
  <2> QED  BY <1>1, <1>2, <1>6, <2>1 DEF Metas
<1>10. Scripts'
  <2>1. SUFFICES ASSUME ~refused'
                 PROVE  /\ cr'.counter = counter'
                        /\ ScriptKnown(stat, guest, res, counter', joining')
                        /\ ScriptKnown(st, guest, res, counter', joining')
    BY <1>1, <1>6 DEF Scripts
  <2>2. ~refused /\ cr.counter = counter /\ counter' = counter + 1
        /\ ScriptKnown(stat, guest, res, counter, joining)
        /\ ScriptKnown(cr.status, guest, res, counter, joining)
    BY <1>1, <1>2, <2>1 DEF Scripts
  <2>3. ScriptKnown(stat, guest, res, counter', joining')
    <3>1. /\ counter \in Nat /\ counter' \in Nat /\ counter <= counter'
          /\ edits \in Nat /\ stat \in Status /\ guest \in [Members -> Guest]
          /\ res \in [Sources -> Nat]
      BY <1>2, <2>2, Parts
    <3>2. Past(stat.hash, peer.gen, edits) /\ Renewed(res, res, edits)
      BY <1>2, UnrenewedIsRenewed DEF History
    <3>3. \A m \in Members : m \in joining => m \in joining'
      BY <1>1
    <3> QED  BY <2>2, <3>1, <3>2, <3>3, ScriptStays
  <2>4. ScriptKnown(st, guest, res, counter', joining')
    <3>1. ASSUME NEW m \in Members
          PROVE  /\ st.mem[m].ver <= counter'
                 /\ st.mem[m].state = "ready" \/ st.mem[m].cfg # 0 \/ guest[m].done
                      => Ran(guest[m])
                 /\ m \notin joining' =>
                      /\ st.mem[m].state # "creating" /\ st.mem[m].cfg # st.gen
                      /\ ~(counter' <= st.mem[m].ver)
      <4>1. /\ cr.status.mem[m].ver <= counter /\ cr.status.mem[m].ver \in Nat
            /\ cr.status.mem[m].cfg <= cr.status.gen /\ cr.status.mem[m].cfg \in Nat
            /\ counter \in Nat
        BY <1>2, <1>3, <2>2, Parts DEF ScriptKnown, Metas, MetaKnown, MemberStatus
      <4>2. st.mem[m].ver <= counter' /\ st.mem[m].cfg # st.gen
            /\ ~(counter' <= st.mem[m].ver)
        BY <1>3, <1>4, <2>2, <4>1
      <4>3. st.mem[m].state = "ready" \/ st.mem[m].cfg # 0 \/ guest[m].done => Ran(guest[m])
        BY <1>4, <2>2 DEF ScriptKnown
      <4>4. m \notin joining' => st.mem[m].state # "creating"
        BY <1>1, <1>4
      <4> QED  BY <4>2, <4>3, <4>4
    <3> QED  BY <3>1 DEF ScriptKnown
  <2> QED  BY <1>6, <2>2, <2>3, <2>4
<1> QED  BY <1>7, <1>8, <1>9, <1>10 DEF Inv

LEMMA WriteStatusInv == ASSUME Inv, WriteStatus PROVE Inv'
<1>1. /\ UNCHANGED <<res, events, peer, resizes, trying, counter, guest, edits, faults,
                     refused, joining>>
      /\ phase' = "idle" /\ hash' = NoHash /\ stat' = cr.status
      /\ cr' = [status |-> stat', counter |-> counter']
      /\ current' \in {current, {}}
  BY DEF WriteStatus, PassOver, peerVars
<1>2. TypeOK /\ History /\ Metas /\ Scripts /\ cr.status \in Status
  BY Parts DEF Inv
<1>3. TypeOK'
  BY <1>1, <1>2, NoHashType DEF TypeOK
<1>4. Past(NoHash, peer.gen, edits)
  BY <1>2, Parts DEF NoHash, Past
<1>5. History'
  BY <1>1, <1>2, <1>4 DEF History
<1>6. Metas'
  BY <1>1, <1>2 DEF Metas
<1>7. Scripts'
  BY <1>1, <1>2 DEF Scripts
<1> QED  BY <1>3, <1>5, <1>6, <1>7 DEF Inv

-----------------------------------------------------------------------------
(* Those who tell the cluster, the peer and the sources. *)

LEMMA NotifyInv ==
  ASSUME Inv,
         \/ \E s \in Sources : HandleEvent(s)
         \/ \E n \in Notifiers : Notify(n) \/ GiveUp(n)
         \/ PeerFirstPass \/ PeerClean \/ PeerStable
         \/ \E n \in 0 .. PeerMax : PeerResize(n)
  PROVE  Inv'
<1>1. /\ UNCHANGED <<res, counter, stat, guest, passVars, edits, refused, joining>>
      /\ events' \subseteq Sources /\ trying' \subseteq Notifiers
      /\ current' \subseteq Notifiers \cup {Pass}
      /\ peer' \in PeerType /\ peer'.leaving <= peer'.listed /\ peer.gen <= peer'.gen
      /\ resizes' \in Nat /\ faults' \in Nat
  <2> USE Parts DEF Inv, TypeOK
  <2>1. CASE \E s \in Sources : HandleEvent(s)
    <3>1. PICK s \in Sources : HandleEvent(s)
      BY <2>1
    <3>2. s \in Notifiers
      BY DEF Notifiers
    <3> QED  BY <3>1, <3>2 DEF HandleEvent, StartNotify, peerVars
  <2>2. CASE \E n \in Notifiers : Notify(n)
    <3>1. PICK n \in Notifiers : Notify(n)
      BY <2>2
    <3>2. peer' \in PeerType /\ peer'.leaving = peer.leaving /\ peer'.listed = peer.listed
          /\ peer'.gen = peer.gen
      BY <3>1 DEF Notify, PeerType
    <3> QED  BY <3>1, <3>2 DEF Notify
  <2>3. CASE \E n \in Notifiers : GiveUp(n)
    <3>1. PICK n \in Notifiers : GiveUp(n)
      BY <2>3
    <3> QED  BY <3>1 DEF GiveUp, peerVars
  <2>4. CASE PeerFirstPass
    <3>1. peer' = [peer EXCEPT !.gen = 1] /\ peer.gen = 0 /\ peer \in PeerType
      BY <2>4 DEF PeerFirstPass
    <3>2. peer' \in PeerType /\ peer'.leaving = peer.leaving /\ peer'.listed = peer.listed
          /\ peer'.gen = 1
      BY <3>1 DEF PeerType
    <3> QED  BY <2>4, <3>1, <3>2 DEF PeerFirstPass, EnvStep
  <2>5. CASE PeerClean
    <3>1. peer' = [peer EXCEPT !.listed = peer.listed - peer.leaving, !.leaving = 0]
      BY <2>5 DEF PeerClean
    <3>2. peer.listed - peer.leaving \in 0 .. PeerMax /\ 0 \in 0 .. PeerMax
      OBVIOUS
    <3>3. peer' \in PeerType /\ peer'.leaving = 0 /\ peer'.gen = peer.gen
          /\ peer'.listed = peer.listed - peer.leaving
      BY <3>1, <3>2 DEF PeerType
    <3> QED  BY <2>5, <3>2, <3>3 DEF PeerClean, EnvStep
  <2>6. CASE PeerStable
    <3>1. Peer \in Notifiers
      BY DEF Notifiers
    <3> QED  BY <2>6, <3>1 DEF PeerStable, StartNotify, EnvStep, peerVars
  <2>7. CASE \E n \in 0 .. PeerMax : PeerResize(n)
    <3>1. PICK n \in 0 .. PeerMax : PeerResize(n)
      BY <2>7
    <3>2. peer' = [gen |-> peer.gen + 1, told |-> FALSE,
                   listed |-> IF n > peer.listed THEN n ELSE peer.listed,
                   leaving |-> IF n < peer.listed THEN peer.listed - n ELSE 0]
      BY <3>1 DEF PeerResize
    <3>3. /\ peer' \in PeerType /\ peer'.leaving <= peer'.listed /\ peer'.gen = peer.gen + 1
      BY <3>2 DEF PeerType
    <3>4. resizes' \in Nat /\ peer.gen <= peer'.gen
      BY <3>1, <3>3 DEF PeerResize
    <3> QED  BY <3>1, <3>3, <3>4 DEF PeerResize, EnvStep
  <2> QED  BY <2>1, <2>2, <2>3, <2>4, <2>5, <2>6, <2>7
<1>2. TypeOK'
  BY <1>1 DEF Inv, TypeOK, passVars
<1>3. Renewed(res, res', edits) /\ edits <= edits' /\ \A s \in Sources : res'[s] <= edits'
  BY <1>1, Parts, UnrenewedIsRenewed DEF Inv, History
<1> QED  BY <1>1, <1>2, <1>3, AroundInv

LEMMA EditInv ==
  ASSUME Inv, NEW s \in Sources, NEW v \in 0 .. MaxEdits, Edit(s, v)
  PROVE  Inv'
<1>1. /\ UNCHANGED <<peer, resizes, trying, current, guest, faults, joining, counter, stat,
                     passVars, refused>>
      /\ edits' = edits + 1 /\ v \in {0, edits + 1}
      /\ res' = [res EXCEPT ![s] = v] /\ events' = events \cup {s}
  BY DEF Edit, EnvStep, peerVars
<1>2. TypeOK /\ edits \in Nat /\ res \in [Sources -> Nat] /\ peer.gen \in Nat
  BY Parts DEF Inv
<1>3. edits' \in Nat /\ v \in Nat /\ edits <= edits' /\ v <= edits'
  BY <1>1, <1>2
<1>4. TypeOK'
  BY <1>1, <1>2, <1>3 DEF TypeOK, passVars
<1>5. Renewed(res, res', edits)
  BY <1>1, <1>2 DEF Renewed
<1>6. \A x \in Sources : res'[x] <= edits'
  BY <1>1, <1>2, <1>3 DEF Inv, History
<1> QED  BY <1>1, <1>2, <1>3, <1>4, <1>5, <1>6, AroundInv

LEMMA ScriptEndsInv == ASSUME Inv, NEW m \in Members, ScriptEnds(m) PROVE Inv'
<1>1. /\ UNCHANGED <<res, events, peer, resizes, trying, current, edits, faults, joining,
                     counter, stat, passVars, refused>>
      /\ guest[m].script # NoHash
      /\ guest' = [guest EXCEPT ![m].done = TRUE]
  BY DEF ScriptEnds, EnvStep, peerVars
<1>2. TypeOK /\ guest \in [Members -> Guest]
  BY Parts DEF Inv
<1>3. /\ guest' \in [Members -> Guest]
      /\ \A x \in Members : /\ guest'[x].meta = guest[x].meta
                            /\ guest'[x].script = guest[x].script
                            /\ guest'[x].done => guest[x].done \/ Ran(guest[x])
  BY <1>1, <1>2 DEF Guest, Ran
<1>4. TypeOK'
  BY <1>1, <1>2, <1>3 DEF TypeOK, passVars
<1>5. Renewed(res, res', edits) /\ edits <= edits' /\ peer.gen <= peer'.gen
      /\ \A s \in Sources : res'[s] <= edits'
  BY <1>1, Parts, UnrenewedIsRenewed DEF Inv, History
<1> QED  BY <1>1, <1>3, <1>4, <1>5, AroundInv

-----------------------------------------------------------------------------
(* syncMembers. *)

\* A set of numbers with a member has a smallest one.
LEMMA SmallestExists ==
  ASSUME NEW S \in SUBSET Nat, S # {}
  PROVE  \E v \in S : \A w \in S : v <= w
<1>1. PICK v \in S : \A w \in S : ~(<<w, v>> \in OpToRel(<, Nat))
  BY WFMin, NatLessThanWellFounded, Zenon
<1>2. \A w \in S : ~(w < v)
  BY <1>1, Zenon DEF OpToRel
<1> QED  BY <1>2

LEMMA ConnectionVersionType ==
  ASSUME TypeOK
  PROVE  /\ ConnectionVersion \in Nat
         /\ cr.counter # 0 => ConnectionVersion = cr.counter
         /\ cr.counter = 0 => ConnectionVersion = 0 \/
              \E m \in Ready : ConnectionVersion = cr.status.mem[m].ver
<1>1. cr.counter \in Nat /\ cr.status.mem \in [Members -> MemberStatus]
  BY Parts
<1>2. CASE cr.counter # 0
  BY <1>1, <1>2 DEF ConnectionVersion
<1>3. CASE cr.counter = 0 /\ Ready = {}
  BY <1>3 DEF ConnectionVersion
<1>4. CASE cr.counter = 0 /\ Ready # {}
  <2> DEFINE vers == {cr.status.mem[m].ver : m \in Ready}
  <2>1. vers \in SUBSET Nat /\ vers # {}
    <3>1. \A m \in Ready : cr.status.mem[m].ver \in Nat
      BY <1>1 DEF Ready, MemberStatus
    <3> QED  BY <1>4, <3>1
  <2>2. \E v \in vers : \A w \in vers : v <= w
    BY <2>1, SmallestExists
  <2>3. \E v \in vers : \A m \in Ready : v <= cr.status.mem[m].ver
    BY <2>2
  <2>4. ConnectionVersion = CHOOSE v \in vers : \A m \in Ready : v <= cr.status.mem[m].ver
    BY <1>4 DEF ConnectionVersion
  <2> HIDE DEF vers
  <2>5. ConnectionVersion \in vers
    BY <2>3, <2>4
  <2> USE DEF vers
  <2> QED  BY <1>4, <2>1, <2>5
<1> QED  BY <1>2, <1>3, <1>4

\* As long as no update of the counter was refused, the connection version is the
\* counter that is stored.
LEMMA VersionIsCounter ==
  ASSUME TypeOK, cr.counter = counter,
         \A m \in Members : cr.status.mem[m].ver <= counter
  PROVE  ConnectionVersion = counter
<1>1. cr.counter \in Nat /\ cr.status.mem \in [Members -> MemberStatus]
  BY Parts
<1>2. CASE counter # 0
  BY <1>2, ConnectionVersionType
<1>3. CASE counter = 0
  <2>1. \A m \in Ready : cr.status.mem[m].ver = 0
    BY <1>1, <1>3 DEF Ready, MemberStatus
  <2> QED  BY <1>3, <2>1, ConnectionVersionType
<1> QED  BY <1>2, <1>3

\* What syncMembers does to a member m: with ms its status and gm its guest now,
\* ms1 and gm1 then.
Unchanged(ms, gm, ms1, gm1) ==
  /\ ms1 = ms /\ gm1.script = gm.script /\ gm1.done = gm.done
  /\ gm1.meta \in {gm.meta, HashNow}
Refreshed(ms, gm, ms1, gm1) ==
  /\ ms.state = "ready" /\ ConnectionVersion <= ms.ver
  /\ ms1 = [ms EXCEPT !.cfg = cr.status.gen]
  /\ gm1.meta = HashNow /\ gm1.script = gm.script /\ gm1.done = gm.done
Reconnected(ms, gm, ms1, gm1) ==
  /\ ms.state = "ready" /\ ms.ver < ConnectionVersion
  /\ ms1 = [ms EXCEPT !.ver = @ + 1, !.cfg = cr.status.gen]
  /\ gm1.meta = HashNow /\ gm1.script = HashNow
Started(ms, gm, ms1, gm1) ==
  /\ ms.state = "creating"
  /\ ms1 = [ms EXCEPT !.ver = ConnectionVersion, !.cfg = cr.status.gen]
  /\ gm1.meta = HashNow /\ gm1.script = HashNow
Awaited(ms, gm, ms1, gm1) ==
  /\ ms.state = "creating" /\ gm1 = gm
  /\ \/ ms1 = [ms EXCEPT !.ver = ConnectionVersion]
     \/ gm.done /\ ms1 = [ms EXCEPT !.ver = ConnectionVersion, !.state = "ready"]

Moves(ms, gm, ms1, gm1, left) ==
  \/ ~left /\ \/ Unchanged(ms, gm, ms1, gm1) \/ Refreshed(ms, gm, ms1, gm1)
              \/ Awaited(ms, gm, ms1, gm1)
  \/ Reconnected(ms, gm, ms1, gm1) \/ Started(ms, gm, ms1, gm1)

LEMMA SyncMembersMoves ==
  ASSUME TypeOK, HashNow \in Hash, SyncMembers
  PROVE  /\ faults' \in Nat /\ guest' \in [Members -> Guest] /\ joining' \subseteq joining
         /\ cr' \in [status : Status, counter : Nat] /\ cr'.counter = cr.counter
         /\ cr'.status.gen = cr.status.gen /\ cr'.status.hash = cr.status.hash
         /\ \A m \in Members :
              Moves(cr.status.mem[m], guest[m], cr'.status.mem[m], guest'[m],
                    m \in joining \ joining')
<1> DEFINE outdated == {m \in Ready : cr.status.mem[m].cfg # cr.status.gen}
<1>1. PICK failing \in SUBSET outdated :
        \E scriptFails \in SUBSET {m \in failing : Reconnects(m)} :
           LET uploaded == (outdated \ failing) \cup scriptFails
               ready == [m \in outdated |-> Updated(m, m \in uploaded, m \notin failing)]
               after == [m \in Members |-> IF m \in outdated THEN ready[m] ELSE cr.status.mem[m]]
               onward == \A m \in Members : ~Blocks(after[m])
               starts == {m \in Members \ Ready : ~guest[m].done /\ after[m].cfg = 0 /\ onward}
           IN  /\ Fault(Cardinality(failing))
               /\ cr' = [cr EXCEPT !.status.mem = [m \in Members |->
                          IF m \in Ready THEN after[m] ELSE Configured(m, onward)]]
               /\ guest' = [m \in Members |->
                    [guest[m] EXCEPT
                       !.meta = IF m \in uploaded \cup starts THEN HashNow ELSE @,
                       !.script = IF m \in starts \/ (m \in outdated \ failing /\ Reconnects(m))
                                    THEN HashNow ELSE @]]
               /\ joining' = joining \ (starts \cup {m \in outdated \ failing : Reconnects(m)})
  BY DEF SyncMembers
<1>2. PICK scriptFails \in SUBSET {m \in failing : Reconnects(m)} :
           LET uploaded == (outdated \ failing) \cup scriptFails
               ready == [m \in outdated |-> Updated(m, m \in uploaded, m \notin failing)]
               after == [m \in Members |-> IF m \in outdated THEN ready[m] ELSE cr.status.mem[m]]
               onward == \A m \in Members : ~Blocks(after[m])
               starts == {m \in Members \ Ready : ~guest[m].done /\ after[m].cfg = 0 /\ onward}
           IN  /\ Fault(Cardinality(failing))
               /\ cr' = [cr EXCEPT !.status.mem = [m \in Members |->
                          IF m \in Ready THEN after[m] ELSE Configured(m, onward)]]
               /\ guest' = [m \in Members |->
                    [guest[m] EXCEPT
                       !.meta = IF m \in uploaded \cup starts THEN HashNow ELSE @,
                       !.script = IF m \in starts \/ (m \in outdated \ failing /\ Reconnects(m))
                                    THEN HashNow ELSE @]]
               /\ joining' = joining \ (starts \cup {m \in outdated \ failing : Reconnects(m)})
  BY <1>1
<1> DEFINE uploaded == (outdated \ failing) \cup scriptFails
           ready == [m \in outdated |-> Updated(m, m \in uploaded, m \notin failing)]
           after == [m \in Members |-> IF m \in outdated THEN ready[m] ELSE cr.status.mem[m]]
           onward == \A m \in Members : ~Blocks(after[m])
           starts == {m \in Members \ Ready : ~guest[m].done /\ after[m].cfg = 0 /\ onward}
           rerun == {m \in outdated \ failing : Reconnects(m)}
           mem1 == [m \in Members |-> IF m \in Ready THEN after[m] ELSE Configured(m, onward)]
<1>3. /\ Fault(Cardinality(failing))
      /\ cr' = [cr EXCEPT !.status.mem = mem1]
      /\ guest' = [m \in Members |->
           [guest[m] EXCEPT !.meta = IF m \in uploaded \cup starts THEN HashNow ELSE @,
                            !.script = IF m \in starts \/ m \in rerun THEN HashNow ELSE @]]
      /\ joining' = joining \ (starts \cup rerun)
  BY <1>2
<1>4. /\ cr \in [status : Status, counter : Nat] /\ cr.status \in Status
      /\ cr.status.mem \in [Members -> MemberStatus] /\ cr.status.gen \in Nat
      /\ guest \in [Members -> Guest] /\ faults \in Nat /\ ConnectionVersion \in Nat
  BY Parts, ConnectionVersionType DEF TypeOK
<1>5. Cardinality(failing) \in Nat
  <2>1. IsFiniteSet(Members) /\ failing \subseteq Members
    BY MembersAssumption DEF Ready
  <2> QED  BY <2>1, FS_Subset, FS_CardinalityType
<1>6. faults' \in Nat
  <2>1. faults' = faults + Cardinality(failing)
    BY <1>3 DEF Fault
  <2> QED  BY <1>4, <1>5, <2>1
<1>7. ASSUME NEW m \in Members
      PROVE  /\ mem1[m] \in MemberStatus
             /\ guest'[m] \in Guest
             /\ Moves(cr.status.mem[m], guest[m], mem1[m], guest'[m], m \in joining \ joining')
  <2> DEFINE ms == cr.status.mem[m]
             gm == guest[m]
  <2>1. ms \in MemberStatus /\ gm \in Guest
    BY <1>4
  <2>2. guest'[m] = [gm EXCEPT !.meta = IF m \in uploaded \cup starts THEN HashNow ELSE @,
                               !.script = IF m \in starts \/ m \in rerun THEN HashNow ELSE @]
    BY <1>3
  <2>3. /\ guest'[m] \in Guest /\ guest'[m].done = gm.done
        /\ guest'[m].meta = IF m \in uploaded \cup starts THEN HashNow ELSE gm.meta
        /\ guest'[m].script = IF m \in starts \/ m \in rerun THEN HashNow ELSE gm.script
    BY <2>1, <2>2 DEF Guest
  <2>4. /\ m \in Ready => m \notin starts
        /\ m \notin outdated => m \notin uploaded /\ m \notin rerun
        /\ m \in outdated => m \in Ready
    OBVIOUS
  <2>5. CASE m \in outdated
    <3>1. ms.state = "ready" /\ m \in Ready /\ m \notin starts
      BY <2>5 DEF Ready
    <3>2. mem1[m] = Updated(m, m \in uploaded, m \notin failing)
      BY <2>5, <3>1
    <3>3. CASE m \notin failing /\ Reconnects(m)
      <4>1. m \in uploaded /\ m \in rerun
        BY <2>5, <3>3
      <4>2. mem1[m] = [ms EXCEPT !.ver = ms.ver + 1, !.cfg = cr.status.gen]
        BY <3>2, <3>3, <4>1 DEF Updated
      <4>3. ms.ver < ConnectionVersion
        BY <3>3 DEF Reconnects
      <4>4. Reconnected(ms, gm, mem1[m], guest'[m])
        <5>1. guest'[m].meta = HashNow /\ guest'[m].script = HashNow
          BY <2>3, <4>1
        <5> QED  BY <3>1, <4>2, <4>3, <5>1 DEF Reconnected
      <4>5. mem1[m] \in MemberStatus
        <5>1. ms.ver + 1 \in Nat
          BY <2>1 DEF MemberStatus
        <5> HIDE DEF mem1
        <5> QED  BY <1>4, <2>1, <4>2, <5>1 DEF MemberStatus
      <4> QED  BY <2>3, <4>4, <4>5 DEF Moves
    <3>4. CASE m \notin failing /\ ~Reconnects(m)
      <4>1. m \in uploaded /\ m \notin rerun
        BY <2>5, <3>4
      <4>2. mem1[m] = [ms EXCEPT !.ver = ms.ver, !.cfg = cr.status.gen]
        BY <3>2, <3>4, <4>1 DEF Updated
      <4>3. ConnectionVersion <= ms.ver
        BY <1>4, <2>1, <3>4 DEF Reconnects, MemberStatus
      <4>4. mem1[m] = [ms EXCEPT !.cfg = cr.status.gen] /\ mem1[m] \in MemberStatus
        BY <1>4, <2>1, <4>2 DEF MemberStatus
      <4>5. Refreshed(ms, gm, mem1[m], guest'[m])
        BY <2>3, <3>1, <4>1, <4>3, <4>4 DEF Refreshed
      <4>6. m \notin joining \ joining'
        BY <1>3, <3>1, <4>1
      <4> QED  BY <2>3, <4>4, <4>5, <4>6 DEF Moves
    <3>5. CASE m \in failing
      <4>1. m \notin rerun /\ (m \in uploaded => Reconnects(m))
        BY <3>5
      <4>2. mem1[m] = ms
        BY <3>2, <3>5, <4>1 DEF Updated
      <4>3. Unchanged(ms, gm, mem1[m], guest'[m])
        BY <2>3, <3>1, <4>1, <4>2 DEF Unchanged
      <4>4. m \notin joining \ joining'
        BY <1>3, <3>1, <4>1
      <4> QED  BY <2>1, <2>3, <4>2, <4>3, <4>4 DEF Moves
    <3> QED  BY <3>3, <3>4, <3>5
  <2>6. CASE m \in Ready /\ m \notin outdated
    <3>1. mem1[m] = ms
      BY <2>6
    <3>2. Unchanged(ms, gm, mem1[m], guest'[m])
      BY <2>3, <2>4, <2>6, <3>1 DEF Unchanged
    <3>3. m \notin joining \ joining'
      BY <1>3, <2>4, <2>6
    <3> QED  BY <2>1, <2>3, <3>1, <3>2, <3>3 DEF Moves
  <2>7. CASE m \notin Ready
    <3>1. ms.state = "creating" /\ m \notin outdated /\ after[m] = ms
      BY <2>1, <2>7 DEF Ready, MemberStatus
    <3>2. mem1[m] = Configured(m, onward)
      BY <2>7
    <3>3. m \in starts <=> ~gm.done /\ ms.cfg = 0 /\ onward
      BY <2>7, <3>1
    <3> HIDE DEF starts, onward, mem1
    <3>4. CASE m \in starts
      <4>1. mem1[m] = [[ms EXCEPT !.ver = ConnectionVersion] EXCEPT !.cfg = cr.status.gen]
        BY <2>1, <3>2, <3>3, <3>4 DEF Configured, MemberStatus
      <4>2. mem1[m] = [ms EXCEPT !.ver = ConnectionVersion, !.cfg = cr.status.gen]
            /\ mem1[m] \in MemberStatus
        BY <1>4, <2>1, <4>1 DEF MemberStatus
      <4>3. Started(ms, gm, mem1[m], guest'[m])
        BY <2>3, <3>1, <3>4, <4>2 DEF Started
      <4> QED  BY <2>3, <4>2, <4>3 DEF Moves
    <3>5. CASE m \notin starts
      <4>1. guest'[m] = gm
        <5>1. m \notin uploaded /\ m \notin rerun
          BY <2>4, <3>1
        <5> HIDE DEF uploaded, rerun
        <5> QED  BY <2>1, <2>2, <3>5, <5>1 DEF Guest
      <4>2. CASE gm.done
        <5>1. mem1[m] = [[ms EXCEPT !.ver = ConnectionVersion] EXCEPT !.state = "ready"]
          BY <3>2, <4>2 DEF Configured
        <5>2. mem1[m] = [ms EXCEPT !.ver = ConnectionVersion, !.state = "ready"]
              /\ mem1[m] \in MemberStatus
          BY <1>4, <2>1, <5>1 DEF MemberStatus
        <5>3. Awaited(ms, gm, mem1[m], guest'[m])
          BY <3>1, <4>1, <4>2, <5>2 DEF Awaited
        <5>4. m \notin joining \ joining'
          BY <1>3, <2>4, <3>1, <3>5
        <5> QED  BY <2>3, <5>2, <5>3, <5>4 DEF Moves
      <4>3. CASE ~gm.done
        <5>1. mem1[m] = [ms EXCEPT !.ver = ConnectionVersion]
          BY <2>1, <3>2, <3>3, <3>5, <4>3 DEF Configured, MemberStatus
        <5>2. mem1[m] \in MemberStatus
          BY <1>4, <2>1, <5>1 DEF MemberStatus
        <5>3. Awaited(ms, gm, mem1[m], guest'[m])
          BY <3>1, <4>1, <5>1 DEF Awaited
        <5>4. m \notin joining \ joining'
          BY <1>3, <2>4, <3>1, <3>5
        <5> QED  BY <2>3, <5>2, <5>3, <5>4 DEF Moves
      <4> QED  BY <4>2, <4>3
    <3> QED  BY <3>4, <3>5
  <2> QED  BY <2>4, <2>5, <2>6, <2>7
<1>8. guest' \in [Members -> Guest]
  <2>1. DOMAIN guest' = Members /\ guest' = [m \in Members |-> guest'[m]]
    BY <1>3
  <2> QED  BY <1>7, <2>1
<1> HIDE DEF outdated, uploaded, ready, after, onward, starts, rerun
<1>9. mem1 \in [Members -> MemberStatus]
  BY <1>7
<1> HIDE DEF mem1
<1>10. /\ cr' \in [status : Status, counter : Nat] /\ cr'.counter = cr.counter
       /\ cr'.status.gen = cr.status.gen /\ cr'.status.hash = cr.status.hash
       /\ cr'.status.mem = mem1
  BY <1>3, <1>4, <1>9 DEF Status
<1> QED  BY <1>3, <1>6, <1>7, <1>8, <1>10

\* A member that gets the new configmeta or script gets it from data of this moment,
\* which is later than the hash of any status.
LEMMA MovesAreLater ==
  ASSUME TypeOK, History, HashNow # NoHash, NEW ms \in MemberStatus, NEW gm \in Guest,
         NEW ms1, NEW gm1, NEW left \in BOOLEAN, Moves(ms, gm, ms1, gm1, left)
  PROVE  /\ gm1.meta = gm.meta \/ gm1.meta = HashNow
         /\ \/ gm1.script = gm.script /\ gm1.done = gm.done /\ ~left
            \/ gm1.script = HashNow
         /\ ms1.cfg = ms.cfg \/ ms1.cfg = cr.status.gen
         /\ ms1.cfg # ms.cfg => gm1.meta = HashNow
BY DEF Moves, Unchanged, Refreshed, Reconnected, Started, Awaited, MemberStatus, Guest

LEMMA SyncMembersInv == ASSUME Inv, SyncMembers PROVE Inv'
<1>1. /\ UNCHANGED <<res, events, peer, resizes, trying, current, counter, stat, hash, edits,
                     refused>>
      /\ phase = "members" /\ phase' = "write"
  BY DEF SyncMembers, peerVars
<1>2. TypeOK /\ History /\ Metas /\ Scripts
  BY DEF Inv
<1>3. /\ HashNow \in Hash /\ HashNow # NoHash /\ Past(HashNow, peer.gen, edits)
      /\ Later(res, HashNow, stat.hash) /\ Later(res, HashNow, cr.status.hash)
  <2>1. peer.gen # 0
    BY <1>1, <1>2 DEF History
  <2> QED  BY <1>2, <2>1, HashNowIsLate DEF History
<1> DEFINE left(m) == m \in joining \ joining'
<1>4. /\ faults' \in Nat /\ guest' \in [Members -> Guest] /\ joining' \subseteq joining
      /\ cr' \in [status : Status, counter : Nat] /\ cr'.counter = cr.counter
      /\ cr'.status.gen = cr.status.gen /\ cr'.status.hash = cr.status.hash
      /\ \A m \in Members :
           Moves(cr.status.mem[m], guest[m], cr'.status.mem[m], guest'[m], left(m))
  BY <1>2, <1>3, SyncMembersMoves
<1>5. /\ stat \in Status /\ cr.status \in Status /\ cr'.status \in Status
      /\ cr.status.mem \in [Members -> MemberStatus]
      /\ guest \in [Members -> Guest] /\ res \in [Sources -> Nat]
      /\ cr.status.gen \in Nat /\ counter \in Nat /\ edits \in Nat /\ peer.gen \in Nat
      /\ ConnectionVersion \in Nat
  BY <1>2, <1>4, Parts, ConnectionVersionType
<1>6. \A m \in Members :
        /\ guest'[m].meta = guest[m].meta \/ guest'[m].meta = HashNow
        /\ \/ guest'[m].script = guest[m].script /\ guest'[m].done = guest[m].done /\ ~left(m)
           \/ guest'[m].script = HashNow
        /\ \/ cr'.status.mem[m].cfg = cr.status.mem[m].cfg
           \/ cr'.status.mem[m].cfg = cr.status.gen /\ guest'[m].meta = HashNow
  <2> TAKE m \in Members
  <2>1. cr.status.mem[m] \in MemberStatus /\ guest[m] \in Guest /\ left(m) \in BOOLEAN
    BY <1>5
  <2>2. Moves(cr.status.mem[m], guest[m], cr'.status.mem[m], guest'[m], left(m))
    BY <1>4
  <2> HIDE DEF left
  <2> QED  BY <1>2, <1>3, <2>1, <2>2, MovesAreLater
<1>7. TypeOK'
  BY <1>1, <1>2, <1>4 DEF TypeOK
<1>8. History'
  BY <1>1, <1>2, <1>3, <1>4, <1>6 DEF History
<1>9. Past(stat.hash, peer.gen, edits) /\ Past(cr.status.hash, peer.gen, edits)
      /\ Renewed(res, res, edits)
  BY <1>2, UnrenewedIsRenewed DEF History
<1>10. MetaKnown(stat, guest', res) /\ MetaKnown(cr.status, guest', res)
  <2>1. MetaKnown(stat, guest, res) /\ MetaKnown(cr.status, guest, res)
    BY <1>2 DEF Metas
  <2>2. MetaKnown(stat, guest', res)
    BY <1>3, <1>4, <1>5, <1>6, <1>9, <2>1, MetaStays
  <2>3. MetaKnown(cr.status, guest', res)
    <3>1. \A m \in Members : \/ guest'[m].meta = guest[m].meta
                             \/ Later(res, guest'[m].meta, cr.status.hash)
      BY <1>3, <1>6
    <3> QED  BY <1>4, <1>5, <1>9, <2>1, <3>1, MetaStays
  <2> QED  BY <2>2, <2>3
<1>11. MetaKnown(cr'.status, guest', res)
  BY <1>3, <1>4, <1>5, <1>6, <1>10 DEF MetaKnown
<1>12. Metas'
  BY <1>1, <1>10, <1>11 DEF Metas
<1>13. ASSUME ~refused
       PROVE  /\ cr'.counter = counter
              /\ ScriptKnown(stat, guest', res, counter, joining')
              /\ ScriptKnown(cr'.status, guest', res, counter, joining')
  <2>1. /\ cr.counter = counter /\ counter <= counter
        /\ ScriptKnown(stat, guest, res, counter, joining)
        /\ ScriptKnown(cr.status, guest, res, counter, joining)
    BY <1>2, <1>5, <1>13 DEF Scripts
  <2>2. ScriptKnown(stat, guest', res, counter, joining')
    <3>1. \A m \in Members :
            \/ /\ guest'[m].script = guest[m].script
               /\ guest'[m].done => guest[m].done \/ Ran(guest[m])
               /\ m \in joining => m \in joining'
            \/ Ran(guest'[m]) /\ Later(res, guest'[m].script, stat.hash)
      BY <1>3, <1>6 DEF Ran
    <3> QED  BY <1>4, <1>5, <1>9, <2>1, <3>1, ScriptStays
  <2>3. ConnectionVersion = counter
    BY <1>2, <2>1, VersionIsCounter DEF ScriptKnown
  <2>4. ASSUME NEW m \in Members
        PROVE  /\ cr'.status.mem[m].ver <= counter
               /\ cr'.status.mem[m].state = "ready" \/ cr'.status.mem[m].cfg # 0
                    \/ guest'[m].done => Ran(guest'[m])
               /\ m \notin joining' /\ Ran(guest'[m])
                    /\ (\/ cr'.status.mem[m].state = "creating"
                        \/ cr'.status.mem[m].cfg = cr'.status.gen
                        \/ counter <= cr'.status.mem[m].ver)
                  => Later(res, guest'[m].script, cr'.status.hash)
    <3> DEFINE ms == cr.status.mem[m]
               ms1 == cr'.status.mem[m]
               gm == guest[m]
               gm1 == guest'[m]
    <3>1. /\ ms \in MemberStatus /\ gm \in Guest /\ ms1 \in MemberStatus /\ gm1 \in Guest
      BY <1>4, <1>5 DEF Status
    <3>2. /\ ms.ver <= counter
          /\ ms.state = "ready" \/ ms.cfg # 0 \/ gm.done => Ran(gm)
          /\ m \notin joining /\ Ran(gm)
               /\ (ms.state = "creating" \/ ms.cfg = cr.status.gen \/ counter <= ms.ver)
             => Later(res, gm.script, cr.status.hash)
      BY <2>1 DEF ScriptKnown
    <3>3. cr'.status.gen = cr.status.gen /\ cr'.status.hash = cr.status.hash
      BY <1>4
    <3>4. left(m) \/ (m \in joining <=> m \in joining')
      BY <1>4
    <3>5. Moves(ms, gm, ms1, gm1, left(m))
      BY <1>4
    <3>6. ms.ver \in Nat
      BY <3>1 DEF MemberStatus
    <3> HIDE DEF ms, ms1, gm, gm1, left
    <3>7. CASE gm1.script = HashNow
      <4>1. Ran(gm1) /\ Later(res, gm1.script, cr.status.hash)
        BY <1>3, <3>7 DEF Ran
      <4>2. ms1.ver <= counter
        <5>1. CASE ms1.ver = ms.ver
          BY <3>2, <5>1
        <5>2. CASE ms1.ver = ms.ver + 1 /\ ms.ver < ConnectionVersion
          BY <1>5, <2>3, <3>6, <5>2
        <5>3. CASE ms1.ver = ConnectionVersion
          BY <1>5, <2>3, <5>3
        <5> QED
          BY <3>1, <3>5, <5>1, <5>2, <5>3
          DEF Moves, Unchanged, Refreshed, Reconnected, Started, Awaited, MemberStatus
      <4> QED  BY <3>3, <4>1, <4>2 DEF ms1, gm1
    <3>8. CASE ~left(m) /\ Unchanged(ms, gm, ms1, gm1)
      <4>1. ms1 = ms /\ Ran(gm1) = Ran(gm) /\ gm1.script = gm.script /\ gm1.done = gm.done
        BY <3>8 DEF Unchanged, Ran
      <4> QED  BY <3>2, <3>3, <3>4, <3>8, <4>1 DEF ms1, gm1
    <3>9. CASE ~left(m) /\ Refreshed(ms, gm, ms1, gm1)
      <4>1. Ran(gm1) = Ran(gm) /\ gm1.script = gm.script /\ gm1.done = gm.done
            /\ ms1.ver = ms.ver /\ ms.state = "ready" /\ counter <= ms.ver
        BY <2>3, <3>1, <3>9 DEF Refreshed, Ran, MemberStatus
      <4> QED  BY <3>2, <3>3, <3>4, <3>9, <4>1 DEF ms1, gm1
    <3>10. CASE ~left(m) /\ Awaited(ms, gm, ms1, gm1)
      <4>1. /\ gm1 = gm /\ ms.state = "creating" /\ ms1.ver = counter /\ ms1.cfg = ms.cfg
            /\ ms1.state = "ready" => gm.done
        BY <2>3, <3>1, <3>10 DEF Awaited, MemberStatus
      <4> QED  BY <1>5, <3>2, <3>3, <3>4, <3>10, <4>1 DEF ms1, gm1
    <3> QED
      BY <3>5, <3>7, <3>8, <3>9, <3>10 DEF Moves, Reconnected, Started
  <2>5. ScriptKnown(cr'.status, guest', res, counter, joining')
    BY <2>4 DEF ScriptKnown
  <2> QED  BY <1>4, <2>1, <2>2, <2>5
<1>14. Scripts'
  BY <1>1, <1>13 DEF Scripts
<1> QED  BY <1>7, <1>8, <1>12, <1>14 DEF Inv

-----------------------------------------------------------------------------

LEMMA StutterInv == ASSUME Inv, UNCHANGED vars PROVE Inv'
<1>1. UNCHANGED <<res, events, peer, resizes, trying, current, counter, stat, guest, phase, cr,
                  hash, edits, faults, refused, joining>>
  BY DEF vars, peerVars, passVars
<1>2. TypeOK'
  BY <1>1 DEF Inv, TypeOK
<1>3. History'
  BY <1>1 DEF Inv, History
<1>4. Metas'
  BY <1>1 DEF Inv, Metas
<1>5. Scripts'
  BY <1>1 DEF Inv, Scripts
<1> QED  BY <1>2, <1>3, <1>4, <1>5 DEF Inv

LEMMA NextInv == ASSUME Inv, Next PROVE Inv'
<1>1. CASE PassDies  BY <1>1, PassDiesInv
<1>2. CASE BeginPass  BY <1>2, BeginPassInv
<1>3. CASE SameHash  BY <1>3, SameHashInv
<1>4. CASE NewHash  BY <1>4, NewHashInv
<1>5. CASE SyncMembers  BY <1>5, SyncMembersInv
<1>6. CASE WriteStatus  BY <1>6, WriteStatusInv
<1>7. CASE Crash  BY <1>7, CrashInv
<1>8. CASE \E s \in Sources : \E v \in 0 .. MaxEdits : Edit(s, v)
  BY <1>8, EditInv
<1>9. CASE \/ \E s \in Sources : HandleEvent(s)
           \/ \E n \in Notifiers : Notify(n) \/ GiveUp(n)
           \/ PeerFirstPass \/ PeerClean \/ PeerStable
           \/ \E n \in 0 .. PeerMax : PeerResize(n)
  BY <1>9, NotifyInv
<1>10. CASE \E m \in Members : ScriptEnds(m)
  BY <1>10, ScriptEndsInv
<1> QED
  BY <1>1, <1>2, <1>3, <1>4, <1>5, <1>6, <1>7, <1>8, <1>9, <1>10 DEF Next

LEMMA Invariance == Spec => []Inv
<1>1. Inv /\ [Next]_vars => Inv'
  BY NextInv, StutterInv
<1> QED  BY InitInv, <1>1, PTL DEF Spec

-----------------------------------------------------------------------------
(* The results. *)

\* The pass, the notifiers and the peer keep their types through conflicts, crashes
\* and failed commands.  In particular there is always a connection version, and
\* never more members of the peer on their way out than it lists.
THEOREM ConnectionTypes == Spec => []TypeOK
<1>1. Inv => TypeOK
  BY DEF Inv
<1> QED  BY Invariance, <1>1, PTL

\* Data as late as what the status knows is current when that is.
LEMMA LateIsCurrent ==
  ASSUME NEW data, Past(data, peer.gen, edits), Later(res, data, HashNow),
         peer.gen \in Nat, data.gen \in Nat
  PROVE  Current(data)
BY DEF Past, Later, Current, HashNow

\* A cluster at rest has configmetas made from current data in all its members: the
\* hash that the status records was read before any of them (calcConnectionsHash is
\* called first in a pass, ConfigmetaGenerator later), whatever failed since.
THEOREM RestingDataIsCurrent == Spec => []RestingData
<1>1. ASSUME Inv, AtRest, NEW m \in Members PROVE Current(guest[m].meta)
  <2>1. stat.hash = HashNow /\ stat.mem[m].cfg = stat.gen
    BY <1>1 DEF AtRest, Settled
  <2>2. Later(res, guest[m].meta, HashNow) /\ Past(guest[m].meta, peer.gen, edits)
    BY <1>1, <2>1 DEF Inv, Metas, MetaKnown, History
  <2>3. peer.gen \in Nat /\ guest[m].meta.gen \in Nat
    BY <1>1, Parts DEF Inv, Guest, Hash
  <2> QED  BY <2>2, <2>3, LateIsCurrent
<1>2. Inv => RestingData
  BY <1>1 DEF RestingData
<1> QED  BY Invariance, <1>2, PTL

\* So have the setup scripts, unless an update of hashChangeCounter was refused: the
\* counter then tells every ready member that has missed a change from the others,
\* although a member's version is raised by one however much it has missed, and
\* although counter, status and scripts are not written in one step.
THEOREM RestingScriptsAreCurrent == Spec => []ReadyMembersReconnect
<1>1. ASSUME Inv, AtRest, ~refused, NEW m \in Members \ joining
      PROVE  Current(guest[m].script)
  <2>1. stat.hash = HashNow /\ stat.mem[m].cfg = stat.gen /\ stat.mem[m].state = "ready"
    BY <1>1 DEF AtRest, Settled
  <2>2. ScriptKnown(stat, guest, res, counter, joining)
    BY <1>1 DEF Inv, Scripts
  <2>3. Later(res, guest[m].script, HashNow)
    BY <1>1, <2>1, <2>2 DEF ScriptKnown
  <2>4. Past(guest[m].script, peer.gen, edits)
    BY <1>1 DEF Inv, History
  <2>5. peer.gen \in Nat /\ guest[m].script.gen \in Nat
    BY <1>1, Parts DEF Inv, Guest, Hash
  <2> QED  BY <2>3, <2>4, <2>5, LateIsCurrent
<1>2. Inv => ReadyMembersReconnect
  BY <1>1 DEF ReadyMembersReconnect
<1> QED  BY Invariance, <1>2, PTL

=============================================================================
