---------------------------- MODULE Stores_proofs ----------------------------
(***************************************************************************)
(* Theorems about the services that answer from their own store: Secret    *)
(* Manager and Cloud KMS one by one, and then, with Cloud Storage, in the  *)
(* process they share - for any number of resources, clients and calls,    *)
(* with or without a data directory.                                       *)
(***************************************************************************)
EXTENDS MCStores, CloudStorage_proofs, FirestoreQuery_proofs

-----------------------------------------------------------------------------
(* Secret Manager.                                                         *)

Added == [payload : Payload, destroyed : BOOLEAN]

SecretsTypes ==
    /\ secrets \in [Secret -> SecretData]
    /\ vault \in [Secret -> SecretData]
    /\ kept \in [Secret -> Seq(Added)]

(* What was added to a secret is forgotten with it, ...                    *)
Forgotten ==
    /\ up => \A s \in Secret : ~Known(s) => kept[s] = <<>>
    /\ \A s \in Secret : /\ secrets[s].next = 0 => secrets[s].versions = <<>>
                         /\ vault[s].next = 0 => vault[s].versions = <<>>

(* ... and then PayloadsKept and SecretsSaved are inductive with their     *)
(* types.  Without a data directory the file stays empty.                  *)
SInv ==
    /\ SecretsTypes
    /\ PayloadsKept
    /\ SecretsSaved
    /\ Forgotten
    /\ ~DataDir => vault = NoSecrets

-----------------------------------------------------------------------------
(* Sequences: replacing an element, and appending one.                     *)

LEMMA Replaced ==
    ASSUME NEW S, NEW q \in Seq(S), NEW i, NEW v \in S
    PROVE  LET r == [j \in DOMAIN q |-> IF j = i THEN v ELSE q[j]]
           IN  /\ r \in Seq(S) /\ Len(r) = Len(q) /\ DOMAIN r = DOMAIN q
               /\ \A j \in DOMAIN q : r[j] = IF j = i THEN v ELSE q[j]
<1> DEFINE r == [j \in DOMAIN q |-> IF j = i THEN v ELSE q[j]]
<1>1. Len(q) \in Nat /\ DOMAIN q = 1..Len(q) /\ \A j \in 1..Len(q) : q[j] \in S
  OBVIOUS
<1>2. r \in [1..Len(q) -> S]
  BY <1>1
<1>3. r \in Seq(S) /\ Len(r) = Len(q)
  BY <1>1, <1>2
<1> QED
  BY <1>1, <1>3

LEMMA Appended ==
    ASSUME NEW S, NEW q \in Seq(S), NEW v \in S
    PROVE  /\ Append(q, v) \in Seq(S) /\ Len(Append(q, v)) = Len(q) + 1
           /\ DOMAIN Append(q, v) = 1..(Len(q) + 1) /\ DOMAIN q = 1..Len(q)
           /\ \A j \in 1..Len(q) : Append(q, v)[j] = q[j]
           /\ Append(q, v)[Len(q) + 1] = v
  OBVIOUS

-----------------------------------------------------------------------------
(* Every call replaces one secret, and its history, by something faithful. *)

LEMMA NoSecretsTypes == NoSecret \in SecretData /\ NoSecrets \in [Secret -> SecretData]
  BY DEF NoSecret, NoSecrets, SecretData

LEMMA ChangedSecret ==
    ASSUME SInv, up,
           NEW s \in Secret, NEW d \in SecretData, NEW ks \in Seq(Added),
           d.next # 0 => Faithful(d, ks), d.next = 0 => ks = <<>> /\ d.versions = <<>>,
           secrets' = [secrets EXCEPT ![s] = d], SaveSecrets,
           kept' = [kept EXCEPT ![s] = ks]
    PROVE  SInv'
<1>1. SecretsTypes'
  <2>1. secrets' \in [Secret -> SecretData] /\ kept' \in [Secret -> Seq(Added)]
    BY DEF SInv, SecretsTypes
  <2>2. vault' \in [Secret -> SecretData]
    BY <2>1 DEF SaveSecrets, SInv, SecretsTypes
  <2> QED
    BY <2>1, <2>2 DEF SecretsTypes
<1>2. SecretsSaved' /\ (~DataDir => vault' = NoSecrets)
  BY DEF SaveSecrets, SecretsSaved, SInv
<1>3. ASSUME NEW t \in Secret PROVE secrets'[t].next # 0 => Faithful(secrets'[t], kept'[t])
  <2>1. CASE t = s
    BY <2>1 DEF SInv, SecretsTypes
  <2>2. CASE t # s
    BY <2>2 DEF SInv, SecretsTypes, PayloadsKept, Known
  <2> QED
    BY <2>1, <2>2
<1>4. ASSUME NEW t \in Secret PROVE vault'[t].next # 0 => Faithful(vault'[t], kept'[t])
  <2>1. CASE DataDir
    BY <1>3, <2>1 DEF SaveSecrets
  <2>2. CASE ~DataDir
    BY <1>2, <2>2 DEF NoSecrets, NoSecret
  <2> QED
    BY <2>1, <2>2
<1>5. PayloadsKept'
  BY <1>3, <1>4 DEF PayloadsKept, Known
<1>6. ASSUME NEW t \in Secret
      PROVE  /\ secrets'[t].next = 0 => kept'[t] = <<>> /\ secrets'[t].versions = <<>>
             /\ vault'[t].next = 0 => vault'[t].versions = <<>>
  <2>1. secrets'[t].next = 0 => kept'[t] = <<>> /\ secrets'[t].versions = <<>>
    <3>1. CASE t = s
      BY <3>1 DEF SInv, SecretsTypes
    <3>2. CASE t # s
      BY <3>2 DEF Known, Forgotten, SInv, SecretsTypes
    <3> QED
      BY <3>1, <3>2
  <2>2. vault'[t].next = 0 => vault'[t].versions = <<>>
    <3>1. CASE DataDir
      BY <2>1, <3>1 DEF SaveSecrets
    <3>2. CASE ~DataDir
      BY <1>2, <3>2 DEF NoSecrets, NoSecret
    <3> QED
      BY <3>1, <3>2
  <2> QED
    BY <2>1, <2>2
<1>7. Forgotten'
  BY <1>6 DEF Forgotten, Known
<1> QED
  BY <1>1, <1>2, <1>5, <1>7 DEF SInv

(* One version is replaced, and maybe its history.                         *)
LEMMA ChangedVersion ==
    ASSUME SInv, up,
           NEW s \in Secret, NEW i \in DOMAIN secrets[s].versions, NEW v \in Version, NEW k \in Added,
           Agrees(v, i, k), SetVersion(s, i, v),
           kept' = [kept EXCEPT ![s] = [j \in DOMAIN kept[s] |-> IF j = i THEN k ELSE kept[s][j]]]
    PROVE  SInv'
<1> DEFINE q == secrets[s].versions
           r == [j \in DOMAIN q |-> IF j = i THEN v ELSE q[j]]
           ks == [j \in DOMAIN kept[s] |-> IF j = i THEN k ELSE kept[s][j]]
           d == [versions |-> r, next |-> secrets[s].next]
<1>1. q \in Seq(Version) /\ secrets[s].next \in Nat /\ kept[s] \in Seq(Added)
  BY DEF SInv, SecretsTypes, SecretData
<1>2. r \in Seq(Version) /\ Len(r) = Len(q) /\ DOMAIN r = DOMAIN q
      /\ \A j \in DOMAIN q : r[j] = IF j = i THEN v ELSE q[j]
  <2>1. q \in Seq(Version) /\ v \in Version
    BY <1>1
  <2> HIDE DEF q
  <2> QED
    BY <2>1, Replaced
<1>3. ks \in Seq(Added) /\ Len(ks) = Len(kept[s]) /\ DOMAIN ks = DOMAIN kept[s]
      /\ \A j \in DOMAIN kept[s] : ks[j] = IF j = i THEN k ELSE kept[s][j]
  <2> DEFINE old == kept[s]
  <2>1. old \in Seq(Added) /\ k \in Added
    BY <1>1
  <2> HIDE DEF old
  <2>2. LET new == [j \in DOMAIN old |-> IF j = i THEN k ELSE old[j]]
        IN  /\ new \in Seq(Added) /\ Len(new) = Len(old) /\ DOMAIN new = DOMAIN old
            /\ \A j \in DOMAIN old : new[j] = IF j = i THEN k ELSE old[j]
    BY <2>1, Replaced
  <2> QED
    BY <2>2, Zenon DEF old
<1>4. secrets' = [secrets EXCEPT ![s] = d] /\ SaveSecrets /\ kept' = [kept EXCEPT ![s] = ks]
  BY DEF SetVersion
<1>5. d \in SecretData
  BY <1>1, <1>2 DEF SecretData
<1>6. secrets[s].next # 0 => Faithful(secrets[s], kept[s])
  BY DEF SInv, PayloadsKept, Known
<1> HIDE DEF r, ks
<1>7. d.next # 0 => Faithful(d, ks)
  <2> SUFFICES ASSUME secrets[s].next # 0 PROVE Faithful(d, ks)
    OBVIOUS
  <2>1. /\ secrets[s].next = Len(q) + 1 /\ Len(q) = Len(kept[s])
        /\ \A j \in DOMAIN q : Agrees(q[j], j, kept[s][j])
    BY <1>6 DEF Faithful
  <2>2. DOMAIN q = DOMAIN kept[s]
    BY <1>1, <2>1
  <2>3. ASSUME NEW j \in DOMAIN q PROVE Agrees(r[j], j, ks[j])
    <3>1. CASE j = i
      BY <1>2, <1>3, <2>2, <3>1
    <3>2. CASE j # i
      BY <1>2, <1>3, <2>1, <2>2, <3>2
    <3> QED
      BY <3>1, <3>2
  <2> QED
    BY <1>2, <1>3, <2>1, <2>3 DEF Faithful
<1>8. d.next # 0
  BY DEF SInv, Forgotten
<1> QED
  BY <1>3, <1>4, <1>5, <1>7, <1>8, ChangedSecret

-----------------------------------------------------------------------------

LEMMA InitSInv == ProcessInit /\ SecretsInit => SInv
<1> SUFFICES ASSUME ProcessInit, SecretsInit PROVE SInv
  OBVIOUS
<1>1. SecretsTypes
  BY NoSecretsTypes DEF SecretsInit, SecretsTypes
<1>2. PayloadsKept
  BY DEF SecretsInit, PayloadsKept, Known, NoSecrets, NoSecret
<1> QED
  BY <1>1, <1>2 DEF SInv, SecretsSaved, Forgotten, SecretsInit, NoSecrets, NoSecret

LEMMA CreateInv ==
    ASSUME SInv, NEW s \in Secret, CreateSecret(s)
    PROVE  SInv'
<1> DEFINE d == [versions |-> <<>>, next |-> 1]
<1>1. d \in SecretData /\ d.next # 0 /\ Faithful(d, <<>>) /\ <<>> \in Seq(Added)
  BY DEF SecretData, Faithful
<1>2. kept[s] = <<>>
  BY DEF CreateSecret, SInv, Forgotten
<1>3. kept' = [kept EXCEPT ![s] = <<>>]
  BY <1>2 DEF CreateSecret, SInv, SecretsTypes
<1>4. up /\ secrets' = [secrets EXCEPT ![s] = d] /\ SaveSecrets
  BY DEF CreateSecret
<1> HIDE DEF d
<1> QED
  BY <1>1, <1>3, <1>4, ChangedSecret

LEMMA DeleteInv ==
    ASSUME SInv, NEW s \in Secret, DeleteSecret(s)
    PROVE  SInv'
<1>1. <<>> \in Seq(Added) /\ NoSecret.next = 0 /\ NoSecret.versions = <<>>
  BY DEF NoSecret
<1> QED
  BY <1>1, NoSecretsTypes, ChangedSecret DEF DeleteSecret

LEMMA AddInv ==
    ASSUME SInv, NEW s \in Secret, NEW p \in Payload, AddSecretVersion(s, p)
    PROVE  SInv'
<1> DEFINE q == secrets[s].versions
           n == secrets[s].next
           v == NewVersion(n, p)
           k == [payload |-> p, destroyed |-> FALSE]
           d == [versions |-> Append(q, v), next |-> n + 1]
<1>1. q \in Seq(Version) /\ n \in Nat /\ kept[s] \in Seq(Added)
  BY DEF SInv, SecretsTypes, SecretData
<1>2. v \in Version /\ v.num = n /\ v.state = "enabled" /\ v.payload = p
  BY <1>1 DEF NewVersion, Version
<1>3. k \in Added /\ k.payload = p /\ k.destroyed = FALSE
  BY DEF Added
<1>4. n # 0 /\ Faithful(secrets[s], kept[s])
  BY DEF AddSecretVersion, Known, SInv, PayloadsKept
<1>5. n = Len(q) + 1 /\ Len(q) = Len(kept[s]) /\ \A j \in DOMAIN q : Agrees(q[j], j, kept[s][j])
  BY <1>4 DEF Faithful
<1>6. /\ up /\ SaveSecrets
      /\ secrets' = [secrets EXCEPT ![s] = d]
      /\ kept' = [kept EXCEPT ![s] = Append(kept[s], k)]
  BY DEF AddSecretVersion
<1> HIDE DEF q, n, v, k
<1>7. /\ Append(q, v) \in Seq(Version) /\ Len(Append(q, v)) = Len(q) + 1
      /\ DOMAIN Append(q, v) = 1..(Len(q) + 1) /\ DOMAIN q = 1..Len(q)
      /\ \A j \in 1..Len(q) : Append(q, v)[j] = q[j]
      /\ Append(q, v)[Len(q) + 1] = v
  BY <1>1, <1>2, Appended
<1>8. /\ Append(kept[s], k) \in Seq(Added) /\ Len(Append(kept[s], k)) = Len(kept[s]) + 1
      /\ \A j \in 1..Len(kept[s]) : Append(kept[s], k)[j] = kept[s][j]
      /\ Append(kept[s], k)[Len(kept[s]) + 1] = k
  BY <1>1, <1>3, Appended
<1>9. d \in SecretData /\ d.next = n + 1 /\ d.versions = Append(q, v)
  BY <1>1, <1>7 DEF SecretData
<1>10. ASSUME NEW j \in 1..(Len(q) + 1) PROVE Agrees(Append(q, v)[j], j, Append(kept[s], k)[j])
  <2>0. Len(q) \in Nat
    BY <1>1
  <2>1. CASE j \in 1..Len(q)
    BY <1>5, <1>7, <1>8, <2>1
  <2>2. CASE j = Len(q) + 1
    <3>1. Append(q, v)[j] = v /\ Append(kept[s], k)[j] = k /\ j = n
      BY <1>5, <1>7, <1>8, <2>2
    <3>2. Agrees(v, n, k)
      <4>1. ~(v.state = "destroyed") /\ ~k.destroyed
        BY <1>2, <1>3
      <4> QED
        BY <1>2, <1>3, <4>1 DEF Agrees
    <3> QED
      BY <3>1, <3>2
  <2>3. j \in 1..Len(q) \/ j = Len(q) + 1
    BY <2>0
  <2> QED
    BY <2>1, <2>2, <2>3
<1>11. Faithful(d, Append(kept[s], k))
  BY <1>5, <1>7, <1>8, <1>9, <1>10 DEF Faithful
<1>12. d.next # 0
  BY <1>1, <1>9
<1> HIDE DEF d
<1> QED
  BY <1>6, <1>8, <1>9, <1>11, <1>12, ChangedSecret

(* Enabling or disabling: only the state changes.                          *)
LEMMA StateInv ==
    ASSUME SInv, NEW s \in Secret, NEW id,
           EnableSecretVersion(s, id) \/ DisableSecretVersion(s, id)
    PROVE  SInv'
<1>1. PICK i \in 1..MaxVersions, st \in {"enabled", "disabled"} :
          /\ IsVersion(s, id, i)
          /\ Changeable(secrets[s].versions[i])
          /\ SetVersion(s, i, [secrets[s].versions[i] EXCEPT !.state = st])
  BY DEF EnableSecretVersion, DisableSecretVersion
<1>2. up /\ UNCHANGED kept
  BY DEF EnableSecretVersion, DisableSecretVersion
<1> DEFINE q == secrets[s].versions
           v == [q[i] EXCEPT !.state = st]
<1>3. i \in DOMAIN q
  BY <1>1 DEF IsVersion
<1>4. q \in Seq(Version) /\ kept[s] \in Seq(Added)
  BY DEF SInv, SecretsTypes, SecretData
<1>5. q[i] \in Version
  BY <1>3, <1>4
<1>6. v \in Version /\ v.num = q[i].num /\ v.state = st /\ v.payload = q[i].payload
  BY <1>5 DEF Version
<1>7. q[i].state # "destroyed" /\ st # "destroyed"
  BY <1>1 DEF Changeable
<1> DEFINE k == kept[s][i]
<1>8. Known(s) /\ Faithful(secrets[s], kept[s])
  BY <1>3 DEF SInv, Forgotten, PayloadsKept, Known
<1>9. DOMAIN kept[s] = DOMAIN q /\ Agrees(q[i], i, k)
  BY <1>3, <1>4, <1>8 DEF Faithful
<1>10. k \in Added
  BY <1>3, <1>4, <1>9
<1>11. Agrees(v, i, k)
  <2>1. ~k.destroyed
    BY <1>7, <1>9 DEF Agrees
  <2>2. ~(v.state = "destroyed")
    BY <1>6, <1>7
  <2> QED
    BY <1>6, <1>9, <2>1, <2>2 DEF Agrees
<1>12. kept' = [kept EXCEPT ![s] = [j \in DOMAIN kept[s] |-> IF j = i THEN k ELSE kept[s][j]]]
  <2>1. [j \in DOMAIN kept[s] |-> IF j = i THEN k ELSE kept[s][j]] = kept[s]
    BY <1>4
  <2> QED
    BY <1>2, <2>1 DEF SInv, SecretsTypes
<1>13. SetVersion(s, i, v)
  BY <1>1
<1> HIDE DEF v, k
<1> QED
  BY <1>2, <1>3, <1>6, <1>10, <1>11, <1>12, <1>13, ChangedVersion

LEMMA DestroyVersionInv ==
    ASSUME SInv, NEW s \in Secret, NEW id, DestroySecretVersion(s, id)
    PROVE  SInv'
<1> DEFINE q == secrets[s].versions
           V(i) == [num |-> q[i].num, state |-> "destroyed", payload |-> NoPayload]
           K(i) == [payload |-> kept[s][i].payload, destroyed |-> TRUE]
<1>1. PICK i \in 1..MaxVersions :
          /\ IsVersion(s, id, i)
          /\ SetVersion(s, i, V(i))
          /\ kept' = [kept EXCEPT ![s] = [j \in DOMAIN kept[s] |->
                          IF j = i THEN [payload |-> kept[s][j].payload, destroyed |-> TRUE]
                          ELSE kept[s][j]]]
  BY DEF DestroySecretVersion
<1>2. up /\ i \in DOMAIN q
  BY <1>1 DEF DestroySecretVersion, IsVersion
<1>3. q \in Seq(Version) /\ kept[s] \in Seq(Added)
  BY DEF SInv, SecretsTypes, SecretData
<1>4. Known(s) /\ Faithful(secrets[s], kept[s])
  BY <1>2 DEF SInv, Forgotten, PayloadsKept, Known
<1>5. DOMAIN kept[s] = DOMAIN q /\ Agrees(q[i], i, kept[s][i])
  BY <1>2, <1>3, <1>4 DEF Faithful
<1>6. q[i] \in Version /\ kept[s][i] \in Added
  BY <1>2, <1>3, <1>5
<1>7. V(i) \in Version
  BY <1>6 DEF Version
<1>8. K(i) \in Added /\ K(i).destroyed = TRUE
  BY <1>6 DEF Added
<1>9. Agrees(V(i), i, K(i))
  <2>1. V(i).num = i /\ V(i).state = "destroyed" /\ V(i).payload = NoPayload
    BY <1>5 DEF Agrees
  <2>2. K(i).destroyed
    BY <1>8
  <2> QED
    BY <2>1, <2>2 DEF Agrees
<1>10. kept' = [kept EXCEPT ![s] = [j \in DOMAIN kept[s] |-> IF j = i THEN K(i) ELSE kept[s][j]]]
  <2>1. [j \in DOMAIN kept[s] |-> IF j = i THEN [payload |-> kept[s][j].payload, destroyed |-> TRUE]
                                  ELSE kept[s][j]]
        = [j \in DOMAIN kept[s] |-> IF j = i THEN K(i) ELSE kept[s][j]]
    OBVIOUS
  <2> QED
    BY <1>1, <2>1
<1>11. SetVersion(s, i, V(i))
  BY <1>1
<1> HIDE DEF V, K
<1> QED
  BY <1>2, <1>7, <1>8, <1>9, <1>10, <1>11, ChangedVersion

LEMMA SecretsExitInv ==
    ASSUME SInv, Stops, SecretsExit \/ SecretsExitInWrite
    PROVE  SInv'
<1>1. ~up'
  BY DEF Stops
<1>2. secrets' = NoSecrets /\ UNCHANGED kept /\ (vault' = vault \/ vault' = NoSecrets)
  BY DEF SecretsExit, SecretsExitInWrite
<1>3. SecretsTypes'
  BY <1>2, NoSecretsTypes DEF SInv, SecretsTypes
<1>4. PayloadsKept'
  BY <1>2 DEF SInv, PayloadsKept, Known, NoSecrets, NoSecret
<1>5. Forgotten'
  BY <1>1, <1>2 DEF SInv, Forgotten, NoSecrets, NoSecret
<1>6. SecretsSaved' /\ (~DataDir => vault' = NoSecrets)
  BY <1>1, <1>2 DEF SInv, SecretsSaved
<1> QED
  BY <1>3, <1>4, <1>5, <1>6 DEF SInv

LEMMA SecretsLoadInv ==
    ASSUME SInv, Starts, SecretsLoad
    PROVE  SInv'
<1>1. secrets' = vault /\ UNCHANGED vault
      /\ kept' = [s \in Secret |-> IF vault[s].next = 0 THEN <<>> ELSE kept[s]]
  BY DEF SecretsLoad
<1>2. SecretsTypes'
  BY <1>1 DEF SInv, SecretsTypes
<1>3. PayloadsKept'
  BY <1>1 DEF SInv, PayloadsKept, Known
<1>4. Forgotten'
  BY <1>1 DEF SInv, Forgotten, Known
<1> QED
  BY <1>1, <1>2, <1>3, <1>4 DEF SInv, SecretsSaved

LEMMA NextSInv == SInv /\ [SecretsNext]_<<process, secretVars>> => SInv'
<1> SUFFICES ASSUME SInv, [SecretsNext]_<<process, secretVars>> PROVE SInv'
  OBVIOUS
<1>1. CASE SecretsApi
  <2>1. PICK s \in Secret :
          \/ CreateSecret(s) \/ DeleteSecret(s)
          \/ \E p \in Payload : AddSecretVersion(s, p)
          \/ \E id \in {Latest} \cup 1..MaxVersions :
                EnableSecretVersion(s, id) \/ DisableSecretVersion(s, id) \/ DestroySecretVersion(s, id)
    BY <1>1 DEF SecretsApi
  <2> QED
    BY <2>1, CreateInv, DeleteInv, AddInv, StateInv, DestroyVersionInv
<1>2. CASE Stops /\ (SecretsExit \/ SecretsExitInWrite)
  BY <1>2, SecretsExitInv
<1>3. CASE Starts /\ SecretsLoad
  BY <1>3, SecretsLoadInv
<1>4. CASE UNCHANGED <<process, secretVars>>
  BY <1>4 DEF process, secretVars, SInv, SecretsTypes, PayloadsKept, SecretsSaved, Forgotten, Known
<1> QED
  BY <1>1, <1>2, <1>3, <1>4 DEF SecretsNext

LEMMA SInvHolds == SecretsSpec => []SInv
  BY InitSInv, NextSInv, PTL DEF SecretsSpec

-----------------------------------------------------------------------------

(* The versions of a secret are those its clients added, each under its    *)
(* number and with its own payload until it is destroyed, in memory and in *)
(* the file, through deletions, re-creations and restarts.                 *)
THEOREM PayloadsAreKept == SecretsSpec => []PayloadsKept
<1>1. SInv => PayloadsKept
  BY DEF SInv
<1> QED
  BY <1>1, SInvHolds, PTL

(* What a call was answered for is in the file.                            *)
THEOREM AnsweredCallsSaved == SecretsSpec => []SecretsSaved
<1>1. SInv => SecretsSaved
  BY DEF SInv
<1> QED
  BY <1>1, SInvHolds, PTL

-----------------------------------------------------------------------------
(* Cloud KMS.                                                              *)

KeyVersion == [state : {"absent", "enabled", "destroyed"}, kind : Kind \cup {NoKind},
            material : Material \cup {NoMaterial}]

(* The material of a version is drawn, and not yet destroyed; and no two   *)
(* versions have the same.                                                 *)
MaterialsOK ==
    /\ retired \subseteq 1..generated
    /\ \A k \in Key : versions[k].state = "enabled" =>
          versions[k].material \in 1..generated /\ versions[k].material \notin retired
    /\ \A k, j \in Key :
          versions[k].state = "enabled" /\ versions[j].state = "enabled"
          /\ versions[k].material = versions[j].material => k = j

(* In one run of the process a key has one version, so its products of     *)
(* this run are made from the material of that version, and no others are. *)
ProductsOK ==
    /\ \A k \in Key : versions[k].state # "absent" => keys[k] # NoKind
    /\ \A c \in products :
          /\ c.run <= exits /\ c.material \in 1..generated
          /\ c.run = exits => up /\ keys[c.key] # NoKind
          /\ versions[c.key].state = "enabled" /\ c.run = exits =>
                versions[c.key].material = c.material
          /\ \A k \in Key : versions[k].state = "enabled" /\ versions[k].material = c.material =>
                k = c.key /\ c.run = exits

(* A client presents what it was given.                                    *)
RpcsOK == \A r \in KeyClient : rpcs[r].op \in Checks => rpcs[r].given \in products

KInv == KeysTypeOK /\ MaterialsOK /\ ProductsOK /\ RpcsOK /\ RoundTrip

-----------------------------------------------------------------------------

LEMMA KInvFacts ==
    ASSUME KInv
    PROVE  /\ versions \in [Key -> KeyVersion] /\ keys \in [Key -> Kind \cup {NoKind}]
           /\ generated \in Nat /\ exits \in Nat /\ generated <= MaxMaterial
           /\ rpcs \in [KeyClient -> Rpc] /\ products \in SUBSET Product
           /\ retired \in SUBSET Material
  BY KeyAssumption, ProcessAssumption DEF KInv, KeysTypeOK, ProcessTypeOK, KeyVersion

LEMMA VersionFacts ==
    ASSUME KInv, NEW k \in Key
    PROVE  /\ versions[k] \in KeyVersion
           /\ versions[k].material # NoMaterial <=> versions[k].state = "enabled"
           /\ versions[k].kind \in Kind \cup {NoKind}
  BY DEF KInv, KeysTypeOK, KeyVersion

LEMMA RpcFacts ==
    ASSUME KInv, NEW r \in KeyClient, rpcs[r].op \in Makes \cup Checks
    PROVE  /\ rpcs[r].key \in Key /\ rpcs[r].text \in Text
           /\ rpcs[r].op \in Checks => rpcs[r].given \in products /\ rpcs[r].given \in Product
<1>1. rpcs[r] \in Rpc
  BY KInvFacts
<1>2. rpcs[r] # IdleRpc
  BY DEF IdleRpc, Makes, Checks
<1>3. \/ rpcs[r] \in [op : Makes, key : Key, text : Text]
      \/ rpcs[r] \in [op : Checks, key : Key, text : Text, given : Product]
  BY <1>1, <1>2 DEF Rpc
<1>4. rpcs[r].key \in Key /\ rpcs[r].text \in Text
  BY <1>3
<1> QED
  BY <1>4, KInvFacts DEF KInv, RpcsOK

(* Steps that touch no version, and make no product and no answer.         *)
LEMMA KeysKept ==
    ASSUME KInv, ProcessTypeOK', UNCHANGED <<process, keys, versions, generated, products, answer, retired>>,
           keyRings' \in SUBSET KeyRing, rpcs' \in [KeyClient -> Rpc], RpcsOK'
    PROVE  KInv'
<1>1. KeysTypeOK'
  BY DEF KInv, KeysTypeOK
<1>2. MaterialsOK' /\ ProductsOK'
  BY DEF KInv, MaterialsOK, ProductsOK, process
<1>3. RoundTrip'
  BY DEF KInv, RoundTrip
<1> QED
  BY <1>1, <1>2, <1>3 DEF KInv

LEMMA RingInv ==
    ASSUME KInv, NEW g \in KeyRing, CreateKeyRing(g)
    PROVE  KInv'
<1>1. UNCHANGED <<process, keys, versions, generated, products, answer, retired, rpcs>>
      /\ keyRings' = keyRings \cup {g}
  BY DEF CreateKeyRing
<1>2. ProcessTypeOK' /\ keyRings' \in SUBSET KeyRing /\ rpcs' \in [KeyClient -> Rpc]
  BY <1>1 DEF KInv, KeysTypeOK, ProcessTypeOK, process
<1>3. RpcsOK'
  BY <1>1 DEF KInv, RpcsOK
<1> QED
  BY <1>1, <1>2, <1>3, KeysKept

LEMMA CreateKeyInv ==
    ASSUME KInv, NEW k \in Key, NEW kind \in Kind, CreateCryptoKey(k, kind)
    PROVE  KInv'
<1> DEFINE v == [state |-> "enabled", kind |-> kind, material |-> generated + 1]
<1>1. /\ up /\ keys[k] = NoKind /\ generated < MaxMaterial /\ generated' = generated + 1
      /\ keys' = [keys EXCEPT ![k] = kind] /\ versions' = [versions EXCEPT ![k] = v]
      /\ UNCHANGED <<process, keyRings, rpcs, products, answer, retired>>
  BY DEF CreateCryptoKey, CanCreate
<1>2. generated + 1 \in Material /\ generated' \in 0..MaxMaterial
  BY <1>1, KInvFacts, KeyAssumption DEF Material
<1>3. /\ v \in KeyVersion /\ v.state = "enabled" /\ v.material = generated + 1
      /\ v.material # NoMaterial
  BY <1>2, KInvFacts DEF KeyVersion, NoMaterial
<1> HIDE DEF v
<1>4. versions' \in [Key -> KeyVersion] /\ \A j \in Key : versions'[j] = IF j = k THEN v ELSE versions[j]
  BY <1>1, <1>3, KInvFacts
<1>5. keys' \in [Key -> Kind \cup {NoKind}]
      /\ \A j \in Key : keys'[j] = IF j = k THEN kind ELSE keys[j]
  BY <1>1, KInvFacts
<1>6. KeysTypeOK'
  <2>1. \A j \in Key : versions'[j].material # NoMaterial <=> versions'[j].state = "enabled"
    BY <1>3, <1>4, VersionFacts
  <2> QED
    BY <1>1, <1>2, <1>4, <1>5, <2>1 DEF KInv, KeysTypeOK, ProcessTypeOK, process, KeyVersion
<1>7. generated + 1 \notin retired /\ generated + 1 \notin 1..generated
      /\ 1..generated \subseteq 1..generated' /\ generated + 1 \in 1..generated'
  BY <1>1, KInvFacts DEF KInv, MaterialsOK
<1>8. MaterialsOK'
  <2>1. retired' \subseteq 1..generated'
    BY <1>1, <1>7 DEF KInv, MaterialsOK
  <2>2. ASSUME NEW j \in Key, versions'[j].state = "enabled"
        PROVE  versions'[j].material \in 1..generated' /\ versions'[j].material \notin retired'
    <3>1. CASE j = k
      BY <1>1, <1>3, <1>4, <1>7, <3>1
    <3>2. CASE j # k
      BY <1>1, <1>4, <1>7, <2>2, <3>2 DEF KInv, MaterialsOK
    <3> QED
      BY <3>1, <3>2
  <2>3. ASSUME NEW i \in Key, NEW j \in Key,
               versions'[i].state = "enabled", versions'[j].state = "enabled",
               versions'[i].material = versions'[j].material
        PROVE  i = j
    <3>1. ASSUME NEW l \in Key, l # k, versions'[l].state = "enabled" PROVE versions'[l].material # generated + 1
      BY <1>4, <1>7, <3>1 DEF KInv, MaterialsOK
    <3>2. CASE i = k \/ j = k
      BY <1>3, <1>4, <2>3, <3>1, <3>2
    <3>3. CASE i # k /\ j # k
      BY <1>4, <2>3, <3>3 DEF KInv, MaterialsOK
    <3> QED
      BY <3>2, <3>3
  <2> QED
    BY <2>1, <2>2, <2>3 DEF MaterialsOK
<1>9. ProductsOK'
  <2>1. \A j \in Key : versions'[j].state # "absent" => keys'[j] # NoKind
    BY <1>4, <1>5 DEF KInv, ProductsOK, Kind, NoKind
  <2>2. ASSUME NEW c \in products'
        PROVE  /\ c.run <= exits' /\ c.material \in 1..generated'
               /\ c.run = exits' => up' /\ keys'[c.key] # NoKind
               /\ versions'[c.key].state = "enabled" /\ c.run = exits' =>
                     versions'[c.key].material = c.material
               /\ \A j \in Key : versions'[j].state = "enabled" /\ versions'[j].material = c.material =>
                     j = c.key /\ c.run = exits'
    <3>1. c \in products /\ c.key \in Key
      BY <1>1, <2>2, KInvFacts DEF Product
    <3>2. /\ c.run <= exits /\ c.material \in 1..generated
          /\ c.run = exits => up /\ keys[c.key] # NoKind
          /\ versions[c.key].state = "enabled" /\ c.run = exits =>
                versions[c.key].material = c.material
          /\ \A j \in Key : versions[j].state = "enabled" /\ versions[j].material = c.material =>
                j = c.key /\ c.run = exits
      BY <3>1 DEF KInv, ProductsOK
    <3>3. c.run = exits => c.key # k
      BY <1>1, <3>2
    <3>4. UNCHANGED <<up, exits>>
      BY <1>1 DEF process
    <3>5. c.run = exits' => up' /\ keys'[c.key] # NoKind
      BY <1>5, <3>1, <3>2, <3>3, <3>4
    <3>6. versions'[c.key].state = "enabled" /\ c.run = exits' => versions'[c.key].material = c.material
      BY <1>4, <3>1, <3>2, <3>3, <3>4
    <3>7. ASSUME NEW j \in Key, versions'[j].state = "enabled", versions'[j].material = c.material
          PROVE  j = c.key /\ c.run = exits'
      <4>1. j # k
        BY <1>3, <1>4, <1>7, <3>2, <3>7
      <4> QED
        BY <1>4, <3>2, <3>4, <3>7, <4>1
    <3> QED
      BY <1>7, <3>2, <3>4, <3>5, <3>6, <3>7
  <2> QED
    BY <2>1, <2>2 DEF ProductsOK
<1>10. RpcsOK' /\ RoundTrip'
  BY <1>1 DEF KInv, RpcsOK, RoundTrip
<1> QED
  BY <1>6, <1>8, <1>9, <1>10 DEF KInv

LEMMA DestroyKeyInv ==
    ASSUME KInv, NEW k \in Key, DestroyCryptoKeyVersion(k)
    PROVE  KInv'
<1> DEFINE v == Destroyed(versions[k])
<1>1. /\ versions' = [versions EXCEPT ![k] = v]
      /\ retired' = retired \cup ({versions[k].material} \ {NoMaterial})
      /\ versions[k].state # "absent"
      /\ UNCHANGED <<process, keyRings, keys, rpcs, generated, products, answer>>
  BY DEF DestroyCryptoKeyVersion
<1>2. v \in KeyVersion /\ v.state = "destroyed" /\ v.material = NoMaterial
  BY VersionFacts DEF Destroyed, KeyVersion
<1> HIDE DEF v
<1>3. versions' \in [Key -> KeyVersion] /\ \A j \in Key : versions'[j] = IF j = k THEN v ELSE versions[j]
  BY <1>1, <1>2, KInvFacts
<1>4. \A j \in Key : versions'[j].state = "enabled" => j # k /\ versions[j].state = "enabled"
                       /\ versions'[j] = versions[j]
  BY <1>2, <1>3
<1>5. retired' \subseteq 1..generated /\ retired' \in SUBSET Material
      /\ \A m \in retired' : m \in retired \/ (versions[k].state = "enabled" /\ m = versions[k].material)
  <2>1. retired \subseteq 1..generated
    BY DEF KInv, MaterialsOK
  <2>2. versions[k].material # NoMaterial => versions[k].material \in 1..generated /\ versions[k].state = "enabled"
    BY VersionFacts DEF KInv, MaterialsOK
  <2>3. retired' \subseteq 1..generated
    BY <1>1, <2>1, <2>2
  <2>4. 1..generated \subseteq Material
    BY KInvFacts, KeyAssumption DEF Material
  <2> QED
    BY <1>1, <2>2, <2>3, <2>4
<1>6. KeysTypeOK'
  <2>1. \A j \in Key : versions'[j].material # NoMaterial <=> versions'[j].state = "enabled"
    BY <1>2, <1>3, VersionFacts
  <2> QED
    BY <1>1, <1>3, <1>5, <2>1 DEF KInv, KeysTypeOK, ProcessTypeOK, process, KeyVersion
<1>7. MaterialsOK'
  <2>1. ASSUME NEW j \in Key, versions'[j].state = "enabled"
        PROVE  versions'[j].material \in 1..generated' /\ versions'[j].material \notin retired'
    <3>1. j # k /\ versions[j].state = "enabled" /\ versions'[j] = versions[j]
      BY <1>4, <2>1
    <3> QED
      BY <1>1, <1>5, <3>1 DEF KInv, MaterialsOK
  <2> QED
    BY <1>1, <1>4, <1>5, <2>1 DEF KInv, MaterialsOK
<1>8. ProductsOK'
  <2>1. \A j \in Key : versions'[j].state # "absent" => versions[j].state # "absent"
    BY <1>1, <1>3
  <2>2. \A c \in products : c.key \in Key
    BY KInvFacts DEF Product
  <2> QED
    BY <1>1, <1>4, <2>1, <2>2 DEF KInv, ProductsOK, process
<1>9. RpcsOK' /\ RoundTrip'
  BY <1>1 DEF KInv, RpcsOK, RoundTrip
<1> QED
  BY <1>6, <1>7, <1>8, <1>9 DEF KInv

-----------------------------------------------------------------------------
(* The two steps of an RPC.                                                *)

LEMMA RpcChanged ==
    ASSUME KInv, NEW r \in KeyClient, NEW q \in Rpc, rpcs' = [rpcs EXCEPT ![r] = q],
           q.op \in Checks => q.given \in products', products \subseteq products'
    PROVE  rpcs' \in [KeyClient -> Rpc] /\ RpcsOK'
  BY KInvFacts DEF KInv, RpcsOK

LEMMA IdleRpcIs == IdleRpc \in Rpc /\ IdleRpc.op \notin Checks /\ IdleRpc.op \notin Makes
  BY DEF IdleRpc, Rpc, Checks, Makes

LEMMA FindInv ==
    ASSUME KInv, NEW r \in KeyClient, NEW k \in Key, NEW text \in Text,
           \/ \E op \in Makes : FindToMake(r, op, k, text)
           \/ \E op \in Checks, given \in products : FindToCheck(r, op, k, text, given)
    PROVE  KInv'
<1>1. UNCHANGED <<process, keyRings, keys, versions, generated, products, answer, retired>>
  BY DEF FindToMake, FindToCheck
<1>2. \E q \in Rpc : rpcs' = [rpcs EXCEPT ![r] = q] /\ (q.op \in Checks => q.given \in products)
  <2>1. ASSUME NEW op \in Makes, FindToMake(r, op, k, text)
        PROVE  \E q \in Rpc : rpcs' = [rpcs EXCEPT ![r] = q] /\ (q.op \in Checks => q.given \in products)
    <3> DEFINE q == [op |-> op, key |-> k, text |-> text]
    <3>1. q \in Rpc /\ q.op \notin Checks
      BY DEF Rpc, Makes, Checks
    <3>2. rpcs' = [rpcs EXCEPT ![r] = q]
      BY <2>1 DEF FindToMake
    <3> HIDE DEF q
    <3> QED
      BY <3>1, <3>2
  <2>2. ASSUME NEW op \in Checks, NEW given \in products, FindToCheck(r, op, k, text, given)
        PROVE  \E q \in Rpc : rpcs' = [rpcs EXCEPT ![r] = q] /\ (q.op \in Checks => q.given \in products)
    <3> DEFINE q == [op |-> op, key |-> k, text |-> text, given |-> given]
    <3>1. q \in Rpc /\ q.given = given
      BY KInvFacts DEF Rpc
    <3>2. rpcs' = [rpcs EXCEPT ![r] = q]
      BY <2>2 DEF FindToCheck
    <3> HIDE DEF q
    <3> QED
      BY <3>1, <3>2
  <2> QED
    BY <2>1, <2>2
<1>3. rpcs' \in [KeyClient -> Rpc] /\ RpcsOK'
  BY <1>1, <1>2, RpcChanged
<1>4. ProcessTypeOK' /\ keyRings' \in SUBSET KeyRing
  BY <1>1 DEF KInv, KeysTypeOK, ProcessTypeOK, process
<1> QED
  BY <1>1, <1>3, <1>4, KeysKept

LEMMA RefuseInv ==
    ASSUME KInv, NEW r \in KeyClient, Refuse(r)
    PROVE  KInv'
<1>1. UNCHANGED <<process, keyRings, keys, versions, generated, products, answer, retired>>
      /\ rpcs' = [rpcs EXCEPT ![r] = IdleRpc]
  BY DEF Refuse
<1>2. rpcs' \in [KeyClient -> Rpc] /\ RpcsOK'
  BY <1>1, IdleRpcIs, RpcChanged
<1>3. ProcessTypeOK' /\ keyRings' \in SUBSET KeyRing
  BY <1>1 DEF KInv, KeysTypeOK, ProcessTypeOK, process
<1> QED
  BY <1>1, <1>2, <1>3, KeysKept

LEMMA MakeInv ==
    ASSUME KInv, NEW r \in KeyClient, Make(r)
    PROVE  /\ KInv'
           /\ \A c \in products' \ products : c.material \notin retired
<1> DEFINE q == rpcs[r]
           k == q.key
           v == versions[k]
           p == [key |-> k, kind |-> v.kind, material |-> v.material, text |-> q.text, run |-> exits]
<1>1. /\ up /\ q.op \in Makes /\ v.state = "enabled" /\ v.kind = KindFor[q.op]
      /\ rpcs' = [rpcs EXCEPT ![r] = IdleRpc] /\ products' = products \cup {p}
      /\ UNCHANGED <<process, keyRings, keys, versions, generated, answer, retired>>
  BY DEF Make, Usable
<1>2. k \in Key /\ q.text \in Text
  BY <1>1, RpcFacts
<1>3. v.material \in 1..generated /\ v.material \notin retired /\ v.material \in Material
  <2>1. v.material \in 1..generated /\ v.material \notin retired
    BY <1>1, <1>2 DEF KInv, MaterialsOK
  <2> QED
    BY <2>1, KInvFacts, KeyAssumption DEF Material
<1>4. v.kind \in Kind
  BY <1>1 DEF KindFor, Makes, Kind
<1>5. /\ p \in Product /\ p.key = k /\ p.material = v.material /\ p.run = exits
  BY <1>2, <1>3, <1>4, KInvFacts DEF Product
<1>6. rpcs' \in [KeyClient -> Rpc] /\ RpcsOK'
  BY <1>1, IdleRpcIs, RpcChanged
<1> HIDE DEF p
<1>7. KeysTypeOK'
  <2>1. products' \in SUBSET Product
    BY <1>1, <1>5, KInvFacts
  <2> QED
    BY <1>1, <1>6, <2>1 DEF KInv, KeysTypeOK, ProcessTypeOK, process
<1>8. MaterialsOK'
  BY <1>1 DEF KInv, MaterialsOK
<1>9. ProductsOK'
  <2>1. ASSUME NEW c \in products'
        PROVE  /\ c.run <= exits /\ c.material \in 1..generated
               /\ c.run = exits => up /\ keys[c.key] # NoKind
               /\ versions[c.key].state = "enabled" /\ c.run = exits =>
                     versions[c.key].material = c.material
               /\ \A j \in Key : versions[j].state = "enabled" /\ versions[j].material = c.material =>
                     j = c.key /\ c.run = exits
    <3>1. CASE c \in products
      BY <3>1 DEF KInv, ProductsOK
    <3>2. CASE c = p
      <4>1. \A j \in Key : versions[j].state = "enabled" /\ versions[j].material = v.material => j = k
        BY <1>1, <1>2 DEF KInv, MaterialsOK
      <4>2. keys[k] # NoKind
        BY <1>1, <1>2 DEF KInv, ProductsOK
      <4>3. c.run <= exits
        BY <1>5, <3>2, KInvFacts
      <4> HIDE DEF v, k
      <4> QED
        BY <1>1, <1>3, <1>5, <3>2, <4>1, <4>2, <4>3 DEF v
    <3> QED
      BY <1>1, <2>1, <3>1, <3>2
  <2> QED
    BY <1>1, <2>1 DEF KInv, ProductsOK, process
<1>10. RoundTrip'
  BY <1>1 DEF KInv, RoundTrip
<1>11. \A c \in products' \ products : c.material \notin retired
  BY <1>1, <1>3, <1>5
<1> QED
  BY <1>6, <1>7, <1>8, <1>9, <1>10, <1>11 DEF KInv

LEMMA CheckInv ==
    ASSUME KInv, NEW r \in KeyClient, Check(r)
    PROVE  /\ KInv'
           /\ answer'.material \notin retired
<1> DEFINE q == rpcs[r]
           k == q.key
           v == versions[k]
           given == q.given
           plain == IF q.op = "Decrypt" THEN Decrypted(v, given) ELSE Garbage
           success == q.op = "MacVerify" /\ Verified(v, given, q.text)
           a == [op |-> q.op, key |-> k, text |-> q.text, given |-> given,
                 material |-> v.material, run |-> exits, plain |-> plain, success |-> success]
<1>1. /\ up /\ q.op \in Checks /\ v.state = "enabled" /\ v.kind = KindFor[q.op]
      /\ rpcs' = [rpcs EXCEPT ![r] = IdleRpc] /\ answer' = a
      /\ UNCHANGED <<process, keyRings, keys, versions, generated, products, retired>>
  BY DEF Check, Usable
<1>2. k \in Key /\ q.text \in Text /\ given \in products /\ given \in Product
  BY <1>1, RpcFacts
<1>3. v.material \in 1..generated /\ v.material \notin retired /\ v.material \in Material
  <2>1. v.material \in 1..generated /\ v.material \notin retired
    BY <1>1, <1>2 DEF KInv, MaterialsOK
  <2> QED
    BY <2>1, KInvFacts, KeyAssumption DEF Material
<1>4. given.text \in Text /\ plain \in Text \cup {Garbage}
  BY <1>2 DEF Decrypted, Product
<1>5. success \in BOOLEAN
  OBVIOUS
<1>6. v.material = given.material <=> (given.key = k /\ given.run = exits)
  BY <1>1, <1>2 DEF KInv, ProductsOK
<1>7. q.op = "Decrypt" => plain = IF given.key = k /\ given.run = exits THEN given.text ELSE Garbage
  BY <1>6 DEF Decrypted
<1>8. q.op = "MacVerify" => (success <=> (given.key = k /\ given.run = exits /\ given.text = q.text))
  BY <1>6 DEF Verified
<1> HIDE DEF plain, success, v, k, q, given
<1>9. /\ a.op = q.op /\ a.key = k /\ a.text = q.text /\ a.given = given /\ a.material = v.material
      /\ a.run = exits /\ a.plain = plain
  OBVIOUS
<1>10. a.success = success
  BY Zenon
<1>11. a \in Answer
  <2>1. exits \in Nat
    BY KInvFacts
  <2> QED
    BY <1>1, <1>2, <1>3, <1>4, <1>5, <2>1 DEF Answer
<1> HIDE DEF a
<1>12. rpcs' \in [KeyClient -> Rpc] /\ RpcsOK'
  BY <1>1, IdleRpcIs, RpcChanged DEF q
<1>13. KeysTypeOK'
  BY <1>1, <1>11, <1>12 DEF KInv, KeysTypeOK, ProcessTypeOK, process
<1>14. MaterialsOK' /\ ProductsOK'
  BY <1>1 DEF KInv, MaterialsOK, ProductsOK, process
<1>15. RoundTrip'
  <2>1. a.op = "Decrypt" =>
            a.plain = IF a.given.key = a.key /\ a.given.run = a.run THEN a.given.text ELSE Garbage
    BY <1>7, <1>9
  <2>2. ASSUME a.op = "MacVerify"
        PROVE  a.success = ((a.given.key = a.key /\ a.given.run = a.run) /\ a.given.text = a.text)
    <3>1. success <=> ((given.key = k /\ given.run = exits) /\ given.text = q.text)
      BY <1>8, <1>9, <2>2
    <3>2. success = ((given.key = k /\ given.run = exits) /\ given.text = q.text)
      BY <1>5, <3>1
    <3> QED
      BY <1>9, <1>10, <3>2, Zenon
  <2> QED
    BY <1>1, <2>1, <2>2, Zenon DEF RoundTrip
<1>16. answer'.material \notin retired
  BY <1>1, <1>3, <1>9
<1> QED
  BY <1>12, <1>13, <1>14, <1>15, <1>16 DEF KInv

-----------------------------------------------------------------------------
(* The process ends and starts, and the whole.                             *)

LEMMA ExitKeysInv ==
    ASSUME KInv, Stops, KeysExit
    PROVE  KInv'
<1>1. /\ keyRings' = {} /\ keys' = [k \in Key |-> NoKind] /\ versions' = NoVersions
      /\ rpcs' = NoRpcs /\ exits' = exits + 1 /\ exits < MaxExits /\ up' = FALSE
      /\ UNCHANGED <<generated, products, answer, retired>>
  BY DEF Stops, KeysExit
<1>2. /\ NoVersion \in KeyVersion /\ NoVersion.state = "absent" /\ NoVersion.material = NoMaterial
  BY DEF NoVersion, KeyVersion
<1>3. versions' \in [Key -> KeyVersion] /\ \A k \in Key : versions'[k] = NoVersion
  BY <1>1, <1>2 DEF NoVersions
<1>4. rpcs' \in [KeyClient -> Rpc] /\ \A r \in KeyClient : rpcs'[r] = IdleRpc
  BY <1>1, IdleRpcIs DEF NoRpcs
<1>5. KeysTypeOK'
  <2>1. keys' \in [Key -> Kind \cup {NoKind}]
    BY <1>1
  <2>2. \A k \in Key : versions'[k].material # NoMaterial <=> versions'[k].state = "enabled"
    BY <1>2, <1>3
  <2>4. exits' \in 0..MaxExits
    BY <1>1, KInvFacts, ProcessAssumption
  <2>3. ProcessTypeOK'
    BY <1>1, <2>4 DEF ProcessTypeOK
  <2> QED
    BY <1>1, <1>3, <1>4, <2>1, <2>2, <2>3 DEF KInv, KeysTypeOK, KeyVersion
<1>6. MaterialsOK'
  BY <1>1, <1>2, <1>3 DEF KInv, MaterialsOK
<1>7. ProductsOK'
  <2>1. \A c \in products : c.run \in Nat /\ c.key \in Key /\ c.run <= exits /\ c.material \in 1..generated
    BY KInvFacts DEF KInv, ProductsOK, Product
  <2>2. \A c \in products : c.run <= exits' /\ c.run # exits'
    BY <1>1, <2>1, KInvFacts
  <2> QED
    BY <1>1, <1>2, <1>3, <2>1, <2>2 DEF ProductsOK
<1>8. RpcsOK' /\ RoundTrip'
  BY <1>1, <1>4, IdleRpcIs DEF KInv, RpcsOK, RoundTrip
<1> QED
  BY <1>5, <1>6, <1>7, <1>8 DEF KInv

(* A start leaves the empty store as it is.  What was made in this run is  *)
(* nothing, as the process was not up in it.                               *)
LEMMA StartKeysInv ==
    ASSUME KInv, Starts, UNCHANGED keyVars
    PROVE  KInv'
<1>1. up' /\ UNCHANGED exits
      /\ UNCHANGED <<keyRings, keys, versions, rpcs, generated, products, answer, retired>>
  BY DEF Starts, keyVars
<1>2. KeysTypeOK'
  BY <1>1 DEF KInv, KeysTypeOK, ProcessTypeOK, Starts
<1>3. MaterialsOK' /\ RpcsOK' /\ RoundTrip'
  BY <1>1 DEF KInv, MaterialsOK, RpcsOK, RoundTrip
<1>4. ProductsOK'
  BY <1>1 DEF KInv, ProductsOK
<1> QED
  BY <1>2, <1>3, <1>4 DEF KInv

LEMMA InitKInv == ProcessInit /\ KeysInit => KInv
<1> SUFFICES ASSUME ProcessInit, KeysInit PROVE KInv
  OBVIOUS
<1>1. /\ keyRings = {} /\ keys = [k \in Key |-> NoKind] /\ versions = NoVersions /\ rpcs = NoRpcs
      /\ generated = 0 /\ products = {} /\ answer = NoAnswer /\ retired = {}
  BY DEF KeysInit
<1>2. /\ NoVersion \in KeyVersion /\ NoVersion.state = "absent" /\ NoVersion.material = NoMaterial
  BY DEF NoVersion, KeyVersion
<1>3. versions \in [Key -> KeyVersion] /\ \A k \in Key : versions[k] = NoVersion
  BY <1>1, <1>2 DEF NoVersions
<1>4. rpcs \in [KeyClient -> Rpc] /\ \A r \in KeyClient : rpcs[r] = IdleRpc
  BY <1>1, IdleRpcIs DEF NoRpcs
<1>5. KeysTypeOK
  <2>1. keys \in [Key -> Kind \cup {NoKind}] /\ NoAnswer \in Answer
    BY <1>1 DEF Answer
  <2>2. \A k \in Key : versions[k].material # NoMaterial <=> versions[k].state = "enabled"
    BY <1>2, <1>3
  <2>3. ProcessTypeOK /\ generated \in 0..MaxMaterial
    BY <1>1, ProcessAssumption, KeyAssumption DEF ProcessInit, ProcessTypeOK
  <2> QED
    BY <1>1, <1>3, <1>4, <2>1, <2>2, <2>3 DEF KeysTypeOK, KeyVersion
<1>6. MaterialsOK
  BY <1>1, <1>2, <1>3 DEF MaterialsOK
<1>7. ProductsOK /\ RpcsOK /\ RoundTrip
  BY <1>1, <1>2, <1>3, <1>4, IdleRpcIs DEF ProductsOK, RpcsOK, RoundTrip
<1> QED
  BY <1>5, <1>6, <1>7 DEF KInv

(* What a step may not do, of which the action property is a part.         *)
NotRetired ==
    /\ \A c \in products' \ products : c.material \notin retired
    /\ answer' # answer => answer'.material \notin retired

LEMMA NextKInv == KInv /\ [KeysNext]_<<process, keyVars>> => KInv' /\ NotRetired
<1> SUFFICES ASSUME KInv, [KeysNext]_<<process, keyVars>> PROVE KInv' /\ NotRetired
  OBVIOUS
<1>1. ASSUME UNCHANGED <<products, answer>> PROVE NotRetired
  BY <1>1 DEF NotRetired
<1>2. ASSUME NEW g \in KeyRing, CreateKeyRing(g) PROVE KInv' /\ NotRetired
  <2>1. UNCHANGED <<products, answer>>
    BY <1>2 DEF CreateKeyRing
  <2> QED
    BY <1>1, <1>2, <2>1, RingInv
<1>3. ASSUME NEW k \in Key, NEW kind \in Kind, CreateCryptoKey(k, kind) PROVE KInv' /\ NotRetired
  <2>1. UNCHANGED <<products, answer>>
    BY <1>3 DEF CreateCryptoKey
  <2> QED
    BY <1>1, <1>3, <2>1, CreateKeyInv
<1>4. ASSUME NEW k \in Key, DestroyCryptoKeyVersion(k) PROVE KInv' /\ NotRetired
  <2>1. UNCHANGED <<products, answer>>
    BY <1>4 DEF DestroyCryptoKeyVersion
  <2> QED
    BY <1>1, <1>4, <2>1, DestroyKeyInv
<1>5. ASSUME NEW r \in KeyClient, NEW k \in Key, NEW text \in Text,
             \/ \E op \in Makes : FindToMake(r, op, k, text)
             \/ \E op \in Checks, given \in products : FindToCheck(r, op, k, text, given)
      PROVE  KInv' /\ NotRetired
  <2>1. UNCHANGED <<products, answer>>
    BY <1>5 DEF FindToMake, FindToCheck
  <2> QED
    BY <1>1, <1>5, <2>1, FindInv
<1>6. ASSUME NEW r \in KeyClient, Refuse(r) PROVE KInv' /\ NotRetired
  <2>1. UNCHANGED <<products, answer>>
    BY <1>6 DEF Refuse
  <2> QED
    BY <1>1, <1>6, <2>1, RefuseInv
<1>7. ASSUME NEW r \in KeyClient, Make(r) PROVE KInv' /\ NotRetired
  <2>1. UNCHANGED answer
    BY <1>7 DEF Make
  <2> QED
    BY <1>7, <2>1, MakeInv DEF NotRetired
<1>8. ASSUME NEW r \in KeyClient, Check(r) PROVE KInv' /\ NotRetired
  <2>1. UNCHANGED products
    BY <1>8 DEF Check
  <2> QED
    BY <1>8, <2>1, CheckInv DEF NotRetired
<1>9. CASE Stops /\ KeysExit
  <2>1. UNCHANGED <<products, answer>>
    BY <1>9 DEF KeysExit
  <2> QED
    BY <1>1, <1>9, <2>1, ExitKeysInv
<1>10. CASE Starts /\ UNCHANGED keyVars
  <2>1. UNCHANGED <<products, answer>>
    BY <1>10 DEF keyVars
  <2> QED
    BY <1>1, <1>10, <2>1, StartKeysInv
<1>11. CASE UNCHANGED <<process, keyVars>>
  <2>1. UNCHANGED <<up, exits>>
        /\ UNCHANGED <<keyRings, keys, versions, rpcs, generated, products, answer, retired>>
    BY <1>11 DEF process, keyVars
  <2>2. KeysTypeOK'
    BY <2>1 DEF KInv, KeysTypeOK, ProcessTypeOK
  <2>3. MaterialsOK' /\ ProductsOK' /\ RpcsOK' /\ RoundTrip'
    BY <2>1 DEF KInv, MaterialsOK, ProductsOK, RpcsOK, RoundTrip
  <2> QED
    BY <1>1, <2>1, <2>2, <2>3 DEF KInv
<1>12. CASE KeysApi
  BY <1>2, <1>3, <1>4, <1>5, <1>12 DEF KeysApi
<1>13. CASE KeysStep
  BY <1>6, <1>7, <1>8, <1>13 DEF KeysStep
<1> QED
  BY <1>9, <1>10, <1>11, <1>12, <1>13 DEF KeysNext

LEMMA KeysInvariant == KeysSpec => []KInv
  BY InitKInv, NextKInv, PTL DEF KeysSpec

(* Every variable has its type; enabled versions are those with material.  *)
THEOREM KeysAreTyped == KeysSpec => []KeysTypeOK
<1>1. KInv => KeysTypeOK
  BY DEF KInv
<1> QED
  BY <1>1, KeysInvariant, PTL

(* A process reads what it made under the same key, and nothing else,      *)
(* though each call looks its version up twice.                            *)
THEOREM ProductsRoundTrip == KeysSpec => []RoundTrip
<1>1. KInv => RoundTrip
  BY DEF KInv
<1> QED
  BY <1>1, KeysInvariant, PTL

(* No step makes or checks anything with material that was destroyed.      *)
THEOREM DestroyedIsUnused == KeysSpec => NeverUsedAgain
<1>1. KInv /\ [KeysNext]_<<process, keyVars>> => [NotRetired]_keyVars
  BY NextKInv
<1>2. KeysSpec => [][NotRetired]_keyVars
  BY <1>1, KeysInvariant, PTL DEF KeysSpec
<1> QED
  BY <1>2, PTL DEF NeverUsedAgain, NotRetired

-----------------------------------------------------------------------------
(* One process with all of them.  What a client of one service does leaves *)
(* the process and the other services alone, and an exit and a start are   *)
(* an exit and a start of each: a step of the whole is, for each service,  *)
(* a step of its own specification or none.                                *)

StoresInv == StInv /\ SInv /\ KInv /\ QInv

LEMMA StorageIsApart == StorageStep => UNCHANGED process
<1> SUFFICES ASSUME StorageStep PROVE UNCHANGED process
  OBVIOUS
<1>1. CASE StorageApi
  BY <1>1 DEF StorageApi, CreateBucket, DeleteBucket, DeleteObject, CopyObject
<1>2. CASE UploadRequest
  BY <1>2 DEF UploadRequest, StartSession, BeginUpload, BeginChunk
<1>3. CASE UploadStep
  BY <1>3 DEF UploadStep, BodyLost, PutMedia, WriteBegin, WriteEnd, PutChunk, CloseSession
<1> QED
  BY <1>1, <1>2, <1>3 DEF StorageStep

LEMMA SecretsAreApart == SecretsApi => UNCHANGED process
  BY DEF SecretsApi, CreateSecret, DeleteSecret, AddSecretVersion, EnableSecretVersion,
         DisableSecretVersion, DestroySecretVersion

LEMMA KeysAreApart == KeysApi \/ KeysStep => UNCHANGED process
  BY DEF KeysApi, KeysStep, CreateKeyRing, CreateCryptoKey, DestroyCryptoKeyVersion,
         FindToMake, FindToCheck, Refuse, Make, Check

(* The process stands still, and at most one service moves; or the process *)
(* moves, and all that it runs with it.                                    *)
LEMMA StepsOfStores ==
    ASSUME [Next]_all
    PROVE  \/ UNCHANGED process
              /\ \/ StorageStep /\ UNCHANGED <<secretVars, keyVars>>
                 \/ SecretsApi /\ UNCHANGED <<storage, keyVars>>
                 \/ (KeysApi \/ KeysStep) /\ UNCHANGED <<storage, secretVars>>
                 \/ UNCHANGED <<storage, secretVars, keyVars>>
           \/ Stops /\ (StorageExit \/ StorageExitInWrite) /\ (SecretsExit \/ SecretsExitInWrite) /\ KeysExit
           \/ Starts /\ StorageLoad /\ SecretsLoad /\ UNCHANGED keyVars
<1>1. CASE ClientStep
  BY <1>1, StorageIsApart, SecretsAreApart, KeysAreApart DEF ClientStep, StorageStep
<1>2. CASE HandlerStep
  BY <1>2, StorageIsApart, KeysAreApart DEF HandlerStep, StorageStep
<1>3. CASE ProcessStep
  BY <1>3 DEF ProcessStep
<1>4. CASE UNCHANGED all
  BY <1>4 DEF all
<1> QED
  BY <1>1, <1>2, <1>3, <1>4 DEF Next

LEMMA StepsOfStorage == [Next]_all => [StorageNext]_<<process, storage>>
  BY StepsOfStores DEF StorageNext

LEMMA StepsOfSecrets == [Next]_all => [SecretsNext]_<<process, secretVars>>
  BY StepsOfStores DEF SecretsNext

LEMMA StepsOfKeys == [Next]_all => [KeysNext]_<<process, keyVars>>
  BY StepsOfStores DEF KeysNext

(* A process that answers queries does not exit meanwhile, and no other    *)
(* service touches documents.                                              *)
LEMMA StepsOfQueries == [Next]_all => [QueriesApi \/ QueriesStep]_queryVars
<1> SUFFICES ASSUME [Next]_all PROVE [QueriesApi \/ QueriesStep]_queryVars
  OBVIOUS
<1>1. CASE ClientStep
  BY <1>1 DEF ClientStep
<1>2. CASE HandlerStep
  BY <1>2 DEF HandlerStep
<1>3. CASE ProcessStep
  BY <1>3 DEF ProcessStep
<1>4. CASE UNCHANGED all
  BY <1>4 DEF all
<1> QED
  BY <1>1, <1>2, <1>3, <1>4 DEF Next

LEMMA StoresInvariant == Spec => []StoresInv
<1>1. Init => StoresInv
  BY InitStInv, InitSInv, InitKInv, InitQInv DEF Init, StoresInv
<1>2. QInv /\ [QueriesApi \/ QueriesStep]_queryVars => QInv'
  BY QueryStepInv, QueryStutterInv
<1>3. StoresInv /\ [Next]_all => StoresInv'
  BY <1>2, StepsOfStorage, StepsOfSecrets, StepsOfKeys, StepsOfQueries, NextStInv, NextSInv, NextKInv DEF StoresInv
<1> QED
  BY <1>1, <1>3, PTL DEF Spec

(* Whatever a client of Cloud Storage or of Secret Manager was answered    *)
(* for is in its file, though one process may exit in the middle of the    *)
(* write of the one and takes both with it.                                *)
THEOREM StoresAreSaved == Spec => []AnsweredIsSaved
<1>1. StoresInv => AnsweredIsSaved
  BY DEF StoresInv, StInv, ObjectsInv, SInv, AnsweredIsSaved
<1> QED
  BY <1>1, StoresInvariant, PTL

(* In that process, too, objects have buckets and their senders' bytes, ...*)
THEOREM StoresKeepObjects == Spec => [](Housed /\ Intact)
<1>1. StoresInv => Housed /\ Intact
  BY DEF StoresInv, StInv, ObjectsInv
<1> QED
  BY <1>1, StoresInvariant, PTL

(* ... the versions of secrets are those that were added, whatever was     *)
(* destroyed, deleted and made again, ...                                  *)
THEOREM StoresKeepPayloads == Spec => []PayloadsKept
<1>1. StoresInv => PayloadsKept
  BY DEF StoresInv, SInv
<1> QED
  BY <1>1, StoresInvariant, PTL

(* ... and keys read what they made as long as the process lives.          *)
THEOREM StoresRoundTrip == Spec => []RoundTrip
<1>1. StoresInv => RoundTrip
  BY DEF StoresInv, KInv
<1> QED
  BY <1>1, StoresInvariant, PTL

(* No step of the process uses key material that was destroyed.            *)
THEOREM StoresForgetKeys == Spec => NeverUsedAgain
<1>1. StoresInv /\ [Next]_all => [NotRetired]_keyVars
  BY StepsOfKeys, NextKInv DEF StoresInv
<1>2. Spec => [][NotRetired]_keyVars
  BY <1>1, StoresInvariant, PTL DEF Spec
<1> QED
  BY <1>2, PTL DEF NeverUsedAgain, NotRetired

LEMMA StoresTypes == StoresInv => StoresTypeOK
<1> SUFFICES ASSUME StoresInv PROVE StorageTypeOK /\ SecretsTypeOK /\ KeysTypeOK /\ QueriesTypeOK
  BY DEF StoresTypeOK
<1>1. ProcessTypeOK /\ KeysTypeOK
  BY DEF StoresInv, KInv, KeysTypeOK
<1>2. SecretsTypeOK
  BY <1>1 DEF StoresInv, SInv, SecretsTypes, SecretsTypeOK, Added
<1>3. StorageTypeOK
  BY <1>1 DEF StoresInv, StInv, ObjectsInv, ObjectsTypes, Object, Blobs, Whose, SessionsInv, SessionsTypes,
              Session, UploadData, NumbersOK, StorageTypeOK
<1>4. QueriesTypeOK
  BY QueryTypes DEF StoresInv
<1> QED
  BY <1>1, <1>2, <1>3, <1>4

(* What each service keeps is what it may keep: numbers that grow, objects *)
(* of buckets that were made, versions numbered without a gap, ciphertexts *)
(* of versions that were there, documents with maps of their own.          *)
THEOREM StoresTypeCorrect == Spec => []StoresTypeOK
<1> QED
  BY StoresTypes, StoresInvariant, PTL

(* And queries, in that process, answer what they collected.               *)
THEOREM StoresAnswerAsCollected == Spec => []AnswersAsCollected
<1>1. StoresInv => AnswersAsCollected
  BY QueryAnswers DEF StoresInv
<1> QED
  BY <1>1, StoresInvariant, PTL
=============================================================================
