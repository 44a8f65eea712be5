--------------------------- MODULE ServicesProofs ---------------------------
(***************************************************************************)
(* Proofs about what stands beside the datapath (MCServices), for every    *)
(* set of routers, hosts, clients and ports and every bound and period:    *)
(* the credentials, the hub's word, the queues of what is reported, the    *)
(* provisioning of the exit and the usage books.                           *)
(***************************************************************************)
EXTENDS MCServices, SetSums, FiniteSetTheorems

-----------------------------------------------------------------------------
\* The rotation of the key.

-----------------------------------------------------------------------------
(* The rotation of the key (KeyRotation).  The talk of the two ends is kept  *)
(* by the stage the rollout is in: settled on one key set; offered at home   *)
(* and not yet served; or served, and the router anywhere on the way to it.  *)

KeyTypes ==
    /\ homeFiles \in [cur : Keys, prev : Keys \cup {NoKey}] /\ homeRun = homeFiles
    /\ homeLevel \in Levels /\ routerLevel \in Levels /\ Adjacent(homeLevel, routerLevel)
    /\ recorded \in Keys
    /\ half \in [disk : BOOLEAN, run : BOOLEAN]
    /\ certificate.left \in 0 .. CertDays /\ certificate.ours

Resting == fetched = NotRefreshing
Fetching(k) == fetched \in [at : {"previous", "record"}, keys : {k}]

OldKeys == Files(homeFiles.cur, NoKey)
TornKeys == Files(homeFiles.prev, NoKey)
NewKeys == Files(homeFiles.prev, homeFiles.cur)

\* Home signs with the only key it holds, and muster and the router hold it, with or without
\* the one before it.
OnOneKey ==
    /\ homeFiles.prev = NoKey
    /\ \/ muster = [keys |-> OldKeys, sound |-> TRUE]
       \/ muster = [keys |-> Files(homeFiles.cur, homeFiles.cur - 1), sound |-> TRUE]
    /\ routerFiles = muster.keys /\ routerRun = muster.keys
    /\ Resting \/ Fetching(muster.keys)

\* Home accepts the next key, and muster serves it not yet, or in an answer that is refused.
Unserved ==
    /\ \/ muster = [keys |-> OldKeys, sound |-> TRUE]
       \/ muster = [keys |-> Files(homeFiles.prev, homeFiles.prev), sound |-> FALSE]
    /\ routerFiles = OldKeys /\ routerRun = OldKeys
    /\ Resting \/ Fetching(OldKeys)

\* Muster serves it: the router has the old key, the new one without the old, or both, and
\* knows which files, and which load of them, are half an answer.
Served ==
    /\ muster = [keys |-> NewKeys, sound |-> TRUE]
    /\ routerFiles \in {OldKeys, TornKeys, NewKeys} /\ routerRun \in {OldKeys, TornKeys, NewKeys}
    /\ \/ Resting
       \/ Fetching(OldKeys) /\ routerFiles = OldKeys
       \/ Fetching(NewKeys) /\ routerFiles \in {TornKeys, NewKeys}
             /\ (fetched.at = "record" => routerFiles = NewKeys)
    /\ routerFiles = TornKeys => half.disk
    /\ routerRun = TornKeys => half.run

RotationInv ==
    /\ KeyTypes
    /\ \/ OnOneKey
       \/ homeFiles.prev = homeFiles.cur + 1 /\ (Unserved \/ Served)

\* The rotation's invariant holds at first.
LEMMA RotationInitInv == RotationInit => RotationInv
BY RotationAssumption DEF RotationInit, RotationInv, KeyTypes, OnOneKey, OldKeys, Files, Keys, NoKey,
   Levels, Off, Require, Adjacent, NotRefreshing, Resting

\* Every step of the sync, of home and of the recording router keeps it.
LEMMA RotationStepInv == ASSUME RotationInv, [RotationNext]_rotationVars PROVE RotationInv'
<1> USE RotationAssumption DEF RotationInv, Keys, NoKey, Levels, Off, Require
<1>1. CASE UNCHANGED rotationVars
    BY <1>1 DEF rotationVars, KeyTypes, OnOneKey, Unserved, Served, Resting, Fetching, OldKeys, TornKeys, NewKeys
<1>2. ASSUME NEW level \in Levels, HomeRung(level) PROVE RotationInv'
    BY <1>2 DEF HomeRung, BuildIdentity, KeyTypes, Adjacent, OnOneKey, Unserved, Served, Resting, Fetching,
       OldKeys, TornKeys, NewKeys
<1>3. ASSUME NEW level \in Levels, RouterRung(level) PROVE RotationInv'
    BY <1>3 DEF RouterRung, RouterLoads, BuildIdentity, KeyTypes, Adjacent, OnOneKey, Unserved, Served,
       Resting, Fetching, OldKeys, TornKeys, NewKeys, Files
<1>4. ASSUME HomeRestarts PROVE RotationInv'
    BY <1>4 DEF HomeRestarts, BuildIdentity, KeyTypes, OnOneKey, Unserved, Served, Resting, Fetching,
       OldKeys, TornKeys, NewKeys
<1>5. ASSUME RouterRestarts PROVE RotationInv'
    BY <1>5 DEF RouterRestarts, RouterLoads, BuildIdentity, KeyTypes, OnOneKey, Unserved, Served,
       Resting, Fetching, OldKeys, TornKeys, NewKeys, Files
<1>6. ASSUME HomeAcceptsNew PROVE RotationInv'
    BY <1>6 DEF HomeAcceptsNew, KeyTypes, OnOneKey, Unserved, Served, Resting, Fetching,
       OldKeys, TornKeys, NewKeys, Files
<1>7. ASSUME NEW sound \in BOOLEAN, MusterServesNew(sound) PROVE RotationInv'
  <2>1. /\ homeFiles.prev = homeFiles.cur + 1 /\ routerFiles = OldKeys /\ routerRun = OldKeys
        /\ Resting \/ Fetching(OldKeys)
      BY <1>7 DEF MusterServesNew, KeyTypes, OnOneKey, Unserved, Served, OldKeys, NewKeys, Files
  <2>2. OldKeys # TornKeys
      BY <2>1 DEF KeyTypes, OldKeys, TornKeys, Files
  <2>3. KeyTypes' /\ OldKeys' = OldKeys /\ TornKeys' = TornKeys /\ NewKeys' = NewKeys
      BY <1>7 DEF MusterServesNew, KeyTypes, OldKeys, TornKeys, NewKeys
  <2>4. (Resting \/ Fetching(OldKeys))'
      BY <1>7, <2>1, <2>3 DEF MusterServesNew, Resting, Fetching
  <2>5. CASE sound
    <3>1. muster' = [keys |-> NewKeys, sound |-> TRUE]
        BY <1>7, <2>5 DEF MusterServesNew, NewKeys
    <3> QED
        BY <1>7, <2>1, <2>2, <2>3, <2>4, <3>1 DEF MusterServesNew, Served
  <2>6. CASE ~sound
    <3>1. muster' = [keys |-> Files(homeFiles.prev, homeFiles.prev), sound |-> FALSE]
        BY <1>7, <2>6 DEF MusterServesNew
    <3> QED
        BY <1>7, <2>1, <2>3, <2>4, <3>1 DEF MusterServesNew, Unserved
  <2> QED
      BY <2>5, <2>6
<1>8. ASSUME MusterCorrected PROVE RotationInv'
  <2>1. /\ homeFiles.prev = homeFiles.cur + 1 /\ routerFiles = OldKeys /\ routerRun = OldKeys
        /\ Resting \/ Fetching(OldKeys)
        /\ muster.keys = Files(homeFiles.prev, homeFiles.prev)
      BY <1>8 DEF MusterCorrected, OnOneKey, Unserved, Served
  <2>2. OldKeys # TornKeys
      BY <2>1 DEF KeyTypes, OldKeys, TornKeys, Files
  <2>3. KeyTypes' /\ OldKeys' = OldKeys /\ TornKeys' = TornKeys /\ NewKeys' = NewKeys
      BY <1>8 DEF MusterCorrected, KeyTypes, OldKeys, TornKeys, NewKeys
  <2>4. (Resting \/ Fetching(OldKeys))'
      BY <1>8, <2>1, <2>3 DEF MusterCorrected, Resting, Fetching
  <2>5. muster' = [keys |-> NewKeys, sound |-> TRUE]
      BY <1>8, <2>1 DEF MusterCorrected, NewKeys, Files
  <2> QED
      BY <1>8, <2>1, <2>2, <2>3, <2>4, <2>5 DEF MusterCorrected, Served
<1>9. ASSUME HomeSignsNew PROVE RotationInv'
    BY <1>9 DEF HomeSignsNew, KeyTypes, OnOneKey, Unserved, Served, Resting, Fetching,
       OldKeys, TornKeys, NewKeys, Files
<1>10. ASSUME HomeRollsBack PROVE RotationInv'
    BY <1>10 DEF HomeRollsBack, KeyTypes, OnOneKey, Unserved, Served, Resting, Fetching,
       OldKeys, TornKeys, NewKeys, Files
<1>11. ASSUME RouterDropsOld PROVE RotationInv'
    BY <1>11 DEF RouterDropsOld, KeyTypes, OnOneKey, Unserved, Served, Resting, Fetching,
       OldKeys, TornKeys, NewKeys, Files
<1>12. ASSUME RefreshWritesCurrent PROVE RotationInv'
  <2>1. KeyTypes' /\ OldKeys' = OldKeys /\ TornKeys' = TornKeys /\ NewKeys' = NewKeys /\ half'.disk
      BY <1>12 DEF RefreshWritesCurrent, KeyTypes, OldKeys, TornKeys, NewKeys
  <2>2. Fetching(muster.keys)' /\ fetched' = [at |-> "previous", keys |-> muster.keys] /\ muster' = muster
      BY <1>12 DEF RefreshWritesCurrent, Fetching
  <2>3. muster.sound /\ routerFiles' = [routerFiles EXCEPT !.cur = muster.keys.cur] /\ routerRun' = routerRun
        /\ half'.run = half.run /\ homeFiles' = homeFiles
      BY <1>12 DEF RefreshWritesCurrent, Sound, KeyTypes
  <2>4. CASE OnOneKey
    <3>1. routerFiles' = routerFiles
        BY <2>3, <2>4 DEF OnOneKey, OldKeys, Files
    <3> QED
        BY <2>1, <2>2, <2>3, <2>4, <3>1 DEF OnOneKey, Fetching
  <2>5. CASE homeFiles.prev = homeFiles.cur + 1 /\ Unserved
    <3>1. routerFiles' = routerFiles /\ muster.keys = OldKeys
        BY <2>3, <2>5 DEF Unserved, OldKeys, Files
    <3> QED
        BY <2>1, <2>2, <2>3, <2>5, <3>1 DEF Unserved, Fetching
  <2>6. CASE homeFiles.prev = homeFiles.cur + 1 /\ Served
    <3>1. routerFiles' \in {TornKeys, NewKeys} /\ muster.keys = NewKeys
        BY <2>3, <2>6 DEF Served, OldKeys, TornKeys, NewKeys, Files
    <3>2. fetched'.at = "previous"
        BY <2>2
    <3> QED
        BY <2>1, <2>2, <2>3, <2>6, <3>1, <3>2 DEF Served, Fetching
  <2> QED
      BY <2>4, <2>5, <2>6
<1>13. ASSUME RefreshWritesPrevious PROVE RotationInv'
  <2> DEFINE k == fetched.keys
  <2>1. KeyTypes' /\ OldKeys' = OldKeys /\ TornKeys' = TornKeys /\ NewKeys' = NewKeys
      BY <1>13 DEF RefreshWritesPrevious, KeyTypes, OldKeys, TornKeys, NewKeys
  <2>2. ~Resting
      BY <1>13 DEF RefreshWritesPrevious, Resting, NotRefreshing
  <2>3. ASSUME NEW f, Fetching(f) PROVE Fetching(f)' /\ fetched'.at = "record" /\ k = f
      BY <1>13, <2>3 DEF RefreshWritesPrevious, Fetching
  <2>4. /\ routerFiles' = [routerFiles EXCEPT !.prev = IF k.prev = NoKey THEN @ ELSE k.prev]
        /\ routerRun' = routerRun /\ half'.run = half.run /\ homeFiles' = homeFiles /\ muster' = muster
      BY <1>13 DEF RefreshWritesPrevious, KeyTypes
  <2> HIDE DEF k
  <2>5. CASE OnOneKey
    <3>1. k = muster.keys
        BY <2>2, <2>3, <2>5 DEF OnOneKey
    <3>2. routerFiles' = routerFiles
        BY <2>4, <2>5, <3>1 DEF OnOneKey, OldKeys, Files
    <3>3. Fetching(muster.keys)'
        BY <2>2, <2>3, <2>4, <2>5 DEF OnOneKey, Fetching
    <3> QED
        BY <2>1, <2>4, <2>5, <3>2, <3>3 DEF OnOneKey
  <2>6. CASE homeFiles.prev = homeFiles.cur + 1 /\ Unserved
    <3>1. k = OldKeys /\ Fetching(OldKeys)'
        BY <2>1, <2>2, <2>3, <2>6 DEF Unserved, Fetching
    <3>2. routerFiles' = routerFiles
        BY <2>4, <2>6, <3>1 DEF Unserved, OldKeys, Files
    <3> QED
        BY <2>1, <2>4, <2>6, <3>1, <3>2 DEF Unserved
  <2>7. CASE homeFiles.prev = homeFiles.cur + 1 /\ Served /\ Fetching(OldKeys) /\ routerFiles = OldKeys
    <3>1. k = OldKeys /\ Fetching(OldKeys)'
        BY <2>1, <2>3, <2>7 DEF Fetching
    <3>2. routerFiles' = OldKeys /\ OldKeys # TornKeys
        BY <2>4, <2>7, <3>1 DEF KeyTypes, OldKeys, TornKeys, Files
    <3> QED
        BY <2>1, <2>4, <2>7, <3>1, <3>2 DEF Served
  <2>8. CASE homeFiles.prev = homeFiles.cur + 1 /\ Served /\ Fetching(NewKeys) /\ routerFiles \in {TornKeys, NewKeys}
    <3>1. k = NewKeys /\ Fetching(NewKeys)'
        BY <2>1, <2>3, <2>8 DEF Fetching
    <3>2. routerFiles' = NewKeys /\ NewKeys # TornKeys
        BY <2>4, <2>8, <3>1 DEF KeyTypes, NewKeys, TornKeys, Files
    <3> QED
        BY <2>1, <2>4, <2>8, <3>1, <3>2 DEF Served
  <2> QED
      BY <2>2, <2>5, <2>6, <2>7, <2>8 DEF Served
<1>14. ASSUME RefreshRecords PROVE RotationInv'
    BY <1>14 DEF RefreshRecords, KeyTypes, OnOneKey, Unserved, Served, Resting, Fetching,
       OldKeys, TornKeys, NewKeys, Files, NotRefreshing
<1>15. ASSUME NEW power \in BOOLEAN, RefreshDies(power) PROVE RotationInv'
    BY <1>15 DEF RefreshDies, RouterLoads, BuildIdentity, KeyTypes, OnOneKey, Unserved, Served, Resting,
       Fetching, OldKeys, TornKeys, NewKeys, Files, NotRefreshing
<1>16. ASSUME NEW ours \in BOOLEAN, Renew(ours) PROVE RotationInv'
    BY <1>16 DEF Renew, Installs, KeyTypes, OnOneKey, Unserved, Served, Resting, Fetching,
       OldKeys, TornKeys, NewKeys
<1>17. ASSUME CertificateAges PROVE RotationInv'
    BY <1>17 DEF CertificateAges, KeyTypes, OnOneKey, Unserved, Served, Resting, Fetching,
       OldKeys, TornKeys, NewKeys
<1> QED
    BY <1>1, <1>2, <1>3, <1>4, <1>5, <1>6, <1>7, <1>8, <1>9, <1>10, <1>11, <1>12, <1>13, <1>14, <1>15,
       <1>16, <1>17 DEF RotationNext

\* It keeps the two ends talking.
LEMMA RotationInvTalks == RotationInv => RolloutKeepsTheBond
BY DEF RotationInv, KeyTypes, OnOneKey, Unserved, Served, OldKeys, TornKeys, NewKeys, Files, Keys, NoKey,
   Levels, Off, Observe, Sign, Require, Adjacent, RolloutKeepsTheBond, Talking, VerifyMac, UnpackAuth,
   PackAuth, AcceptsLegacy, Verifies, Verified, Signs, Unsigned

-----------------------------------------------------------------------------
\* The pairing.

-----------------------------------------------------------------------------
(* The pairing (Pairing).  A code stands for one host wherever it is: in an  *)
(* open request, on a screen, in the operator's hand.  So what the operator  *)
(* approves is the request of the phone the code was read off, and a host is *)
(* sent the token for approvals of its own.                                  *)

PairTypes ==
    /\ open \in [Hosts -> [code : Codes \cup {0}, approved : BOOLEAN, left : 0 .. RequestTtl]]
    /\ shown \in [Hosts -> Codes \cup {0}]
    /\ typed \in {NoReading} \cup [host : Hosts, code : Codes]
    /\ approvals \in [Hosts -> 0 .. MaxGrants] /\ grants \in [Hosts -> Nat]

CodesStand ==
    /\ \A g \in Hosts : IsOpen(g) => open[g].code \in Codes
    /\ \A g, h \in Hosts : IsOpen(g) /\ IsOpen(h) /\ open[g].code = open[h].code => g = h
    /\ \A g, h \in Hosts : IsOpen(g) /\ shown[h] = open[g].code => g = h
    /\ \A g \in Hosts : IsOpen(g) /\ typed.code = open[g].code => g = typed.host

Owed ==
    \A h \in Hosts : /\ grants[h] <= approvals[h]
                     /\ IsOpen(h) /\ open[h].approved => grants[h] < approvals[h]

PairInv == PairTypes /\ CodesStand /\ Owed

\* The pairing's invariant holds at first.
LEMMA PairInitInv == PairInit => PairInv
BY PairAssumption DEF PairInit, PairInv, PairTypes, CodesStand, Owed, NoRequest, NoReading, IsOpen

\* Every request, claim, approval, expiry and restart keeps it.
LEMMA PairStepInv == ASSUME PairInv, [PairNext]_pairVars PROVE PairInv'
<1> USE PairAssumption DEF PairInv
<1>1. CASE UNCHANGED pairVars
    BY <1>1 DEF pairVars, PairTypes, CodesStand, Owed, IsOpen
<1>2. ASSUME NEW h \in Hosts, AskCollects(h) PROVE PairInv'
  <2>1. NoRequest \in [code : Codes \cup {0}, approved : BOOLEAN, left : 0 .. RequestTtl]
      BY DEF NoRequest
  <2>2. CASE IsOpen(h) /\ open[h].approved /\ shown[h] = open[h].code
    <3>1. /\ open' = [open EXCEPT ![h] = NoRequest] /\ grants' = [grants EXCEPT ![h] = @ + 1]
          /\ shown' = [shown EXCEPT ![h] = 0] /\ typed' = typed /\ approvals' = approvals
        BY <1>2, <2>2 DEF AskCollects, Consumed
    <3>2. CodesStand'
        BY <3>1 DEF PairTypes, CodesStand, IsOpen, NoRequest
    <3>3. Owed'
        BY <3>1, <2>2 DEF PairTypes, Owed, IsOpen, NoRequest
    <3>4. open' \in [Hosts -> [code : Codes \cup {0}, approved : BOOLEAN, left : 0 .. RequestTtl]]
        BY <2>1, <3>1 DEF PairTypes
    <3>5. shown' \in [Hosts -> Codes \cup {0}] /\ grants' \in [Hosts -> Nat]
        BY <3>1 DEF PairTypes
    <3> QED
        BY <3>1, <3>2, <3>3, <3>4, <3>5 DEF PairTypes
  <2>3. CASE ~(IsOpen(h) /\ open[h].approved /\ shown[h] = open[h].code)
      BY <1>2, <2>3 DEF AskCollects, PairTypes, CodesStand, Owed, IsOpen
  <2> QED
      BY <2>2, <2>3
<1>3. ASSUME NEW h \in Hosts, AskRequests(h) PROVE PairInv'
  <2>0. typed' = typed /\ approvals' = approvals /\ grants' = grants
      BY <1>3 DEF AskRequests
  <2>1. CASE IsOpen(h)
    <3>1. open' = [open EXCEPT ![h].left = RequestTtl] /\ shown' = [shown EXCEPT ![h] = open[h].code]
        BY <1>3, <2>1 DEF AskRequests
    <3> QED
        BY <2>0, <2>1, <3>1 DEF PairTypes, CodesStand, Owed, IsOpen
  <2>2. CASE ~IsOpen(h) /\ UNCHANGED <<open, shown>>
      BY <2>0, <2>2 DEF PairTypes, CodesStand, Owed, IsOpen
  <2>3. ASSUME NEW c \in Drawn, ~IsOpen(h), Unique(c),
               open' = [open EXCEPT ![h] = [code |-> c, approved |-> FALSE, left |-> RequestTtl]],
               shown' = [shown EXCEPT ![h] = c]
        PROVE  PairInv'
    <3>1. c \in Codes /\ c # typed.code /\ (\A g \in Hosts : c # shown[g]) /\ (\A g \in Hosts : IsOpen(g) => open[g].code # c)
        BY <2>3 DEF Drawn, Unique, LiveCodes
    <3>2. PairTypes'
        BY <2>0, <2>3, <3>1 DEF PairTypes
    <3>3. CodesStand'
        BY <2>0, <2>3, <3>1 DEF PairTypes, CodesStand, IsOpen
    <3>4. Owed'
        BY <2>0, <2>3, <3>1 DEF PairTypes, Owed, IsOpen
    <3> QED
        BY <3>2, <3>3, <3>4
  <2> QED
      BY <1>3, <2>1, <2>2, <2>3 DEF AskRequests
<1>4. ASSUME NEW h \in Hosts, AnswerLost(h) PROVE PairInv'
    BY <1>4 DEF AnswerLost, PairTypes, CodesStand, Owed, IsOpen
<1>5. ASSUME NEW h \in Hosts, OperatorReads(h) PROVE PairInv'
    BY <1>5 DEF OperatorReads, PairTypes, CodesStand, Owed, IsOpen
<1>6. ASSUME Approve PROVE PairInv'
  <2>0. typed' = NoReading /\ UNCHANGED <<shown, grants>> /\ typed \in [host : Hosts, code : Codes]
      BY <1>6 DEF Approve, PairTypes
  <2>1. CASE UNCHANGED <<open, approvals>>
      BY <2>0, <2>1 DEF PairTypes, CodesStand, Owed, IsOpen, NoReading
  <2>2. ASSUME NEW h \in Hosts, IsOpen(h), open[h].code = typed.code, open' = [open EXCEPT ![h].approved = TRUE],
               approvals[typed.host] < MaxGrants,
               approvals' = IF open[h].approved THEN approvals ELSE [approvals EXCEPT ![typed.host] = @ + 1]
        PROVE  PairInv'
    <3>1. h = typed.host
        BY <2>2 DEF CodesStand
    <3>2. PairTypes'
      <4>1. open' \in [Hosts -> [code : Codes \cup {0}, approved : BOOLEAN, left : 0 .. RequestTtl]]
        <5>1. open \in [Hosts -> [code : Codes \cup {0}, approved : BOOLEAN, left : 0 .. RequestTtl]]
            BY DEF PairTypes
        <5>2. [open[h] EXCEPT !.approved = TRUE] \in [code : Codes \cup {0}, approved : BOOLEAN, left : 0 .. RequestTtl]
            BY <5>1
        <5>3. open' = [open EXCEPT ![h] = [open[h] EXCEPT !.approved = TRUE]]
            BY <2>2
        <5> QED
            BY <5>1, <5>2, <5>3
      <4>2. approvals' \in [Hosts -> 0 .. MaxGrants]
        <5>1. approvals[h] \in 0 .. MaxGrants /\ approvals[h] < MaxGrants
            BY <2>2, <3>1 DEF PairTypes
        <5>2. approvals[h] + 1 \in 0 .. MaxGrants
            BY <5>1
        <5>3. approvals' \in {approvals, [approvals EXCEPT ![h] = approvals[h] + 1]}
            BY <2>2, <3>1
        <5> QED
            BY <5>2, <5>3 DEF PairTypes
      <4> QED
          BY <2>0, <4>1, <4>2 DEF PairTypes
    <3>3. CodesStand'
        BY <2>0, <2>2 DEF PairTypes, CodesStand, IsOpen, NoReading
    <3>4. Owed'
        BY <2>0, <2>2, <3>1 DEF PairTypes, Owed, IsOpen
    <3> QED
        BY <3>2, <3>3, <3>4
  <2> QED
      BY <1>6, <2>1, <2>2 DEF Approve
<1>7. ASSUME RequestsAge PROVE PairInv'
  <2>1. PairTypes'
      BY <1>7 DEF RequestsAge, PairTypes, NoRequest
  <2>2. \A g \in Hosts : open'[g].left > 0 =>
            IsOpen(g) /\ open'[g].code = open[g].code /\ open'[g].approved = open[g].approved
    <3> TAKE g \in Hosts
    <3>1. open'[g] = IF open[g].left <= 1 THEN NoRequest ELSE [open[g] EXCEPT !.left = @ - 1]
        BY <1>7 DEF RequestsAge
    <3>2. open[g] \in [code : Codes \cup {0}, approved : BOOLEAN, left : 0 .. RequestTtl]
        BY DEF PairTypes
    <3>3. CASE open[g].left <= 1
        BY <3>1, <3>3 DEF NoRequest
    <3>4. CASE open[g].left > 1
      <4>1. open'[g] = [open[g] EXCEPT !.left = open[g].left - 1]
          BY <3>1, <3>2, <3>4
      <4>2. open'[g].code = open[g].code /\ open'[g].approved = open[g].approved
          BY <3>2, <4>1
      <4> QED
          BY <3>2, <3>4, <4>2 DEF IsOpen
    <3> QED
        BY <3>2, <3>3, <3>4
  <2> QED
      BY <1>7, <2>1, <2>2 DEF RequestsAge, CodesStand, Owed, IsOpen
<1>8. ASSUME PairingRestarts PROVE PairInv'
    BY <1>8 DEF PairingRestarts, PairTypes, CodesStand, Owed, IsOpen, NoRequest
<1> QED
    BY <1>1, <1>2, <1>3, <1>4, <1>5, <1>6, <1>7, <1>8 DEF PairNext

\* It gives the phone no more tokens than approvals.
LEMMA PairInvEarns == PairInv => TokenIsEarned
BY DEF PairInv, Owed, TokenIsEarned

-----------------------------------------------------------------------------
\* The hub.

-----------------------------------------------------------------------------
(* The hub's word on a router (HubStatus).  Its age is bounded by the place  *)
(* of the poller in its cycle, and is at least the time since it ended.      *)

HubTypes ==
    /\ polled \subseteq Routers /\ fetching \in (Routers \ (polled \cup Misconfigured)) \cup {Nobody}
    /\ poller \in {"running", "dead", "stopped"}
    /\ elapsed \in Nat /\ quiet \in 0 .. Horizon
    /\ word_age \in [Routers -> {Never} \cup 0 .. Horizon]

\* The words the poller writes, and of which routers.
WordsWritten ==
    /\ word \in [Routers -> {"none", "status", "refused", "silent", "config_error"}]
    /\ \A r \in Routers :
        /\ word[r] = "none" <=> word_age[r] = Never
        /\ r \in Misconfigured => word[r] \in {"none", "config_error"}
        /\ word[r] = "config_error" => r \in Misconfigured

\* The routers this cycle is done with, and how long so many fetches take.
DoneWith(r) == r \notin polled /\ r # fetching
FetchesOf(p, f) == Cardinality(Routers) - Cardinality(p) - (IF f = Nobody THEN 0 ELSE 1)
Fetches == FetchesOf(polled, fetching)
Slots(n) == n * PollTimeout

\* The word on a router the cycle is done with dates from this cycle, any other one from
\* the cycle before at most.
InCycle ==
    /\ elapsed <= IF fetching # Nobody THEN PollTimeout ELSE IF polled = {} THEN PollInterval ELSE 0
    /\ quiet = 0
    /\ \A r \in Routers :
          /\ DoneWith(r) => word_age[r] # Never /\ word_age[r] <= Slots(Fetches - 1) + elapsed
          /\ word_age[r] <= Slots(Cardinality(Routers) - 1 + Fetches) + PollInterval + elapsed

\* A poller that ended leaves words no younger than its end.
Ended ==
    /\ fetching = Nobody
    /\ \A r \in Routers : word_age[r] = Never \/ word_age[r] >= quiet

HubInv ==
    /\ HubTypes /\ WordsWritten
    /\ IF poller = "running" THEN InCycle ELSE Ended

\* A bound of two cycles at least, as the code's three: a cycle may visit a router last
\* that the one before visited first.
BoundHasRoom == StaleCycles >= 2

\* What the constants of the hub are.
LEMMA HubConstants ==
    /\ PollInterval \in Nat /\ PollTimeout \in Nat /\ StaleCycles \in Nat \ {0} /\ Cardinality(Routers) \in Nat
    /\ Horizon \in Nat /\ MaxAge \in Nat /\ (Routers # {} => MaxAge = Horizon - 1)
<1>1. IsFiniteSet(Routers) /\ Cardinality(Routers) \in Nat
    BY HubAssumption, FS_CardinalityType
<1>2. Routers # {} => Cardinality(Routers) # 0
    BY <1>1, FS_EmptySet
<1> DEFINE n == Cardinality(Routers)
<1>3. n \in Nat /\ (Routers # {} => n # 0)
    BY <1>1, <1>2
<1>4. MaxAge = StaleCycles * (PollInterval + PollTimeout * (IF n > 1 THEN n ELSE 1))
    BY DEF MaxAge, StatusMaxAge
<1>5. Horizon = StaleCycles * (PollInterval + PollTimeout * n) + 1
    BY DEF Horizon
<1> HIDE DEF n
<1> DEFINE m == IF n > 1 THEN n ELSE 1
<1>6. m \in Nat /\ (Routers # {} => m = n)
    BY <1>3
<1>7. MaxAge = StaleCycles * (PollInterval + PollTimeout * m)
    BY <1>4
<1> HIDE DEF m
<1>8. PollTimeout * m \in Nat /\ PollTimeout * n \in Nat
    BY <1>3, <1>6, HubAssumption
<1>9. MaxAge \in Nat /\ Horizon \in Nat
    BY <1>5, <1>7, <1>8, HubAssumption
<1>10. Routers # {} => MaxAge = Horizon - 1
    BY <1>5, <1>6, <1>7, <1>8, HubAssumption
<1> QED
    BY <1>1, <1>9, <1>10, HubAssumption

\* A slot more is a timeout more.
LEMMA SlotsStep ==
    ASSUME NEW n \in Int
    PROVE  Slots(n) \in Int /\ Slots(n + 1) = Slots(n) + PollTimeout /\ (n >= 0 => Slots(n) >= 0)
BY HubConstants DEF Slots

\* More fetches take no less.
LEMMA SlotsUp ==
    ASSUME NEW n \in Int, NEW m \in Int, n <= m
    PROVE  Slots(n) <= Slots(m)
<1> DEFINE d == m - n
<1>1. d \in Nat /\ m = n + d
    OBVIOUS
<1> HIDE DEF d
<1>2. Slots(m) = Slots(n) + d * PollTimeout
    BY <1>1, HubConstants DEF Slots
<1>3. d * PollTimeout >= 0 /\ d * PollTimeout \in Int
    BY <1>1, HubConstants
<1> QED
    BY <1>2, <1>3, SlotsStep

\* A cycle has fetched no more routers than there are, and one fewer than that while some
\* router is to come.
LEMMA FetchesRange ==
    ASSUME NEW p \in SUBSET Routers, NEW f \in (Routers \ p) \cup {Nobody}
    PROVE  /\ FetchesOf(p, f) \in 0 .. Cardinality(Routers)
           /\ p # {} \/ f # Nobody => FetchesOf(p, f) < Cardinality(Routers)
           /\ p = {} /\ f = Nobody => FetchesOf(p, f) = Cardinality(Routers)
<1>1. IsFiniteSet(Routers) /\ IsFiniteSet(p) /\ Cardinality(Routers) \in Nat /\ Cardinality(p) \in Nat
      /\ Cardinality(p) <= Cardinality(Routers)
    BY HubAssumption, FS_Subset, FS_CardinalityType
<1>2. (p = {}) <=> (Cardinality(p) = 0)
    BY <1>1, FS_EmptySet
<1>3. CASE f = Nobody
    BY <1>1, <1>2, <1>3 DEF FetchesOf
<1>4. CASE f # Nobody
  <2>1. f \in Routers \ p
      BY <1>4
  <2>2. p # Routers
      BY <2>1
  <2>3. Cardinality(p) < Cardinality(Routers)
      BY <1>1, <2>2, FS_Subset
  <2> QED
      BY <1>1, <1>4, <2>3 DEF FetchesOf
<1> QED
    BY <1>3, <1>4

\* A router visited leaves the others as they were.
LEMMA FetchesVisit ==
    ASSUME NEW p \in SUBSET Routers, NEW r \in p
    PROVE  /\ FetchesOf(p \ {r}, Nobody) = FetchesOf(p, Nobody) + 1
           /\ FetchesOf(p \ {r}, r) = FetchesOf(p, Nobody)
<1>1. IsFiniteSet(p) /\ Cardinality(Routers) \in Nat /\ Cardinality(p) \in Nat
    BY HubAssumption, FS_Subset, FS_CardinalityType
<1>2. Cardinality(p \ {r}) = Cardinality(p) - 1
    BY <1>1, FS_RemoveElement
<1>3. r # Nobody
    BY HubAssumption
<1> QED
    BY <1>1, <1>2, <1>3 DEF FetchesOf

\* A fetch that ended is one more.
LEMMA FetchesDone ==
    ASSUME NEW p \in SUBSET Routers, NEW f \in Routers
    PROVE  FetchesOf(p, Nobody) = FetchesOf(p, f) + 1
<1>1. Cardinality(Routers) \in Nat /\ Cardinality(p) \in Nat
    BY HubAssumption, FS_Subset, FS_CardinalityType
<1> QED
    BY <1>1, HubAssumption DEF FetchesOf

\* A word grows older by a tick, up to the horizon.
LEMMA WordAges ==
    ASSUME NEW n \in {Never} \cup 0 .. Horizon
    PROVE  /\ Aged(n, Horizon) \in {Never} \cup 0 .. Horizon /\ Aged(n, Horizon) \in Int
           /\ (Aged(n, Horizon) = Never <=> n = Never)
           /\ n <= Aged(n, Horizon) /\ Aged(n, Horizon) <= n + 1
           /\ \A k \in 0 .. Horizon : n # Never /\ k <= n => Aged(k, Horizon) <= Aged(n, Horizon)
BY HubConstants DEF Aged, Never

\* The hub's invariant holds at first.
LEMMA HubInitInv == HubInit => HubInv
<1> SUFFICES ASSUME HubInit PROVE HubInv
    OBVIOUS
<1>1. HubTypes /\ WordsWritten
    BY HubConstants, HubAssumption DEF HubInit, HubTypes, WordsWritten
<1>2. ASSUME NEW r \in Routers
      PROVE  word_age[r] <= Slots(Cardinality(Routers) - 1 + Fetches) + PollInterval + elapsed
  <2> DEFINE n == Cardinality(Routers) - 1 + Fetches
  <2>1. Fetches \in Nat
      BY FetchesRange, HubConstants DEF HubInit, Fetches
  <2>2. n \in Nat
    <3>1. Cardinality(Routers) # 0
        BY HubAssumption, FS_EmptySet
    <3> QED
        BY <2>1, <3>1, HubConstants
  <2> HIDE DEF n
  <2>3. Slots(n) \in Int /\ Slots(n) >= 0
      BY <2>2, SlotsStep
  <2> QED
      BY <2>3, HubConstants DEF HubInit, n, Never
<1> QED
    BY <1>1, <1>2, HubConstants DEF HubInit, HubInv, InCycle, DoneWith

\* Every step of the poller, of the routers and of time keeps it.
LEMMA HubStepInv == ASSUME HubInv, [HubNext]_hubVars PROVE HubInv'
<1> DEFINE N == Cardinality(Routers)
<1>0. N \in Nat /\ PollInterval \in Nat /\ PollTimeout \in Nat /\ Horizon \in Nat /\ Nobody \notin Routers
    BY HubConstants, HubAssumption
<1> HIDE DEF N
<1>1. HubTypes /\ WordsWritten /\ (poller = "running" => InCycle) /\ (poller # "running" => Ended)
    BY DEF HubInv
<1>2. Fetches \in Int
  <2>1. polled \in SUBSET Routers /\ fetching \in (Routers \ polled) \cup {Nobody}
      BY <1>1 DEF HubTypes
  <2> QED
      BY <1>0, <2>1, FetchesRange DEF Fetches, N
<1>3. CASE UNCHANGED hubVars
    BY <1>3 DEF hubVars, HubInv, HubTypes, WordsWritten, InCycle, Ended, DoneWith, Fetches
<1>4. ASSUME NEW r \in Routers, NextRouter(r) PROVE HubInv'
  <2> DEFINE F == FetchesOf(polled, Nobody)
  <2>1. poller = "running" /\ fetching = Nobody /\ r \in polled /\ polled \in SUBSET Routers /\ elapsed = 0 /\ quiet = 0
      BY <1>1, <1>4 DEF NextRouter, HubTypes, InCycle
  <2>2. F \in 0 .. N
      BY <2>1, FetchesRange DEF N
  <2>3. Fetches = F
      BY <2>1 DEF Fetches
  <2> HIDE DEF F
  <2>4. polled' = polled \ {r} /\ elapsed' = 0 /\ UNCHANGED <<poller, heard, listed, quiet>>
      BY <1>4 DEF NextRouter
  <2>5. \A o \in Routers : o \notin polled => word_age[o] # Never /\ word_age[o] <= Slots(F - 1)
    <3>1. Slots(F - 1) \in Int
        BY <2>2, SlotsStep
    <3> QED
        BY <1>0, <1>1, <2>1, <2>3, <3>1 DEF InCycle, DoneWith, HubTypes
  <2>6. \A o \in Routers : word_age[o] <= Slots(N - 1 + F) + PollInterval
    <3>1. Slots(N - 1 + F) \in Int
        BY <1>0, <2>2, SlotsStep
    <3> QED
        BY <1>0, <1>1, <2>1, <2>3, <3>1 DEF InCycle, HubTypes, N
  <2>7. CASE r \in Misconfigured
    <3>1. fetching' = Nobody /\ word' = [word EXCEPT ![r] = "config_error"] /\ word_age' = [word_age EXCEPT ![r] = 0]
        BY <1>4, <2>7 DEF NextRouter, NoteRouter
    <3>2. HubTypes' /\ WordsWritten'
      <4>1. HubTypes'
          BY <1>0, <1>1, <2>4, <3>1 DEF HubTypes
      <4>2. WordsWritten'
          BY <1>0, <1>1, <2>7, <3>1 DEF WordsWritten, HubTypes, Never
      <4> QED
          BY <4>1, <4>2
    <3>3. Fetches' = F + 1
        BY <2>1, <2>4, <3>1, FetchesVisit DEF Fetches, F
    <3>4. /\ Slots(F) \in Int /\ Slots(F) >= 0 /\ Slots(F - 1) \in Int /\ Slots(F - 1) <= Slots(F)
          /\ Slots(N - 1 + F) \in Int /\ Slots(N + F) \in Int /\ Slots(N - 1 + F) <= Slots(N + F) /\ Slots(N + F) >= 0
        BY <1>0, <2>2, SlotsStep, SlotsUp
    <3>5. \A o \in Routers : o \notin polled' => word_age'[o] # Never /\ word_age'[o] <= Slots(F)
        BY <1>0, <1>1, <2>4, <2>5, <3>1, <3>4 DEF HubTypes, Never
    <3>6. \A o \in Routers : word_age'[o] <= Slots(N + F) + PollInterval
        BY <1>0, <1>1, <2>4, <2>6, <3>1, <3>4 DEF HubTypes, Never
    <3>7. F + 1 - 1 = F /\ N - 1 + (F + 1) = N + F
        BY <1>0, <2>2
    <3>8. InCycle'
      <4>1. \A o \in Routers : word_age'[o] \in Int
          BY <3>2 DEF HubTypes, Never
      <4>2. \A o \in Routers : word_age'[o] <= Slots(F) => word_age'[o] <= Slots(F) + 0
          BY <3>4, <4>1
      <4>3. \A o \in Routers : word_age'[o] <= Slots(N + F) + PollInterval => word_age'[o] <= Slots(N + F) + PollInterval + 0
          BY <1>0, <3>4, <4>1
      <4>4. 0 <= PollInterval /\ 0 <= PollTimeout /\ 0 <= 0
          BY <1>0
      <4> QED
        <5>1. 0 <= IF fetching' # Nobody THEN PollTimeout ELSE IF polled' = {} THEN PollInterval ELSE 0
            BY <4>4
        <5>2. \A o \in Routers :
                 /\ DoneWith(o)' => word_age'[o] # Never /\ word_age'[o] <= Slots(Fetches' - 1) + elapsed'
                 /\ word_age'[o] <= Slots(N - 1 + Fetches') + PollInterval + elapsed'
          <6>1. Fetches' - 1 = F /\ N - 1 + Fetches' = N + F /\ elapsed' = 0
              BY <1>0, <2>2, <2>4, <3>3
          <6>2. \A o \in Routers : DoneWith(o)' => o \notin polled'
              BY DEF DoneWith
          <6> QED
              BY <3>5, <3>6, <4>2, <4>3, <6>1, <6>2
        <5> QED
            BY <2>1, <2>4, <5>1, <5>2 DEF InCycle, N
    <3> QED
        BY <2>1, <2>4, <3>2, <3>8 DEF HubInv
  <2>8. CASE r \notin Misconfigured
    <3>1. fetching' = r /\ word' = word /\ word_age' = word_age
        BY <1>4, <2>8 DEF NextRouter
    <3>2. HubTypes' /\ WordsWritten'
        BY <1>0, <1>1, <2>4, <2>8, <3>1 DEF HubTypes, WordsWritten
    <3>3. Fetches' = F
        BY <2>1, <2>4, <3>1, FetchesVisit DEF Fetches, F
    <3>4. Slots(F - 1) \in Int /\ Slots(N - 1 + F) \in Int
        BY <1>0, <2>2, SlotsStep
    <3>5. \A o \in Routers : o \notin polled' /\ o # r => word_age'[o] # Never /\ word_age'[o] <= Slots(F - 1) + 0
        BY <1>0, <1>1, <2>4, <2>5, <3>1, <3>4 DEF HubTypes, Never
    <3>6. \A o \in Routers : word_age'[o] <= Slots(N - 1 + F) + PollInterval + 0
        BY <1>0, <1>1, <2>4, <2>6, <3>1, <3>4 DEF HubTypes, Never
    <3>7. InCycle'
        BY <1>0, <2>1, <2>4, <3>1, <3>3, <3>5, <3>6 DEF InCycle, DoneWith, N
    <3> QED
        BY <2>1, <2>4, <3>2, <3>7 DEF HubInv
  <2> QED
      BY <2>7, <2>8
<1>5. ASSUME NEW outcome \in Outcomes, Fetched(outcome) PROVE HubInv'
  <2> DEFINE F == Fetches
  <2>1. poller = "running" /\ fetching \in Routers /\ fetching \notin Misconfigured /\ polled \in SUBSET Routers /\ quiet = 0
        /\ fetching \notin polled /\ elapsed \in Nat /\ elapsed <= PollTimeout /\ outcome \in {"status", "refused", "silent"}
      BY <1>1, <1>5 DEF Fetched, HubTypes, InCycle, Ended, Outcomes
  <2>2. polled' = polled /\ fetching' = Nobody /\ elapsed' = 0 /\ UNCHANGED <<poller, heard, listed, quiet>>
        /\ word' = [word EXCEPT ![fetching] = outcome] /\ word_age' = [word_age EXCEPT ![fetching] = 0]
      BY <1>5 DEF Fetched, NoteRouter
  <2>3. F \in 0 .. N
      BY <2>1, FetchesRange DEF N, Fetches
  <2>4. Fetches' = F + 1
      BY <2>1, <2>2, FetchesDone DEF Fetches
  <2> HIDE DEF F
  <2>5. HubTypes' /\ WordsWritten'
    <3>1. HubTypes'
        BY <1>0, <1>1, <2>1, <2>2 DEF HubTypes
    <3>2. WordsWritten'
        BY <1>0, <1>1, <2>1, <2>2 DEF WordsWritten, HubTypes, Never
    <3> QED
        BY <3>1, <3>2
  <2>6. /\ Slots(F) \in Int /\ Slots(F) >= 0 /\ Slots(F - 1) \in Int /\ Slots(F) = Slots(F - 1) + PollTimeout
        /\ Slots(N - 1 + F) \in Int /\ Slots(N + F) \in Int /\ Slots(N - 1 + F) + PollTimeout = Slots(N + F)
        /\ Slots(N + F) >= 0
    <3>1. F - 1 \in Int /\ N - 1 + F \in Int /\ F - 1 + 1 = F /\ N - 1 + F + 1 = N + F
        BY <1>0, <2>3
    <3> QED
        BY <1>0, <2>3, <3>1, SlotsStep
  <2>7. \A o \in Routers : o \notin polled' => word_age'[o] # Never /\ word_age'[o] <= Slots(F) + 0
    <3> TAKE o \in Routers
    <3>1. CASE o = fetching
        BY <1>1, <2>2, <2>6, <3>1 DEF HubTypes, Never
    <3>2. CASE o # fetching /\ o \notin polled
      <4>1. word_age[o] # Never /\ word_age[o] <= Slots(F - 1) + elapsed
          BY <1>1, <2>1, <3>2 DEF InCycle, DoneWith, F
      <4>2. word_age[o] \in Int
          BY <1>1 DEF HubTypes, Never
      <4>3. word_age[o] <= Slots(F) + 0
          BY <1>0, <2>1, <2>6, <4>1, <4>2
      <4> QED
          BY <1>1, <2>2, <3>2, <4>1, <4>3 DEF HubTypes
    <3> QED
        BY <2>2, <3>1, <3>2
  <2>8. \A o \in Routers : word_age'[o] <= Slots(N + F) + PollInterval + 0
    <3> TAKE o \in Routers
    <3>1. CASE o = fetching
        BY <1>0, <1>1, <2>2, <2>6, <3>1 DEF HubTypes
    <3>2. CASE o # fetching
      <4>1. word_age[o] <= Slots(N - 1 + F) + PollInterval + elapsed
          BY <1>1, <2>1 DEF InCycle, F, N
      <4>2. word_age[o] \in Int
          BY <1>1 DEF HubTypes, Never
      <4>3. word_age[o] <= Slots(N + F) + PollInterval + 0
          BY <1>0, <2>1, <2>6, <4>1, <4>2
      <4> QED
          BY <1>1, <2>2, <3>2, <4>3 DEF HubTypes
    <3> QED
        BY <3>1, <3>2
  <2>9. InCycle'
    <3>1. F + 1 - 1 = F /\ N - 1 + (F + 1) = N + F /\ 0 <= PollInterval /\ 0 <= PollTimeout /\ 0 <= 0
        BY <1>0, <2>3
    <3>2. 0 <= IF fetching' # Nobody THEN PollTimeout ELSE IF polled' = {} THEN PollInterval ELSE 0
        BY <3>1
    <3>3. \A o \in Routers :
             /\ DoneWith(o)' => word_age'[o] # Never /\ word_age'[o] <= Slots(Fetches' - 1) + elapsed'
             /\ word_age'[o] <= Slots(N - 1 + Fetches') + PollInterval + elapsed'
      <4>1. Fetches' - 1 = F /\ N - 1 + Fetches' = N + F /\ elapsed' = 0
          BY <1>0, <2>2, <2>3, <2>4
      <4>2. \A o \in Routers : DoneWith(o)' => o \notin polled'
          BY DEF DoneWith
      <4> QED
          BY <2>7, <2>8, <4>1, <4>2
    <3> QED
        BY <2>1, <2>2, <3>2, <3>3 DEF InCycle, N
  <2> QED
      BY <2>1, <2>2, <2>5, <2>9 DEF HubInv
<1>6. ASSUME FetchBreaks \/ StopHub PROVE HubInv'
  <2>1. poller = "running" /\ quiet = 0 /\ poller' \in {"dead", "stopped"} /\ fetching' = Nobody /\ elapsed' = 0
        /\ UNCHANGED <<polled, word, word_age, heard, listed, quiet>>
      BY <1>1, <1>6 DEF FetchBreaks, StopHub, InCycle, Ended, HubTypes
  <2>2. HubTypes' /\ WordsWritten'
      BY <1>1, <2>1 DEF HubTypes, WordsWritten
  <2>3. Ended'
      BY <1>0, <1>1, <2>1 DEF Ended, HubTypes, Never
  <2> QED
      BY <2>1, <2>2, <2>3 DEF HubInv
<1>7. ASSUME NextCycle PROVE HubInv'
  <2>1. poller = "running" /\ fetching = Nobody /\ polled = {} /\ elapsed = PollInterval /\ polled' = Routers /\ elapsed' = 0
        /\ UNCHANGED <<fetching, poller, word, word_age, heard, listed, quiet>>
      BY <1>7 DEF NextCycle
  <2>2. HubTypes' /\ WordsWritten'
      BY <1>0, <1>1, <2>1 DEF HubTypes, WordsWritten
  <2>3. Fetches = N
      BY <2>1, FetchesRange DEF Fetches, N
  <2>4. Fetches' = 0
    <3>1. FetchesOf(Routers, Nobody) = 0
        BY <1>0, HubConstants DEF FetchesOf
    <3> QED
        BY <2>1, <3>1 DEF Fetches
  <2>5. \A o \in Routers : word_age'[o] <= Slots(N - 1 + 0) + PollInterval + 0
    <3> TAKE o \in Routers
    <3>1. word_age[o] <= Slots(N - 1) + PollInterval
        BY <1>0, <1>1, <2>1, <2>3 DEF InCycle, DoneWith
    <3>2. Slots(N - 1) \in Int /\ N - 1 + 0 = N - 1
        BY <1>0, SlotsStep
    <3>3. Slots(N - 1) + PollInterval + 0 = Slots(N - 1) + PollInterval
        BY <1>0, <3>2
    <3> QED
        BY <2>1, <3>1, <3>2, <3>3
  <2>6. InCycle'
      BY <1>0, <1>1, <2>1, <2>4, <2>5 DEF InCycle, DoneWith, N
  <2> QED
      BY <2>1, <2>2, <2>6 DEF HubInv
<1>8. ASSUME HubTick PROVE HubInv'
  <2>1. word_age' = [r \in Routers |-> Aged(word_age[r], Horizon)] /\ UNCHANGED <<polled, fetching, poller, word, listed>>
      BY <1>8 DEF HubTick
  <2>2. \A r \in Routers : word_age[r] \in {Never} \cup 0 .. Horizon
      BY <1>1 DEF HubTypes
  <2>3. word_age' \in [Routers -> {Never} \cup 0 .. Horizon]
      BY <2>1, <2>2, WordAges
  <2>4. WordsWritten'
      BY <1>1, <2>1, <2>2, WordAges DEF WordsWritten
  <2>5. CASE poller = "running"
    <3>1. /\ fetching # Nobody => elapsed < PollTimeout
          /\ fetching = Nobody => polled = {} /\ elapsed < PollInterval
          /\ elapsed' = elapsed + 1 /\ quiet' = 0 /\ quiet = 0 /\ elapsed \in Nat
        BY <1>1, <1>8, <2>5 DEF HubTick, HubTypes, InCycle
    <3>2. Fetches' = Fetches
        BY <2>1 DEF Fetches
    <3>3. HubTypes'
        BY <1>0, <1>1, <2>1, <2>3, <3>1 DEF HubTypes
    <3>4. ASSUME NEW r \in Routers
          PROVE  /\ DoneWith(r) => word_age'[r] # Never /\ word_age'[r] <= Slots(Fetches - 1) + (elapsed + 1)
                 /\ word_age'[r] <= Slots(N - 1 + Fetches) + PollInterval + (elapsed + 1)
      <4>1. /\ DoneWith(r) => word_age[r] # Never /\ word_age[r] <= Slots(Fetches - 1) + elapsed
            /\ word_age[r] <= Slots(N - 1 + Fetches) + PollInterval + elapsed
          BY <1>1, <2>5 DEF InCycle, N
      <4>2. PICK x : x = Aged(word_age[r], Horizon)
          OBVIOUS
      <4>3. word_age'[r] = x /\ x \in Int /\ (x = Never <=> word_age[r] = Never) /\ x <= word_age[r] + 1 /\ word_age[r] \in Int
          BY <2>1, <2>2, <4>2, WordAges DEF Never
      <4>4. Slots(Fetches - 1) \in Int /\ Slots(N - 1 + Fetches) \in Int
          BY <1>0, <1>2, SlotsStep
      <4>5. word_age[r] <= Slots(Fetches - 1) + elapsed => x <= Slots(Fetches - 1) + (elapsed + 1)
          BY <3>1, <4>3, <4>4
      <4>6. word_age[r] <= Slots(N - 1 + Fetches) + PollInterval + elapsed => x <= Slots(N - 1 + Fetches) + PollInterval + (elapsed + 1)
          BY <1>0, <3>1, <4>3, <4>4
      <4> QED
          BY <4>1, <4>3, <4>5, <4>6
    <3>5. /\ fetching # Nobody => elapsed + 1 <= PollTimeout
          /\ fetching = Nobody => polled = {} /\ elapsed + 1 <= PollInterval
        BY <1>0, <3>1
    <3>6. InCycle'
        BY <2>1, <3>1, <3>2, <3>4, <3>5 DEF InCycle, DoneWith, N
    <3> QED
        BY <2>1, <2>4, <2>5, <3>3, <3>6 DEF HubInv
  <2>6. CASE poller # "running"
    <3>1. elapsed' = 0 /\ quiet' = Aged(quiet, Horizon) /\ fetching = Nobody /\ quiet \in 0 .. Horizon
        BY <1>1, <1>8, <2>6 DEF HubTick, HubTypes, Ended
    <3>2. quiet' \in 0 .. Horizon
        BY <1>0, <3>1 DEF Aged, Never
    <3>3. HubTypes'
        BY <1>1, <2>1, <2>3, <3>1, <3>2 DEF HubTypes
    <3>4. Ended'
      <4>1. ASSUME NEW r \in Routers PROVE word_age'[r] = Never \/ word_age'[r] >= quiet'
          BY <1>1, <2>1, <2>2, <2>6, <3>1, <4>1, WordAges DEF Ended
      <4> QED
          BY <2>1, <3>1, <4>1 DEF Ended
    <3> QED
        BY <2>1, <2>4, <2>6, <3>3, <3>4 DEF HubInv
  <2> QED
      BY <2>5, <2>6
<1>9. ASSUME NEW p \in Phones, Report(p) PROVE HubInv'
    BY <1>9 DEF Report, HubInv, HubTypes, WordsWritten, InCycle, Ended, DoneWith, Fetches
<1>10. ASSUME Snapshot PROVE HubInv'
    BY <1>10 DEF Snapshot, HubInv, HubTypes, WordsWritten, InCycle, Ended, DoneWith, Fetches
<1> QED
    BY <1>3, <1>4, <1>5, <1>6, <1>7, <1>8, <1>9, <1>10 DEF HubNext

\* Where the bound has room, it makes the hub's word honest.
LEMMA HubInvHonest == ASSUME HubInv, BoundHasRoom PROVE StatusIsHonest
<1> SUFFICES ASSUME NEW r \in Routers
             PROVE  /\ poller = "running" => CachedStatus(r) # 504
                    /\ quiet > MaxAge => CachedStatus(r) # 200
                    /\ r \in Misconfigured => CachedStatus(r) \in {503, 500}
                    /\ CachedStatus(r) \in {200, 504} <=> ~Node(r).unreachable
                    /\ word_age[r] # Never =>
                          RouterSamples(word[r]) = [answering |-> CachedStatus(r) \in {200, 504},
                                                    reachable |-> Node(r).reachable,
                                                    config_error |-> CachedStatus(r) = 500]
    BY DEF StatusIsHonest
<1>1. /\ word[r] \in {"none", "status", "refused", "silent", "config_error"}
      /\ word[r] = "none" <=> word_age[r] = Never
      /\ r \in Misconfigured => word[r] \in {"none", "config_error"}
    BY DEF HubInv, WordsWritten
<1>2. word_age[r] \in {Never} \cup 0 .. Horizon /\ quiet \in 0 .. Horizon /\ MaxAge \in Nat /\ Horizon \in Nat
      /\ MaxAge = Horizon - 1
    BY HubConstants DEF HubInv, HubTypes
<1>3. CachedStatus(r) = IF word[r] = "none" THEN 503 ELSE IF word[r] = "config_error" THEN 500
                        ELSE IF word[r] # "status" THEN 502 ELSE IF word_age[r] > MaxAge THEN 504 ELSE 200
    BY <1>1 DEF CachedStatus
<1>4. poller = "running" => word_age[r] <= MaxAge
  <2> SUFFICES ASSUME poller = "running" PROVE word_age[r] <= MaxAge
      OBVIOUS
  <2> DEFINE N == Cardinality(Routers)
  <2>1. N \in Nat /\ N # 0
      BY HubAssumption, HubConstants, FS_EmptySet
  <2>2. MaxAge = StaleCycles * (PollInterval + PollTimeout * N)
    <3>1. (IF N > 1 THEN N ELSE 1) = N
        BY <2>1
    <3> QED
        BY <3>1 DEF MaxAge, StatusMaxAge
  <2>3. polled \in SUBSET Routers /\ fetching \in (Routers \ polled) \cup {Nobody} /\ elapsed \in Nat
      BY DEF HubInv, HubTypes
  <2>4. /\ Fetches \in 0 .. N
        /\ polled # {} \/ fetching # Nobody => Fetches < N
      BY <2>3, FetchesRange DEF Fetches
  <2>5. /\ elapsed <= IF fetching # Nobody THEN PollTimeout ELSE IF polled = {} THEN PollInterval ELSE 0
        /\ DoneWith(r) => word_age[r] <= Slots(Fetches - 1) + elapsed
        /\ word_age[r] <= Slots(N - 1 + Fetches) + PollInterval + elapsed
      BY DEF HubInv, InCycle
  <2> HIDE DEF N
  <2>6. PollTimeout * N \in Nat /\ PollTimeout \in Nat /\ PollInterval \in Nat /\ StaleCycles \in Nat /\ StaleCycles >= 2
      BY <2>1, HubConstants DEF BoundHasRoom
  <2> DEFINE W == PollInterval + PollTimeout * N
  <2>7. W \in Nat /\ StaleCycles * W >= 2 * W /\ StaleCycles * W \in Nat
      BY <2>6
  <2>8. Slots(N) = PollTimeout * N /\ Slots(N + N) = PollTimeout * N + PollTimeout * N
      BY <2>1, HubConstants DEF Slots
  <2>9. /\ Slots(N + N) \in Int /\ Slots(N + N - 1) \in Int /\ Slots(N + N) = Slots(N + N - 1) + PollTimeout
        /\ Slots(N) \in Int /\ Slots(Fetches - 1) \in Int /\ Slots(Fetches - 1) <= Slots(N)
        /\ Slots(N - 1 + Fetches) \in Int
    <3>1. PICK m \in Int, k \in Int : m = N + N - 1 /\ m + 1 = N + N /\ k = N - 1 + Fetches
        BY <2>1, <2>4
    <3>2. PICK f \in Int : f = Fetches - 1 /\ f <= N
        BY <2>1, <2>4
    <3>3. Slots(m) \in Int /\ Slots(m + 1) = Slots(m) + PollTimeout
        BY <3>1, SlotsStep
    <3>4. Slots(m + 1) \in Int
        BY <2>6, <3>3
    <3>5. Slots(N) \in Int /\ Slots(f) \in Int /\ Slots(k) \in Int
        BY <2>1, <3>1, <3>2, SlotsStep
    <3>6. Slots(f) <= Slots(N)
        BY <2>1, <3>2, SlotsUp
    <3> QED
        BY <3>1, <3>2, <3>3, <3>4, <3>5, <3>6
  <2>10. CASE DoneWith(r) /\ fetching = Nobody /\ polled = {}
      BY <1>2, <2>2, <2>3, <2>5, <2>6, <2>7, <2>8, <2>9, <2>10 DEF Never
  <2>11. CASE polled # {} \/ fetching # Nobody
    <3>1. N - 1 + Fetches <= N + N - 2 /\ N - 1 + Fetches \in Int /\ N + N - 2 \in Int /\ N + N - 2 + 1 = N + N - 1
        BY <2>1, <2>4, <2>11
    <3>2. Slots(N - 1 + Fetches) <= Slots(N + N - 2) /\ Slots(N + N - 2) \in Int /\ Slots(N + N - 1) = Slots(N + N - 2) + PollTimeout
        BY <3>1, SlotsUp, SlotsStep
    <3>3. elapsed <= PollTimeout
      <4>1. CASE fetching # Nobody
          BY <2>5, <4>1
      <4>2. CASE fetching = Nobody
        <5>1. elapsed <= 0
            BY <2>5, <2>11, <4>2
        <5> QED
            BY <2>3, <2>6, <5>1
      <4> QED
          BY <4>1, <4>2
    <3> QED
        BY <1>2, <2>2, <2>3, <2>5, <2>6, <2>7, <2>8, <2>9, <3>2, <3>3 DEF Never
  <2> QED
      BY <2>3, <2>10, <2>11, HubAssumption DEF DoneWith
<1>5. poller = "running" => quiet = 0
    BY DEF HubInv, InCycle
<1>6. poller # "running" => word_age[r] = Never \/ word_age[r] >= quiet
    BY DEF HubInv, Ended
<1>7. quiet > MaxAge => CachedStatus(r) # 200
  <2> SUFFICES ASSUME quiet > MaxAge PROVE CachedStatus(r) # 200
      OBVIOUS
  <2>1. poller # "running"
      BY <1>2, <1>5
  <2>2. word_age[r] = Never \/ word_age[r] > MaxAge
      BY <1>2, <1>6, <2>1 DEF Never
  <2> QED
      BY <1>1, <1>3, <2>2
<1>8. poller = "running" => CachedStatus(r) # 504
    BY <1>2, <1>3, <1>4 DEF Never
<1>9. /\ Node(r).unreachable = (word[r] # "status") /\ Node(r).reachable = (word[r] \in {"status", "refused"})
      /\ RouterSamples(word[r]) = [answering |-> word[r] = "status", reachable |-> word[r] \in {"status", "refused"},
                                   config_error |-> word[r] = "config_error"]
    BY DEF Node, RouterSamples
<1>10. /\ CachedStatus(r) \in {200, 504} <=> word[r] = "status"
       /\ CachedStatus(r) = 500 <=> word[r] = "config_error"
    BY <1>1, <1>3
<1>11. r \in Misconfigured => CachedStatus(r) \in {503, 500}
    BY <1>1, <1>3
<1> DEFINE well == CachedStatus(r) \in {200, 504}
           wrong == CachedStatus(r) = 500
<1>12. RouterSamples(word[r]) = [answering |-> well, reachable |-> Node(r).reachable, config_error |-> wrong]
  <2>1. well = (word[r] = "status") /\ wrong = (word[r] = "config_error")
      BY <1>10
  <2> QED
      BY <1>9, <2>1
<1>13. CachedStatus(r) \in {200, 504} <=> ~Node(r).unreachable
    BY <1>9, <1>10
<1> QED
    BY <1>7, <1>8, <1>11, <1>12, <1>13

-----------------------------------------------------------------------------
\* The queues.

-----------------------------------------------------------------------------
(* The queues of what is reported (SendQueue).  Items are numbered as they   *)
(* are offered, and stand in that order: posted or lost first, then in the   *)
(* batch, then in the queue, where the sentinel may stand between them.      *)

QueueTypes ==
    /\ sink \in Sinks /\ worker \in {"idle", "posting", "ended"} /\ ending \in BOOLEAN
    /\ q \in Seq(Nat) /\ batch \in Seq(Nat) /\ sent \in Seq(Nat) /\ lost \in SUBSET Nat
    /\ offered \in Nat
    /\ worker # "posting" => batch = <<>>
    /\ worker = "idle" => ~ending

InQueueOrder(s) == \A i, j \in 1 .. Len(s) : i < j /\ s[i] # Sentinel /\ s[j] # Sentinel => s[i] < s[j]
InOrder(s) == \A i, j \in 1 .. Len(s) : i < j => s[i] < s[j]
Precede(s, t) == \A i \in 1 .. Len(s), j \in 1 .. Len(t) : t[j] # Sentinel => s[i] < t[j]
AllBelow(l, t) == \A x \in l, j \in 1 .. Len(t) : t[j] # Sentinel => x < t[j]
UpTo(s, n) == \A i \in 1 .. Len(s) : s[i] <= n
RealItems(s) == \A i \in 1 .. Len(s) : s[i] # Sentinel

OrderKept(s, b, p, l, o) ==
    /\ InQueueOrder(s) /\ InOrder(b) /\ InOrder(p) /\ RealItems(b) /\ RealItems(p)
    /\ Precede(p, b) /\ Precede(p, s) /\ Precede(b, s) /\ AllBelow(l, b) /\ AllBelow(l, s)
    /\ UpTo(s, o) /\ UpTo(b, o) /\ UpTo(p, o) /\ \A x \in l : x <= o
    /\ \A i \in 1 .. Len(p) : p[i] \notin l

\* An item that stands in the queue with no sentinel before it.
Ahead(x, s) == \E i \in 1 .. Len(s) : s[i] = x /\ \A k \in 1 .. i : s[k] # Sentinel
Handled(x, b, p, l) == x \in l \/ (\E i \in 1 .. Len(p) : p[i] = x) \/ (\E i \in 1 .. Len(b) : b[i] = x)

\* What stood in the queue when it was closed is posted, lost, in the batch, or still ahead
\* of the sentinel while the worker goes on.
ClosedKept ==
    /\ stage # "closed" => at_close = {} /\ RealItems(q) /\ worker # "ended" /\ ~ending
    /\ sink = "logs" => RealItems(q)
    /\ \A x \in at_close : Handled(x, batch, sent, lost) \/ (~ending /\ worker # "ended" /\ Ahead(x, q))

QueueInv == QueueTypes /\ OrderKept(q, batch, sent, lost, offered) /\ ClosedKept

\* An item offered is the last in the queue.
LEMMA OrderOffered ==
    ASSUME NEW s \in Seq(Nat), NEW b \in Seq(Nat), NEW p \in Seq(Nat), NEW l \in SUBSET Nat, NEW o \in Nat,
           OrderKept(s, b, p, l, o)
    PROVE  OrderKept(s, b, p, l, o + 1) /\ OrderKept(Append(s, o + 1), b, p, l, o + 1)
<1>1. OrderKept(s, b, p, l, o + 1)
    BY DEF OrderKept, UpTo
<1> DEFINE t == Append(s, o + 1)
<1>2. /\ t \in Seq(Nat) /\ Len(t) = Len(s) + 1 /\ Len(s) \in Nat /\ t[Len(s) + 1] = o + 1
      /\ \A i \in 1 .. Len(s) : t[i] = s[i]
    OBVIOUS
<1> HIDE DEF t
<1>3. \A i \in 1 .. Len(t) : i = Len(s) + 1 \/ i \in 1 .. Len(s)
    BY <1>2
<1>4. InQueueOrder(t)
  <2> SUFFICES ASSUME NEW i \in 1 .. Len(t), NEW j \in 1 .. Len(t), i < j, t[i] # Sentinel, t[j] # Sentinel PROVE t[i] < t[j]
      BY DEF InQueueOrder
  <2>1. i \in 1 .. Len(s)
      BY <1>2
  <2>2. CASE j = Len(s) + 1
    <3>1. t[i] = s[i] /\ t[j] = o + 1 /\ s[i] \in Nat /\ s[i] <= o
        BY <1>2, <2>1, <2>2 DEF OrderKept, UpTo
    <3> QED
        BY <3>1
  <2>3. CASE j \in 1 .. Len(s)
      BY <1>2, <2>1, <2>3 DEF OrderKept, InQueueOrder
  <2> QED
      BY <1>3, <2>2, <2>3
<1>5. Precede(p, t) /\ Precede(b, t) /\ AllBelow(l, t)
  <2>0. \A j \in 1 .. Len(t) : t[j] = o + 1 \/ \E k \in 1 .. Len(s) : t[j] = s[k]
      BY <1>2, <1>3
  <2>1. \A i \in 1 .. Len(p) : p[i] < o + 1
    <3> TAKE i \in 1 .. Len(p)
    <3>1. p[i] \in Nat /\ p[i] <= o
        BY DEF OrderKept, UpTo
    <3> QED
        BY <3>1
  <2>2. \A i \in 1 .. Len(b) : b[i] < o + 1
    <3> TAKE i \in 1 .. Len(b)
    <3>1. b[i] \in Nat /\ b[i] <= o
        BY DEF OrderKept, UpTo
    <3> QED
        BY <3>1
  <2>3. \A x \in l : x < o + 1
      BY DEF OrderKept
  <2> QED
      BY <2>0, <2>1, <2>2, <2>3 DEF OrderKept, Precede, AllBelow
<1>6. UpTo(t, o + 1)
  <2> SUFFICES ASSUME NEW j \in 1 .. Len(t) PROVE t[j] <= o + 1
      BY DEF UpTo
  <2>1. CASE j = Len(s) + 1
      BY <1>2, <2>1
  <2>2. CASE j \in 1 .. Len(s)
    <3>1. t[j] = s[j] /\ s[j] \in Nat /\ s[j] <= o
        BY <1>2, <2>2 DEF OrderKept, UpTo
    <3> QED
        BY <3>1
  <2> QED
      BY <1>3, <2>1, <2>2
<1>7. OrderKept(t, b, p, l, o + 1)
    BY <1>1, <1>4, <1>5, <1>6 DEF OrderKept
<1> QED
    BY <1>1, <1>7 DEF t

\* So is the sentinel, which has no place in the order.
LEMMA OrderClosed ==
    ASSUME NEW s \in Seq(Nat), NEW b \in Seq(Nat), NEW p \in Seq(Nat), NEW l \in SUBSET Nat, NEW o \in Nat,
           OrderKept(s, b, p, l, o)
    PROVE  OrderKept(Append(s, Sentinel), b, p, l, o)
<1> DEFINE t == Append(s, Sentinel)
<1>1. /\ t \in Seq(Nat) /\ Len(t) = Len(s) + 1 /\ Len(s) \in Nat /\ t[Len(s) + 1] = Sentinel
      /\ \A i \in 1 .. Len(s) : t[i] = s[i]
    BY DEF Sentinel
<1> HIDE DEF t
<1>2. \A i \in 1 .. Len(t) : t[i] # Sentinel => i \in 1 .. Len(s)
    BY <1>1
<1>3. InQueueOrder(t)
    BY <1>1, <1>2 DEF OrderKept, InQueueOrder
<1>4. Precede(p, t) /\ Precede(b, t) /\ AllBelow(l, t)
    BY <1>1, <1>2 DEF OrderKept, Precede, AllBelow
<1>5. UpTo(t, o)
  <2> SUFFICES ASSUME NEW j \in 1 .. Len(t) PROVE t[j] <= o
      BY DEF UpTo
  <2>1. CASE t[j] = Sentinel
      BY <2>1 DEF Sentinel
  <2>2. CASE t[j] # Sentinel
      BY <1>1, <1>2, <2>2 DEF OrderKept, UpTo
  <2> QED
      BY <2>1, <2>2
<1> QED
    BY <1>3, <1>4, <1>5 DEF OrderKept, t

\* A queue without its oldest item is in order.
LEMMA OrderDropped ==
    ASSUME NEW s \in Seq(Nat), NEW b \in Seq(Nat), NEW p \in Seq(Nat), NEW l \in SUBSET Nat, NEW o \in Nat,
           OrderKept(s, b, p, l, o), NEW t \in Seq(Nat), NEW e \in Nat,
           Len(t) = Len(s) - e, \A i \in 1 .. Len(t) : t[i] = s[i + e]
    PROVE  OrderKept(t, b, p, l, o)
<1>1. \A i \in 1 .. Len(t) : i + e \in 1 .. Len(s)
    OBVIOUS
<1>2. InQueueOrder(t)
  <2> SUFFICES ASSUME NEW i \in 1 .. Len(t), NEW j \in 1 .. Len(t), i < j, t[i] # Sentinel, t[j] # Sentinel PROVE t[i] < t[j]
      BY DEF InQueueOrder
  <2>1. s[i + e] = t[i] /\ s[j + e] = t[j]
      OBVIOUS
  <2>2. i + e < j + e
      OBVIOUS
  <2> QED
      BY <1>1, <2>1, <2>2 DEF OrderKept, InQueueOrder
<1>3. Precede(p, t) /\ Precede(b, t) /\ AllBelow(l, t) /\ UpTo(t, o)
  <2>1. \A j \in 1 .. Len(t) : \E k \in 1 .. Len(s) : t[j] = s[k]
      BY <1>1
  <2> QED
      BY <2>1 DEF OrderKept, Precede, AllBelow, UpTo
<1> QED
    BY <1>2, <1>3 DEF OrderKept

\* Items taken from the front of the queue are a batch in order before the rest.
LEMMA OrderTaken ==
    ASSUME NEW s \in Seq(Nat), NEW p \in Seq(Nat), NEW l \in SUBSET Nat, NEW o \in Nat,
           OrderKept(s, <<>>, p, l, o), NEW t \in Seq(Nat), NEW c \in Seq(Nat), NEW e \in Nat,
           Len(t) = Len(s) - Len(c) - e,
           \A i \in 1 .. Len(t) : t[i] = s[i + Len(c) + e],
           \A i \in 1 .. Len(c) : c[i] = s[i] /\ s[i] # Sentinel
    PROVE  OrderKept(t, c, p, l, o)
<1> DEFINE d == Len(c) + e
<1>1. Len(c) \in Nat /\ d \in Nat /\ Len(t) = Len(s) - d /\ \A i \in 1 .. Len(t) : i + d = i + Len(c) + e
    OBVIOUS
<1>2. \A i \in 1 .. Len(t) : t[i] = s[i + d] /\ i + d \in 1 .. Len(s) /\ i + d > Len(c)
    BY <1>1
<1>3. Len(c) <= Len(s) /\ \A i \in 1 .. Len(c) : i \in 1 .. Len(s)
  <2>1. Len(t) \in Nat /\ Len(s) \in Nat
      OBVIOUS
  <2> QED
      BY <1>1, <2>1
<1> HIDE DEF d
<1>4. OrderKept(t, <<>>, p, l, o)
  <2>1. \A i \in 1 .. Len(t) : t[i] = s[i + d]
      BY <1>2
  <2>2. <<>> \in Seq(Nat)
      OBVIOUS
  <2> QED
      BY <1>1, <2>1, <2>2, OrderDropped
<1>5. InOrder(c) /\ RealItems(c)
    BY <1>3 DEF OrderKept, InQueueOrder, InOrder, RealItems
<1>6. Precede(c, t)
  <2> SUFFICES ASSUME NEW i \in 1 .. Len(c), NEW j \in 1 .. Len(t), t[j] # Sentinel PROVE c[i] < t[j]
      BY DEF Precede
  <2>1. i \in 1 .. Len(s) /\ j + d \in 1 .. Len(s) /\ t[j] = s[j + d] /\ c[i] = s[i] /\ s[i] # Sentinel
      BY <1>2, <1>3
  <2>2. i < j + d
    <3>1. j + d > Len(c)
        BY <1>2
    <3>2. i <= Len(c) /\ i \in Nat /\ Len(c) \in Nat
        BY <1>1
    <3>3. j + d \in Nat
        BY <1>1
    <3> QED
        BY <3>1, <3>2, <3>3
  <2> QED
      BY <2>1, <2>2 DEF OrderKept, InQueueOrder
<1>7. Precede(p, c) /\ AllBelow(l, c) /\ UpTo(c, o)
    BY <1>3 DEF OrderKept, Precede, AllBelow, UpTo
<1> QED
    BY <1>4, <1>5, <1>6, <1>7 DEF OrderKept

\* A batch that is posted, or lost, stands before the queue.
LEMMA OrderPosted ==
    ASSUME NEW s \in Seq(Nat), NEW b \in Seq(Nat), NEW p \in Seq(Nat), NEW l \in SUBSET Nat, NEW o \in Nat,
           OrderKept(s, b, p, l, o)
    PROVE  OrderKept(s, <<>>, p \o b, l, o) /\ OrderKept(s, <<>>, p, l \cup ToSet(b), o)
<1> DEFINE c == p \o b
<1>1. /\ c \in Seq(Nat) /\ Len(c) = Len(p) + Len(b) /\ Len(p) \in Nat /\ Len(b) \in Nat
      /\ \A i \in 1 .. Len(c) : c[i] = IF i <= Len(p) THEN p[i] ELSE b[i - Len(p)]
    OBVIOUS
<1> HIDE DEF c
<1>2. \A i \in 1 .. Len(c) : \/ i \in 1 .. Len(p) /\ c[i] = p[i]
                             \/ i > Len(p) /\ i - Len(p) \in 1 .. Len(b) /\ c[i] = b[i - Len(p)]
    BY <1>1
<1>3. InOrder(c)
  <2> SUFFICES ASSUME NEW i \in 1 .. Len(c), NEW j \in 1 .. Len(c), i < j PROVE c[i] < c[j]
      BY DEF InOrder
  <2>1. CASE j \in 1 .. Len(p)
    <3>1. i \in 1 .. Len(p) /\ c[i] = p[i] /\ c[j] = p[j]
        BY <1>1, <2>1
    <3> QED
        BY <3>1, <2>1 DEF OrderKept, InOrder
  <2>2. CASE i \in 1 .. Len(p) /\ j > Len(p)
    <3>1. PICK k \in 1 .. Len(b) : c[j] = b[k]
        BY <1>1, <1>2, <2>2
    <3>2. c[i] = p[i] /\ b[k] # Sentinel
        BY <1>1, <2>2 DEF OrderKept, RealItems
    <3> QED
        BY <2>2, <3>1, <3>2 DEF OrderKept, Precede
  <2>3. CASE i > Len(p) /\ j > Len(p)
    <3>1. i - Len(p) \in 1 .. Len(b) /\ j - Len(p) \in 1 .. Len(b) /\ i - Len(p) < j - Len(p)
      <4>1. PICK m \in Nat, k \in Nat : m = Len(p) /\ k = Len(b) /\ Len(c) = m + k
          BY <1>1
      <4>2. i \in 1 .. m + k /\ j \in 1 .. m + k /\ i > m /\ j > m
          BY <2>3, <4>1
      <4>3. i - m \in 1 .. k /\ j - m \in 1 .. k /\ i - m < j - m
          BY <4>2
      <4> QED
          BY <4>1, <4>3
    <3>2. c[i] = b[i - Len(p)] /\ c[j] = b[j - Len(p)]
      <4>1. ~(i <= Len(p)) /\ ~(j <= Len(p))
          BY <1>1, <2>3
      <4> QED
          BY <1>1, <4>1
    <3> QED
        BY <3>1, <3>2 DEF OrderKept, InOrder
  <2> QED
      BY <1>1, <2>1, <2>2, <2>3
<1>4. RealItems(c) /\ Precede(c, s) /\ UpTo(c, o)
    BY <1>2 DEF OrderKept, RealItems, Precede, UpTo
<1>5. \A i \in 1 .. Len(c) : c[i] \notin l
  <2> TAKE i \in 1 .. Len(c)
  <2>1. CASE i \in 1 .. Len(p) /\ c[i] = p[i]
      BY <2>1 DEF OrderKept
  <2>2. ASSUME i - Len(p) \in 1 .. Len(b), c[i] = b[i - Len(p)] PROVE c[i] \notin l
    <3>1. PICK k \in 1 .. Len(b) : c[i] = b[k] /\ b[k] # Sentinel
        BY <2>2 DEF OrderKept, RealItems
    <3>2. b[k] \in Nat
        OBVIOUS
    <3>3. \A x \in l : x < b[k]
        BY <3>1 DEF OrderKept, AllBelow
    <3> QED
        BY <3>1, <3>2, <3>3
  <2> QED
      BY <1>2, <2>1, <2>2
<1>6. InOrder(<<>>) /\ RealItems(<<>>) /\ Precede(c, <<>>) /\ Precede(p, <<>>) /\ Precede(<<>>, s) /\ UpTo(<<>>, o)
      /\ \A m : AllBelow(m, <<>>)
    BY DEF InOrder, RealItems, Precede, UpTo, AllBelow
<1>7. OrderKept(s, <<>>, c, l, o)
    BY <1>3, <1>4, <1>5, <1>6 DEF OrderKept
<1> DEFINE m == l \cup ToSet(b)
<1>8. \A x \in m : x \in l \/ \E k \in 1 .. Len(b) : x = b[k]
    BY DEF ToSet
<1> HIDE DEF m
<1>9. AllBelow(m, s) /\ \A x \in m : x <= o
    BY <1>8 DEF OrderKept, AllBelow, Precede, UpTo
<1>10. \A i \in 1 .. Len(p) : p[i] \notin m
  <2> TAKE i \in 1 .. Len(p)
  <2>1. \A k \in 1 .. Len(b) : p[i] < b[k] /\ p[i] \in Nat /\ b[k] \in Nat
      BY DEF OrderKept, Precede, RealItems
  <2>2. \A k \in 1 .. Len(b) : p[i] # b[k]
      BY <2>1
  <2> QED
      BY <1>8, <2>2 DEF OrderKept
<1>11. OrderKept(s, <<>>, p, m, o)
    BY <1>6, <1>9, <1>10 DEF OrderKept
<1> QED
    BY <1>7, <1>11 DEF c, m

\* The items before the sentinel are a prefix of the queue without it.
LEMMA ItemsAre ==
    ASSUME NEW s \in Seq(Nat)
    PROVE  \E n \in 0 .. Len(s) :
               /\ Items(s) = SubSeq(s, 1, n) /\ \A k \in 1 .. n : s[k] # Sentinel
               /\ Contains(s, Sentinel) <=> n < Len(s)
               /\ n < Len(s) => s[n + 1] = Sentinel
<1> DEFINE I == {i \in 1 .. Len(s) : s[i] = Sentinel}
<1>1. Len(s) \in Nat /\ I \in SUBSET Nat
    OBVIOUS
<1>2. CASE I = {}
  <2>1. ~Contains(s, Sentinel) /\ \A k \in 1 .. Len(s) : s[k] # Sentinel
      BY <1>2 DEF Contains
  <2>2. Items(s) = SubSeq(s, 1, Len(s))
      BY <2>1 DEF Items
  <2> QED
      BY <1>1, <2>1, <2>2
<1>3. CASE I # {}
  <2> DEFINE m == Min(I)
  <2>1. Contains(s, Sentinel)
      BY <1>3 DEF Contains
  <2>2. SelectInSeq(s, LAMBDA i : i = Sentinel) = m
      BY <1>3 DEF SelectInSeq
  <2>3. Items(s) = SubSeq(s, 1, m - 1)
      BY <2>1, <2>2 DEF Items
  <2>4. m \in I /\ \A y \in I : m <= y
    <3> HIDE DEF I
    <3> QED
        BY <1>1, <1>3, LeastExists
  <2> HIDE DEF m
  <2>5. m \in 1 .. Len(s) /\ s[m] = Sentinel /\ m - 1 \in 0 .. Len(s) /\ m - 1 < Len(s) /\ m - 1 + 1 = m
      BY <2>4
  <2>6. \A k \in 1 .. m - 1 : s[k] # Sentinel
      BY <2>4, <2>5
  <2> QED
      BY <2>1, <2>3, <2>5, <2>6
<1> QED
    BY <1>2, <1>3

\* What a drain takes out of a queue.
Taken(s) == AtMost(Items(s), BatchMax)
Ends(s) == Len(Taken(s)) < BatchMax /\ Contains(s, Sentinel)
Past(s) == IF Ends(s) THEN 1 ELSE 0
Left(s) == SubSeq(s, Len(Taken(s)) + 1 + Past(s), Len(s))

\* What the drain takes is such a prefix, and what it leaves the rest.
LEMMA DrainTakes ==
    ASSUME NEW s \in Seq(Nat)
    PROVE  /\ Taken(s) \in Seq(Nat) /\ Left(s) \in Seq(Nat) /\ Past(s) \in {0, 1} /\ (Ends(s) <=> Past(s) = 1)
           /\ Len(Left(s)) = Len(s) - Len(Taken(s)) - Past(s)
           /\ \A i \in 1 .. Len(Left(s)) : Left(s)[i] = s[i + Len(Taken(s)) + Past(s)]
           /\ \A i \in 1 .. Len(Taken(s)) : Taken(s)[i] = s[i] /\ s[i] # Sentinel
           /\ Past(s) = 1 => Len(Taken(s)) < Len(s) /\ s[Len(Taken(s)) + 1] = Sentinel
<1>1. PICK n \in 0 .. Len(s) :
         /\ Items(s) = SubSeq(s, 1, n) /\ \A k \in 1 .. n : s[k] # Sentinel
         /\ Contains(s, Sentinel) <=> n < Len(s)
         /\ n < Len(s) => s[n + 1] = Sentinel
    BY ItemsAre
<1>2. BatchMax \in Nat \ {0} /\ Len(s) \in Nat
    BY QueueAssumption
<1> DEFINE m == IF n > BatchMax THEN BatchMax ELSE n
<1>3. m \in 0 .. n /\ m \in Nat /\ (m < BatchMax => m = n)
    BY <1>1, <1>2
<1>4. Items(s) \in Seq(Nat) /\ Len(Items(s)) = n /\ \A i \in 1 .. n : Items(s)[i] = s[i]
    BY <1>1, <1>2
<1>5. Taken(s) \in Seq(Nat) /\ Len(Taken(s)) = m /\ \A i \in 1 .. m : Taken(s)[i] = s[i]
  <2>1. CASE n > BatchMax
    <3>1. Taken(s) = SubSeq(Items(s), 1, BatchMax)
        BY <1>4, <2>1 DEF Taken, AtMost
    <3>2. m = BatchMax /\ BatchMax \in 0 .. n /\ n \in Nat
        BY <1>2, <2>1
    <3> DEFINE v == Items(s)
    <3>3. v \in Seq(Nat) /\ Len(v) = n /\ Taken(s) = SubSeq(v, 1, BatchMax)
        BY <1>4, <3>1
    <3> HIDE DEF v, m
    <3>4. Taken(s) \in Seq(Nat) /\ Len(Taken(s)) = BatchMax /\ \A i \in 1 .. BatchMax : Taken(s)[i] = v[i]
        BY <1>2, <3>2, <3>3
    <3>5. \A i \in 1 .. BatchMax : i \in 1 .. n
        BY <3>2
    <3> QED
        BY <1>4, <3>2, <3>4, <3>5 DEF v
  <2>2. CASE ~(n > BatchMax)
    <3>1. Taken(s) = Items(s)
        BY <1>4, <2>2 DEF Taken, AtMost
    <3> QED
        BY <1>4, <2>2, <3>1
  <2> QED
      BY <2>1, <2>2
<1> HIDE DEF m
<1>6. Past(s) \in {0, 1} /\ (Ends(s) <=> Past(s) = 1)
    BY DEF Past
<1>7. Past(s) = 1 => m < Len(s) /\ m = n /\ s[m + 1] = Sentinel
    BY <1>1, <1>3, <1>5, <1>6 DEF Ends
<1> DEFINE f == m + 1 + Past(s)
<1>8. f \in 1 .. Len(s) + 1 /\ f = m + 1 + Past(s)
    BY <1>1, <1>2, <1>3, <1>6, <1>7
<1>9. Left(s) = SubSeq(s, f, Len(s))
    BY <1>5 DEF Left
<1> HIDE DEF f
<1>10. Left(s) \in Seq(Nat) /\ Len(Left(s)) = Len(s) - f + 1 /\ \A i \in 1 .. Len(Left(s)) : Left(s)[i] = s[i + f - 1]
    BY <1>2, <1>8, <1>9
<1>11. Len(Left(s)) = Len(s) - m - Past(s) /\ \A i \in 1 .. Len(Left(s)) : i + f - 1 = i + m + Past(s)
  <2>1. PICK x : x = Past(s)
      OBVIOUS
  <2>2. x \in {0, 1} /\ f = m + 1 + x /\ Len(s) - f + 1 = Len(s) - m - x
      BY <1>2, <1>3, <1>6, <1>8, <2>1
  <2>3. Len(Left(s)) \in Nat /\ \A i \in Nat : i + f - 1 = i + m + x
      BY <1>3, <1>10, <2>2
  <2> QED
      BY <1>10, <2>1, <2>2, <2>3
<1>12. \A i \in 1 .. m : s[i] # Sentinel
    BY <1>1, <1>3
<1> QED
    BY <1>5, <1>6, <1>7, <1>10, <1>11, <1>12

\* c is taken out of s, with e sentinels after it, and t is left.
Takes(s, c, t, e) ==
    /\ c \in Seq(Nat) /\ t \in Seq(Nat) /\ e \in {0, 1}
    /\ Len(t) = Len(s) - Len(c) - e /\ \A i \in 1 .. Len(t) : t[i] = s[i + Len(c) + e]
    /\ \A i \in 1 .. Len(c) : c[i] = s[i] /\ s[i] # Sentinel
    /\ e = 1 => Len(c) < Len(s) /\ s[Len(c) + 1] = Sentinel

\* Taking a prefix keeps the order.
LEMMA TakesKeepsOrder ==
    ASSUME NEW s \in Seq(Nat), NEW p \in Seq(Nat), NEW l \in SUBSET Nat, NEW o \in Nat,
           OrderKept(s, <<>>, p, l, o), NEW c, NEW t, NEW e, Takes(s, c, t, e)
    PROVE  OrderKept(t, c, p, l, o)
<1>1. c \in Seq(Nat) /\ t \in Seq(Nat) /\ e \in Nat
    BY DEF Takes
<1> QED
    BY <1>1, OrderTaken DEF Takes

\* A batch has no sentinel.
LEMMA TakesReal ==
    ASSUME NEW s \in Seq(Nat), RealItems(s), NEW c, NEW t, NEW e, Takes(s, c, t, e)
    PROVE  RealItems(t) /\ e = 0
<1>1. Len(c) \in Nat /\ Len(s) \in Nat /\ Len(t) \in Nat /\ e \in {0, 1}
    BY DEF Takes
<1>2. \A i \in 1 .. Len(t) : i + Len(c) + e \in 1 .. Len(s)
    BY <1>1 DEF Takes
<1>3. e = 1 => Len(c) + 1 \in 1 .. Len(s)
    BY <1>1 DEF Takes
<1> QED
    BY <1>1, <1>2, <1>3 DEF RealItems, Takes

\* What was ahead of the sentinel is in the batch or still ahead of it.
LEMMA AheadTaken ==
    ASSUME NEW s \in Seq(Nat), NEW c, NEW t, NEW e, Takes(s, c, t, e), NEW x, Ahead(x, s)
    PROVE  (\E i \in 1 .. Len(c) : c[i] = x) \/ (e = 0 /\ Ahead(x, t))
<1> USE DEF Takes
<1>1. PICK i \in 1 .. Len(s) : s[i] = x /\ \A k \in 1 .. i : s[k] # Sentinel
    BY DEF Ahead
<1>2. Len(c) \in Nat /\ Len(s) \in Nat /\ Len(t) \in Nat
  <2>1. c \in Seq(Nat) /\ t \in Seq(Nat)
      OBVIOUS
  <2> HIDE DEF Takes
  <2>2. Len(c) \in Nat
      BY <2>1
  <2>3. Len(t) \in Nat
      BY <2>1
  <2>4. Len(s) \in Nat
      OBVIOUS
  <2> QED
      BY <2>2, <2>3, <2>4
<1>3. CASE i <= Len(c)
  <2>1. i \in 1 .. Len(c)
      BY <1>1, <1>2, <1>3
  <2>2. c[i] = s[i]
      BY <2>1
  <2> HIDE DEF Takes
  <2> QED
      BY <1>1, <2>1, <2>2
<1>4. CASE i > Len(c)
  <2>1. Len(c) + 1 \in 1 .. i
      BY <1>2, <1>4
  <2>2. e = 0
      BY <1>1, <2>1
  <2> DEFINE j == i - Len(c)
  <2>3. j \in 1 .. Len(t) /\ j + Len(c) + e = i
      BY <1>2, <1>4, <2>2
  <2>4. t[j] = x
      BY <1>1, <2>3
  <2>5. ASSUME NEW k \in 1 .. j PROVE t[k] # Sentinel
    <3>1. k \in 1 .. Len(t) /\ k + Len(c) + e \in 1 .. i
        BY <1>2, <2>2, <2>3
    <3> QED
        BY <1>1, <3>1
  <2> QED
      BY <2>2, <2>3, <2>4, <2>5 DEF Ahead
<1> QED
    BY <1>2, <1>3, <1>4

\* It stays so when something is put behind it.
LEMMA AheadAppended ==
    ASSUME NEW s \in Seq(Nat), NEW n \in Nat, NEW x, Ahead(x, s)
    PROVE  Ahead(x, Append(s, n))
<1>1. PICK i \in 1 .. Len(s) : s[i] = x /\ \A k \in 1 .. i : s[k] # Sentinel
    BY DEF Ahead
<1> DEFINE t == Append(s, n)
<1>2. Len(t) = Len(s) + 1 /\ Len(s) \in Nat /\ \A k \in 1 .. Len(s) : t[k] = s[k]
    OBVIOUS
<1> HIDE DEF t
<1>3. i \in 1 .. Len(t) /\ \A k \in 1 .. i : k \in 1 .. Len(s)
    BY <1>2
<1>4. Ahead(x, t)
    BY <1>1, <1>2, <1>3 DEF Ahead
<1> QED
    BY <1>4 DEF t

\* Without a sentinel everything is ahead.
LEMMA AheadReal ==
    ASSUME NEW s \in Seq(Nat), RealItems(s), NEW x \in ToSet(s) PROVE Ahead(x, s)
<1>1. PICK i \in 1 .. Len(s) : s[i] = x
    BY DEF ToSet
<1>2. \A k \in 1 .. i : k \in 1 .. Len(s)
    OBVIOUS
<1> QED
    BY <1>1, <1>2 DEF Ahead, RealItems

\* What was in a batch has been posted or lost.
LEMMA HandledPosted ==
    ASSUME NEW b \in Seq(Nat), NEW p \in Seq(Nat), NEW l, NEW x, Handled(x, b, p, l)
    PROVE  Handled(x, <<>>, p \o b, l) /\ Handled(x, <<>>, p, l \cup ToSet(b))
<1> DEFINE c == p \o b
<1>1. /\ Len(c) = Len(p) + Len(b) /\ Len(p) \in Nat /\ Len(b) \in Nat
      /\ \A i \in 1 .. Len(p) : c[i] = p[i]
      /\ \A i \in 1 .. Len(b) : c[i + Len(p)] = b[i]
    OBVIOUS
<1> HIDE DEF c
<1>2. CASE x \in l
    BY <1>2 DEF Handled
<1>3. ASSUME NEW i \in 1 .. Len(p), p[i] = x PROVE (\E k \in 1 .. Len(c) : c[k] = x)
  <2>1. i \in 1 .. Len(c)
      BY <1>1
  <2> QED
      BY <1>1, <1>3, <2>1
<1>4. ASSUME NEW i \in 1 .. Len(b), b[i] = x PROVE (\E k \in 1 .. Len(c) : c[k] = x) /\ x \in ToSet(b)
  <2>1. i + Len(p) \in 1 .. Len(c)
      BY <1>1
  <2>2. x \in ToSet(b)
      BY <1>4 DEF ToSet
  <2> QED
      BY <1>1, <1>4, <2>1, <2>2
<1> QED
    BY <1>2, <1>3, <1>4 DEF Handled, c

\* The queue's invariant holds at first.
LEMMA QueueInitInv == QueueInit => QueueInv
<1> SUFFICES ASSUME QueueInit PROVE QueueInv
    OBVIOUS
<1>1. QueueTypes
  <2>1. <<>> \in Seq(Nat) /\ {} \in SUBSET Nat /\ 0 \in Nat
      OBVIOUS
  <2>2. sink \in Sinks /\ worker = "idle" /\ ending = FALSE /\ q = <<>> /\ batch = <<>> /\ sent = <<>> /\ lost = {} /\ offered = 0
      BY DEF QueueInit
  <2> QED
      BY <2>1, <2>2 DEF QueueTypes
<1>2. \A i \in 1 .. Len(<<>>) : FALSE
    OBVIOUS
<1>3. OrderKept(<<>>, <<>>, <<>>, {}, 0)
    BY <1>2 DEF OrderKept, InQueueOrder, InOrder, RealItems, Precede, AllBelow, UpTo
<1>4. RealItems(<<>>)
    BY <1>2 DEF RealItems
<1> QED
    BY <1>1, <1>3, <1>4 DEF QueueInit, QueueInv, ClosedKept

\* Every offer, drain, post and close keeps it.
LEMMA QueueStepInv == ASSUME QueueInv, [QueueNext]_queueVars PROVE QueueInv'
<1>0. QueueTypes /\ OrderKept(q, batch, sent, lost, offered) /\ ClosedKept
    BY DEF QueueInv
<1>1. /\ q \in Seq(Nat) /\ batch \in Seq(Nat) /\ sent \in Seq(Nat) /\ lost \in SUBSET Nat /\ offered \in Nat
      /\ ending \in BOOLEAN
    BY <1>0 DEF QueueTypes
<1>2. CASE UNCHANGED queueVars
    BY <1>0, <1>2 DEF queueVars, QueueInv, QueueTypes, ClosedKept
<1>3. ASSUME Offer PROVE QueueInv'
  <2>1. offered' = offered + 1 /\ UNCHANGED <<sink, batch, ending, worker, stage, sent, lost>>
      BY <1>3 DEF Offer
  <2>2. \/ q' = q \/ q' = Append(q, offered + 1)
        \/ sink = "logs" /\ q' = Append(Tail(q), offered + 1) /\ q # <<>>
    <3>1. QueueMax \in Nat \ {0}
        BY QueueAssumption
    <3>2. ~(Len(q) < QueueMax) => q # <<>>
        BY <3>1
    <3> QED
        BY <1>3, <3>2 DEF Offer, Submit, ObserveRouter, Enqueue, Emit, PutNowait, EmitRecord
  <2>3. q' \in Seq(Nat) /\ OrderKept(q', batch, sent, lost, offered + 1)
    <3>1. CASE q' = q \/ q' = Append(q, offered + 1)
      <4>1. offered + 1 \in Nat /\ Append(q, offered + 1) \in Seq(Nat)
          BY <1>1
      <4>2. OrderKept(q, batch, sent, lost, offered + 1) /\ OrderKept(Append(q, offered + 1), batch, sent, lost, offered + 1)
          BY <1>0, <1>1, OrderOffered
      <4> QED
          BY <1>1, <3>1, <4>1, <4>2
    <3>2. CASE q' = Append(Tail(q), offered + 1) /\ q # <<>>
      <4> DEFINE t == Tail(q)
      <4>1. t \in Seq(Nat) /\ Len(t) = Len(q) - 1 /\ \A i \in 1 .. Len(t) : t[i] = q[i + 1]
          BY <1>1, <3>2
      <4> HIDE DEF t
      <4>2. OrderKept(t, batch, sent, lost, offered)
          BY <1>0, <1>1, <4>1, OrderDropped
      <4>3. OrderKept(Append(t, offered + 1), batch, sent, lost, offered + 1) /\ Append(t, offered + 1) \in Seq(Nat)
          BY <1>1, <4>1, <4>2, OrderOffered
      <4> QED
          BY <3>2, <4>3 DEF t
    <3> QED
        BY <2>2, <3>1, <3>2
  <2>4. RealItems(q) => RealItems(q')
    <3>1. CASE q' = q
        BY <3>1
    <3>2. CASE q' = Append(q, offered + 1)
        BY <1>1, <3>2 DEF RealItems, Sentinel
    <3>3. CASE q' = Append(Tail(q), offered + 1) /\ q # <<>>
        BY <1>1, <3>3 DEF RealItems, Sentinel
    <3> QED
        BY <2>2, <3>1, <3>2, <3>3
  <2>5. ASSUME NEW x \in at_close', Ahead(x, q) PROVE Ahead(x, q')
    <3>1. CASE sink = "logs"
      <4>1. RealItems(q')
          BY <1>0, <2>4, <3>1 DEF ClosedKept
      <4>2. x \in ToSet(q) /\ x \notin ToSet(q) \ ToSet(q')
        <5>1. x \in ToSet(q)
            BY <1>1, <2>5 DEF Ahead, ToSet
        <5> QED
            BY <1>3, <3>1, <5>1 DEF Offer
      <4> QED
          BY <2>3, <4>1, <4>2, AheadReal
    <3>2. CASE q' = q
        BY <2>5, <3>2
    <3>3. CASE q' = Append(q, offered + 1)
        BY <1>1, <2>5, <3>3, AheadAppended
    <3> QED
        BY <2>2, <3>1, <3>2, <3>3
  <2>6. at_close' \subseteq at_close
      BY <1>3 DEF Offer
  <2>7. ClosedKept'
    <3>1. stage' # "closed" => at_close' = {} /\ RealItems(q') /\ worker' # "ended" /\ ~ending'
        BY <1>0, <2>1, <2>4, <2>6 DEF ClosedKept
    <3>2. sink' = "logs" => RealItems(q')
        BY <1>0, <2>1, <2>4 DEF ClosedKept
    <3>3. ASSUME NEW x \in at_close'
          PROVE  Handled(x, batch', sent', lost') \/ (~ending' /\ worker' # "ended" /\ Ahead(x, q'))
        BY <1>0, <2>1, <2>5, <2>6 DEF ClosedKept
    <3> QED
        BY <3>1, <3>2, <3>3 DEF ClosedKept
  <2> QED
      BY <1>0, <2>1, <2>3, <2>7 DEF QueueInv, QueueTypes
<1>4. ASSUME NEW c, NEW t, NEW e, Takes(q, c, t, e), worker = "idle",
             q' = t, batch' = c, UNCHANGED <<sink, stage, offered, sent, lost, at_close>>,
             worker' \in {"idle", "posting", "ended"}, ending' \in BOOLEAN,
             worker' # "posting" => c = <<>>, worker' = "idle" => ~ending',
             stage # "closed" => e = 1 \/ (worker' # "ended" /\ ~ending'),
             e = 0 => (~ending' /\ worker' # "ended") \/ t = <<>>
      PROVE  QueueInv'
  <2>1. batch = <<>>
      BY <1>0, <1>4 DEF QueueTypes
  <2>0. c \in Seq(Nat) /\ t \in Seq(Nat)
      BY <1>4 DEF Takes
  <2>2. OrderKept(t, c, sent, lost, offered)
      BY <1>0, <1>1, <1>4, <2>1, TakesKeepsOrder
  <2>3. RealItems(q) => RealItems(t) /\ e = 0
      BY <1>1, <1>4, TakesReal
  <2>4. ASSUME NEW x \in at_close
        PROVE  Handled(x, c, sent, lost) \/ (~ending' /\ worker' # "ended" /\ Ahead(x, t))
    <3>1. CASE Handled(x, batch, sent, lost)
        BY <2>1, <3>1 DEF Handled
    <3>2. CASE Ahead(x, q)
      <4>1. (\E i \in 1 .. Len(c) : c[i] = x) \/ (e = 0 /\ Ahead(x, t))
          BY <1>1, <1>4, <3>2, AheadTaken
      <4>2. Ahead(x, t) => t # <<>>
          BY DEF Ahead
      <4> QED
          BY <1>4, <4>1, <4>2 DEF Handled
    <3> QED
        BY <1>0, <3>1, <3>2 DEF ClosedKept
  <2>5. ClosedKept'
    <3>1. stage' # "closed" => at_close' = {} /\ RealItems(q') /\ worker' # "ended" /\ ~ending'
        BY <1>0, <1>4, <2>3 DEF ClosedKept
    <3>2. sink' = "logs" => RealItems(q')
        BY <1>0, <1>4, <2>3 DEF ClosedKept
    <3>3. \A x \in at_close' : Handled(x, batch', sent', lost') \/ (~ending' /\ worker' # "ended" /\ Ahead(x, q'))
        BY <1>4, <2>4
    <3> QED
        BY <3>1, <3>2, <3>3 DEF ClosedKept
  <2> QED
      BY <1>0, <1>4, <2>0, <2>2, <2>5 DEF QueueInv, QueueTypes
<1>5. ASSUME Drain PROVE QueueInv'
  <2>1. /\ worker = "idle" /\ UNCHANGED <<sink, stage, offered, sent, lost, at_close>>
        /\ q' = Left(q) /\ ending' = Ends(q) /\ batch' = Taken(q)
        /\ worker' = IF Ends(q) /\ batch' = <<>> THEN "ended" ELSE "posting"
      BY <1>5 DEF Drain, Left, Ends, Taken, Past, DrainBatch
  <2>2. Takes(q, Taken(q), Left(q), Past(q)) /\ Past(q) \in {0, 1} /\ (Ends(q) <=> Past(q) = 1)
      BY <1>1, DrainTakes DEF Takes
  <2>3. Ends(q) \in BOOLEAN
      BY DEF Ends
  <2>4. /\ worker' \in {"idle", "posting", "ended"} /\ ending' \in BOOLEAN /\ (worker' # "posting" => Taken(q) = <<>>)
        /\ (Past(q) = 0 => ~ending' /\ worker' # "ended") /\ (Past(q) = 1 \/ (worker' # "ended" /\ ~ending'))
      BY <2>1, <2>2, <2>3
  <2> QED
      BY <1>4, <2>1, <2>2, <2>4
<1>6. ASSUME DrainSeries PROVE QueueInv'
  <2>1. /\ worker = "idle" /\ q # <<>> /\ q' = Tail(q) /\ UNCHANGED <<sink, ending, stage, offered, sent, lost, at_close>>
        /\ IF Head(q) = Sentinel THEN worker' = "ended" /\ batch' = <<>> ELSE worker' = "posting" /\ batch' = <<Head(q)>>
      BY <1>6 DEF DrainSeries
  <2>2. /\ Tail(q) \in Seq(Nat) /\ Len(Tail(q)) = Len(q) - 1 /\ Head(q) = q[1] /\ Len(q) \in Nat /\ 0 < Len(q)
        /\ \A i \in 1 .. Len(Tail(q)) : Tail(q)[i] = q[i + 1]
      BY <1>1, <2>1
  <2> DEFINE t == Tail(q)
  <2> HIDE DEF t
  <2>3. CASE Head(q) = Sentinel
    <3> DEFINE c == <<>>
    <3>1. c \in Seq(Nat) /\ Len(c) = 0
        OBVIOUS
    <3>2. worker' = "ended" /\ batch' = c /\ q' = t /\ t \in Seq(Nat)
        BY <2>1, <2>2, <2>3 DEF t
    <3>3. c = <<>>
        OBVIOUS
    <3> HIDE DEF c
    <3>4. Takes(q, c, t, 1)
        BY <2>2, <2>3, <3>1 DEF t, Takes
    <3> QED
        BY <1>1, <1>4, <2>1, <3>2, <3>3, <3>4
  <2>4. CASE Head(q) # Sentinel
    <3> DEFINE c == <<Head(q)>>
    <3>1. c \in Seq(Nat) /\ Len(c) = 1 /\ c[1] = q[1] /\ q[1] # Sentinel
        BY <1>1, <2>2, <2>4
    <3>2. worker' = "posting" /\ batch' = c /\ q' = t /\ t \in Seq(Nat)
        BY <2>1, <2>2, <2>4 DEF t
    <3> HIDE DEF c
    <3>3. Takes(q, c, t, 0)
        BY <2>2, <3>1 DEF t, Takes
    <3>4. ~ending' /\ ending' \in BOOLEAN
        BY <1>0, <1>1, <2>1 DEF QueueTypes
    <3> QED
        BY <1>4, <2>1, <3>2, <3>3, <3>4
  <2> QED
      BY <2>3, <2>4
<1>7. ASSUME FlushLoop PROVE QueueInv'
  <2> DEFINE t == <<>>
  <2>1. /\ worker = "idle" /\ q' = t /\ batch' = q /\ UNCHANGED <<sink, stage, offered, sent, lost, at_close>>
        /\ ending' \in BOOLEAN /\ (ending' <=> stage = "closed") /\ sink = "logs"
        /\ worker' = IF q # <<>> THEN "posting" ELSE IF ending' THEN "ended" ELSE "idle"
      BY <1>7 DEF FlushLoop
  <2>2. t \in Seq(Nat) /\ Len(t) = 0 /\ t = <<>>
      OBVIOUS
  <2> HIDE DEF t
  <2>3. Takes(q, q, t, 0)
      BY <1>0, <1>1, <2>1, <2>2 DEF Takes, ClosedKept, RealItems
  <2> QED
      BY <1>4, <2>1, <2>2, <2>3
<1>8. ASSUME NEW ok \in BOOLEAN, Post(ok) PROVE QueueInv'
  <2>1. /\ batch' = <<>> /\ worker' = (IF ending THEN "ended" ELSE "idle") /\ worker = "posting"
        /\ UNCHANGED <<sink, q, ending, stage, offered, at_close>>
        /\ sent' = (IF ok THEN sent \o batch ELSE sent) /\ lost' = (IF ok THEN lost ELSE lost \cup ToSet(batch))
      BY <1>8 DEF Post
  <2>2. ToSet(batch) \in SUBSET Nat /\ sent \o batch \in Seq(Nat) /\ <<>> \in Seq(Nat)
      BY <1>1 DEF ToSet
  <2>3. OrderKept(q, <<>>, sent', lost', offered)
      BY <1>0, <1>1, <2>1, OrderPosted
  <2>4. ASSUME NEW x \in at_close
        PROVE  Handled(x, <<>>, sent', lost') \/ (~ending /\ worker' # "ended" /\ Ahead(x, q))
    <3>1. CASE Handled(x, batch, sent, lost)
        BY <1>1, <2>1, <3>1, HandledPosted
    <3> QED
        BY <1>0, <2>1, <3>1 DEF ClosedKept
  <2>5. ClosedKept'
      BY <1>0, <2>1, <2>4 DEF ClosedKept
  <2> QED
      BY <1>0, <1>1, <2>1, <2>2, <2>3, <2>5 DEF QueueInv, QueueTypes
<1>9. ASSUME Close PROVE QueueInv'
    BY <1>0, <1>9 DEF Close, QueueInv, QueueTypes, ClosedKept
<1>10. ASSUME NEW timed_out \in BOOLEAN, CloseFlushed(timed_out) PROVE QueueInv'
  <2>1. /\ stage = "flushing" /\ stage' = "closed" /\ at_close' = ToSet(q)
        /\ (q' = q \/ (q' = Append(q, Sentinel) /\ sink # "logs"))
        /\ UNCHANGED <<sink, batch, ending, worker, offered, sent, lost>>
      BY <1>10 DEF CloseFlushed, PutNowait
  <2>2. RealItems(q) /\ worker # "ended" /\ ~ending
      BY <1>0, <2>1 DEF ClosedKept
  <2>3. q' \in Seq(Nat) /\ OrderKept(q', batch, sent, lost, offered)
    <3>1. Append(q, Sentinel) \in Seq(Nat)
        BY <1>1 DEF Sentinel
    <3> QED
        BY <1>0, <1>1, <2>1, <3>1, OrderClosed
  <2>4. ASSUME NEW x \in ToSet(q) PROVE Ahead(x, q')
    <3>1. Ahead(x, q) /\ Sentinel \in Nat
        BY <1>1, <2>2, AheadReal DEF Sentinel
    <3> QED
        BY <1>1, <2>1, <3>1, AheadAppended
  <2>5. ClosedKept'
      BY <2>1, <2>2, <2>4 DEF ClosedKept
  <2> QED
      BY <1>0, <2>1, <2>3, <2>5 DEF QueueInv, QueueTypes
<1> QED
    BY <1>2, <1>3, <1>5, <1>6, <1>7, <1>8, <1>9, <1>10 DEF QueueNext

\* It has a worker that ended post everything.
LEMMA QueueInvPosts == QueueInv => WorkerPostsAll
<1> SUFFICES ASSUME QueueInv PROVE WorkerPostsAll
    OBVIOUS
<1>1. QueueTypes /\ OrderKept(q, batch, sent, lost, offered) /\ ClosedKept
    BY DEF QueueInv
<1>2. \A i, j \in 1 .. Len(sent) : i < j => sent[i] < sent[j]
    BY <1>1 DEF OrderKept, InOrder
<1>3. ToSet(sent) \cap lost = {}
    BY <1>1 DEF OrderKept, ToSet, QueueTypes
<1>4. ASSUME worker = "ended", NEW x \in at_close PROVE x \in ToSet(sent) \cup lost
  <2>1. Handled(x, <<>>, sent, lost)
      BY <1>1, <1>4 DEF ClosedKept, QueueTypes
  <2> QED
      BY <1>1, <2>1 DEF Handled, ToSet, QueueTypes
<1> QED
    BY <1>2, <1>3, <1>4 DEF WorkerPostsAll

-----------------------------------------------------------------------------
\* The exit's provisioning.

-----------------------------------------------------------------------------
(* The provisioning of the exit (HomeServer).  An address below the next     *)
(* octet of server.json is taken, and its owner is who was named with it     *)
(* last; a command that issues one names no other.                           *)

PathRecords == [client : ClientNames, path : PathNames, key : Nat, addr : Nat]
MetaRecords == [ports : PortLists \ {<<>>}, key : Nat, octet : Nat, paths : SUBSET PathRecords]
ConfRecords == [listen : Nat, key : Nat, peers : Seq([key : Nat, addr : Nat])]
LinkRecords == [listen : Nat, key : Nat, owner : [Octets -> Nat]]
Issuing == [op : {"client", "path"}, client : ClientNames, todo : Seq(PathNames), octet : Nat,
            made : SUBSET PathRecords]
Upping == [op : {"up"}, step : {"conf", "redirect", "link"}, already : BOOLEAN, saved : BOOLEAN]

ServerTypes ==
    /\ meta \in {Absent, Broken} \cup MetaRecords /\ conf \in {Absent} \cup ConfRecords
    /\ wg \in {Absent} \cup LinkRecords /\ env \in Envs
    /\ torn \in BOOLEAN /\ minted \in 0 .. MaxKeys /\ rekeyed \in Nat
    /\ cmd \in {Idle, [op |-> "init"]} \cup Issuing \cup Upping
    /\ rules = [p \in AllPorts |-> rules[p]]

\* What each command knows while it runs.
CommandKnows ==
    /\ cmd.op = "init" => meta \in MetaRecords /\ meta.paths = {}
    /\ Provisioning => Readable /\ cmd.octet \in meta.octet .. FirstOctet + minted
    /\ cmd.op = "up" => meta \in MetaRecords /\ conf \in ConfRecords /\ (cmd.already <=> wg # Absent)
    /\ cmd.op = "up" /\ cmd.step # "conf" => conf.listen = meta.ports[1]
    /\ cmd.op = "up" /\ cmd.step = "link" => \A p \in Listed(meta.ports) : rules[p] = Redirected(p)

Owned(p) == /\ Owner(conf.peers, p.addr) = p.key
            /\ wg # Absent => wg.owner[p.addr] = p.key

Listing == conf # Absent \/ cmd.op = "up"

PathsOwned ==
    /\ Readable => meta.octet \in FirstOctet .. FirstOctet + minted
    /\ Readable => \A p \in meta.paths : p.addr \in FirstOctet .. meta.octet - 1
    /\ Readable /\ Listing /\ ~torn => \A p \in meta.paths : Owned(p)
    /\ Provisioning => \A p \in cmd.made : p.addr \in meta.octet .. cmd.octet - 1
    /\ Provisioning /\ conf # Absent /\ ~torn => \A p \in cmd.made : Owned(p)

ServerInv == ServerTypes /\ CommandKnows /\ PathsOwned

\* A peer named last owns its address, and takes no other one away.
LEMMA OwnerAppended ==
    ASSUME NEW s \in Seq([key : Nat, addr : Nat]), NEW k \in Nat, NEW a \in Nat, NEW b \in Nat
    PROVE  Owner(Append(s, [key |-> k, addr |-> a]), b) = IF b = a THEN k ELSE Owner(s, b)
<1> DEFINE t == Append(s, [key |-> k, addr |-> a])
           Mine(u) == {i \in DOMAIN u : u[i].addr = b}
           Latest(u) == CHOOSE i \in Mine(u) : \A j \in Mine(u) : j <= i
<1>1. /\ Len(s) \in Nat /\ DOMAIN s = 1 .. Len(s) /\ DOMAIN t = 1 .. Len(s) + 1
      /\ t[Len(s) + 1] = [key |-> k, addr |-> a] /\ \A i \in 1 .. Len(s) : t[i] = s[i]
    OBVIOUS
<1> HIDE DEF t
<1>2. \A u : Owner(u, b) = IF Mine(u) = {} THEN 0 ELSE u[Latest(u)].key
    BY DEF Owner
<1>3. CASE b = a
  <2>1. Len(s) + 1 \in Mine(t) /\ \A j \in Mine(t) : j <= Len(s) + 1
      BY <1>1, <1>3
  <2>2. \A i \in Mine(t) : (\A j \in Mine(t) : j <= i) => i = Len(s) + 1
      BY <1>1, <2>1
  <2>3. Latest(t) = Len(s) + 1
    <3> HIDE DEF Mine
    <3> QED
        BY <2>1, <2>2
  <2>4. Mine(t) # {} /\ t[Len(s) + 1].key = k
      BY <1>1, <2>1
  <2> HIDE DEF Mine, Latest
  <2>5. Owner(t, b) = k
      BY <1>2, <2>3, <2>4
  <2> QED
      BY <1>3, <2>5 DEF t
<1>4. CASE b # a
  <2>1. Mine(t) = Mine(s)
      BY <1>1, <1>4
  <2>2. Latest(t) = Latest(s)
      BY <2>1
  <2>3. Mine(s) # {} => Latest(s) \in 1 .. Len(s)
    <3> SUFFICES ASSUME Mine(s) # {} PROVE Latest(s) \in Mine(s)
        BY <1>1
    <3>1. Mine(s) \in SUBSET (1 .. Len(s))
        BY <1>1
    <3> HIDE DEF Mine
    <3>2. \E i \in Mine(s) : \A j \in Mine(s) : j <= i
        BY <1>1, <3>1, GreatestExists
    <3> QED
        BY <3>2
  <2>4. Mine(s) # {} => t[Latest(s)] = s[Latest(s)]
    <3> HIDE DEF Mine, Latest
    <3> QED
        BY <1>1, <2>3
  <2> HIDE DEF Mine, Latest
  <2>5. Owner(t, b) = Owner(s, b)
      BY <1>2, <2>1, <2>2, <2>4
  <2> QED
      BY <1>4, <2>5 DEF t
<1> QED
    BY <1>3, <1>4 DEF t

\* The owner of an address is a key, or none.
LEMMA OwnerIsKey == ASSUME NEW s \in Seq([key : Nat, addr : Nat]), NEW b PROVE Owner(s, b) \in Nat
<1> DEFINE Mine == {i \in DOMAIN s : s[i].addr = b}
           Latest == CHOOSE i \in Mine : \A j \in Mine : j <= i
<1>1. Owner(s, b) = IF Mine = {} THEN 0 ELSE s[Latest].key
    BY DEF Owner
<1> DEFINE Peers == [key : Nat, addr : Nat]
<1>0. s \in Seq(Peers) /\ \A e \in Peers : e.key \in Nat
    OBVIOUS
<1> HIDE DEF Peers
<1>2. Len(s) \in Nat /\ DOMAIN s = 1 .. Len(s) /\ \A i \in 1 .. Len(s) : s[i].key \in Nat
    BY <1>0
<1>3. Mine \in SUBSET (1 .. Len(s))
    BY <1>2
<1> HIDE DEF Mine
<1>4. Mine # {} => Latest \in Mine
  <2>1. Mine # {} => \E i \in Mine : \A j \in Mine : j <= i
      BY <1>2, <1>3, GreatestExists
  <2> QED
      BY <2>1
<1> HIDE DEF Latest
<1>5. Mine # {} => Latest \in 1 .. Len(s)
    BY <1>3, <1>4
<1> QED
    BY <1>1, <1>2, <1>5

\* What each kind of command is.
LEMMA CommandKinds ==
    ASSUME ServerTypes
    PROVE  /\ cmd.op = "up" => cmd \in Upping
           /\ Provisioning => cmd \in Issuing
           /\ cmd = Idle => cmd.op = "idle"
           /\ cmd.op \in {"idle", "init", "client", "path", "up"}
BY DEF ServerTypes, Idle, Provisioning, Issuing, Upping

\* The provisioning's invariant holds at first.
LEMMA ServerInitInv == ServerInit => ServerInv
<1> SUFFICES ASSUME ServerInit PROVE ServerInv
    OBVIOUS
<1>1. /\ meta = Absent /\ conf = Absent /\ wg = Absent /\ env \in Envs /\ cmd = Idle
      /\ torn = FALSE /\ minted = 0 /\ rekeyed = 0
    BY DEF ServerInit
<1>2. rules = [p \in AllPorts |-> rules[p]]
    BY DEF ServerInit
<1>3. cmd.op = "idle"
    BY <1>1 DEF Idle
<1>4. ServerTypes
  <2>1. 0 \in 0 .. MaxKeys
      BY ServerAssumption
  <2> QED
      BY <1>1, <1>2, <2>1 DEF ServerTypes
<1>5. CommandKnows
    BY <1>3 DEF CommandKnows, Provisioning
<1>6. PathsOwned
    BY <1>1, <1>3 DEF PathsOwned, Listing, Provisioning, Readable
<1> QED
    BY <1>4, <1>5, <1>6 DEF ServerInv

\* Every step of every command, and every kill, keeps it.
LEMMA ServerStepInv == ASSUME ServerInv, [ServerNext]_homeServerVars PROVE ServerInv'
<1>0. ServerTypes /\ CommandKnows /\ PathsOwned /\ PortLists \subseteq Seq(Nat) /\ MaxKeys \in Nat
    BY ServerAssumption DEF ServerInv
<1>1. CASE UNCHANGED homeServerVars
  <2>1. UNCHANGED <<meta, conf, wg, rules, env, cmd, torn, minted, rekeyed>>
      BY <1>1 DEF homeServerVars
  <2>2. ServerTypes'
      BY <1>0, <2>1 DEF ServerTypes
  <2>3. CommandKnows'
      BY <1>0, <2>1 DEF CommandKnows, Provisioning, Readable, Redirected, Target
  <2>4. PathsOwned'
      BY <1>0, <2>1 DEF PathsOwned, Listing, Owned, Provisioning, Readable
  <2> QED
      BY <2>2, <2>3, <2>4 DEF ServerInv
<1>2. ASSUME NEW l \in PortLists, NEW force \in BOOLEAN, CmdInit(l, force) PROVE ServerInv'
  <2>1. /\ l # <<>> /\ rekeyed' = rekeyed + 1 /\ cmd' = [op |-> "init"]
        /\ meta' = [ports |-> l, key |-> rekeyed + 1, octet |-> FirstOctet, paths |-> {}]
        /\ UNCHANGED <<conf, wg, rules, env, torn, minted>>
      BY <1>2 DEF CmdInit
  <2>2. meta' \in MetaRecords /\ meta'.paths = {} /\ meta'.octet = FirstOctet
      BY <1>0, <2>1 DEF MetaRecords, FirstOctet, ServerTypes
  <2>3. ServerTypes'
      BY <1>0, <2>1, <2>2 DEF ServerTypes
  <2>4. CommandKnows'
      BY <2>1, <2>2 DEF CommandKnows, Provisioning
  <2>5. PathsOwned'
    <3>1. minted' \in Nat /\ FirstOctet \in FirstOctet .. FirstOctet + minted'
        BY <1>0, <2>1 DEF ServerTypes, FirstOctet
    <3> QED
        BY <2>1, <2>2, <3>1 DEF PathsOwned, Listing, Provisioning
  <2> QED
      BY <2>3, <2>4, <2>5 DEF ServerInv
<1>3. ASSUME InitWritesConf PROVE ServerInv'
  <2>1. /\ cmd.op = "init" /\ conf' = [listen |-> meta.ports[1], key |-> meta.key, peers |-> <<>>]
        /\ torn' = FALSE /\ cmd' = Idle /\ UNCHANGED <<meta, wg, rules, env, minted, rekeyed>>
      BY <1>3 DEF InitWritesConf
  <2>2. meta \in MetaRecords /\ meta.paths = {}
      BY <1>0, <2>1 DEF CommandKnows
  <2>3. conf' \in ConfRecords
    <3>1. meta.ports[1] \in Nat /\ meta.key \in Nat
        BY <1>0, <2>2 DEF MetaRecords
    <3> QED
        BY <2>1, <3>1 DEF ConfRecords
  <2>4. ServerTypes' /\ CommandKnows'
      BY <1>0, <2>1, <2>3 DEF ServerTypes, CommandKnows, Provisioning, Idle
  <2>5. PathsOwned'
      BY <1>0, <2>1, <2>2 DEF PathsOwned, Listing, Provisioning, Idle, Readable
  <2> QED
      BY <2>4, <2>5 DEF ServerInv
<1>4. ASSUME NEW c \in ClientNames, NEW todo \in Seq(PathNames), NEW op \in {"client", "path"}, Readable,
             cmd' = [op |-> op, client |-> c, todo |-> todo, octet |-> meta.octet, made |-> {}],
             UNCHANGED <<meta, conf, wg, rules, env, torn, minted, rekeyed>>
      PROVE  ServerInv'
  <2>1. meta \in MetaRecords /\ meta.octet \in Nat /\ meta.octet \in FirstOctet .. FirstOctet + minted
      BY <1>0, <1>4 DEF ServerTypes, Readable, MetaRecords, PathsOwned
  <2>2. cmd' \in Issuing /\ cmd'.op = op /\ cmd'.made = {} /\ cmd'.octet = meta.octet
      BY <1>4, <2>1 DEF Issuing
  <2>3. ServerTypes'
      BY <1>0, <1>4, <2>2 DEF ServerTypes
  <2>4. CommandKnows'
    <3>1. meta.octet \in meta.octet .. FirstOctet + minted
        BY <1>0, <2>1 DEF ServerTypes, FirstOctet
    <3> QED
        BY <1>4, <2>2, <3>1 DEF CommandKnows, Provisioning, Readable
  <2>5. PathsOwned'
      BY <1>0, <1>4, <2>2 DEF PathsOwned, Listing, Owned, Provisioning, Readable
  <2> QED
      BY <2>3, <2>4, <2>5 DEF ServerInv
<1>5. ASSUME NEW c \in ClientNames, NEW p \in PathNames, CmdAddClient(c, <<p>>) \/ CmdAddPath(c, p) PROVE ServerInv'
  <2>1. <<p>> \in Seq(PathNames)
      OBVIOUS
  <2>2. CASE CmdAddClient(c, <<p>>)
      BY <1>4, <2>1, <2>2 DEF CmdAddClient
  <2>3. CASE CmdAddPath(c, p)
      BY <1>4, <2>1, <2>3 DEF CmdAddPath
  <2> QED
      BY <1>5, <2>2, <2>3
<1>6. ASSUME NEW c \in ClientNames, NEW p \in PathNames, NEW r \in PathNames, CmdAddClient(c, <<p, r>>) PROVE ServerInv'
  <2>1. <<p, r>> \in Seq(PathNames)
      OBVIOUS
  <2> QED
      BY <1>4, <1>6, <2>1 DEF CmdAddClient
<1>7. ASSUME AppendPeer PROVE ServerInv'
  <2>2. cmd \in Issuing /\ Readable /\ meta \in MetaRecords /\ cmd.octet \in meta.octet .. FirstOctet + minted
        /\ meta.octet \in FirstOctet .. FirstOctet + minted /\ meta.octet \in Nat /\ minted \in Nat
        /\ Provisioning /\ cmd.todo # <<>> /\ minted < MaxKeys /\ cmd.octet \in Nat
      BY <1>0, <1>7, CommandKinds DEF AppendPeer, CommandKnows, ServerTypes, Readable, MetaRecords, PathsOwned, Issuing
  <2>3. PICK key \in Nat, addr \in Nat : key = minted + 1 /\ addr = cmd.octet
      BY <2>2
  <2>4. PICK new \in PathRecords :
            new = [client |-> cmd.client, path |-> Head(cmd.todo), key |-> key, addr |-> addr]
    <3>1. cmd.todo \in Seq(PathNames) /\ cmd.client \in ClientNames
        BY <2>2 DEF Issuing
    <3>2. Head(cmd.todo) \in PathNames
        BY <2>2, <3>1
    <3> QED
        BY <3>1, <3>2 DEF PathRecords
  <2>1. /\ conf' = IF conf = Absent THEN conf
                   ELSE [conf EXCEPT !.peers = Append(conf.peers, [key |-> key, addr |-> addr])]
        /\ wg' = IF wg = Absent THEN wg ELSE [wg EXCEPT !.owner[addr] = key]
        /\ cmd' = [cmd EXCEPT !.todo = Tail(cmd.todo), !.octet = cmd.octet + 1, !.made = cmd.made \cup {new}]
        /\ minted' = key /\ UNCHANGED <<meta, rules, env, torn, rekeyed>>
      BY <1>7, <2>3, <2>4 DEF AppendPeer, NextOctet
  <2>13. key \in 0 .. MaxKeys /\ addr \in Octets /\ new.key = key /\ new.addr = addr
      BY <1>0, <2>2, <2>3, <2>4 DEF Octets, FirstOctet
  <2>5. cmd' \in Issuing /\ cmd'.op = cmd.op /\ cmd'.octet = cmd.octet + 1 /\ cmd'.made = cmd.made \cup {new}
    <3>1. Tail(cmd.todo) \in Seq(PathNames) /\ cmd.octet + 1 \in Nat /\ cmd.made \cup {new} \in SUBSET PathRecords
        BY <2>1, <2>2, <2>3, <2>4 DEF Issuing
    <3> QED
        BY <2>1, <2>2, <3>1 DEF Issuing
  <2>6. conf # Absent => conf \in ConfRecords /\ conf' \in ConfRecords /\ conf'.peers = Append(conf.peers, [key |-> key, addr |-> addr])
    <3> SUFFICES ASSUME conf # Absent
                 PROVE  conf \in ConfRecords /\ conf' \in ConfRecords /\ conf'.peers = Append(conf.peers, [key |-> key, addr |-> addr])
        OBVIOUS
    <3>1. conf \in ConfRecords
        BY <1>0 DEF ServerTypes
    <3>2. PICK s \in Seq([key : Nat, addr : Nat]) : s = Append(conf.peers, [key |-> key, addr |-> addr])
      <4> DEFINE Peers == [key : Nat, addr : Nat]
                 e == [key |-> key, addr |-> addr]
      <4>1. conf.peers \in Seq(Peers) /\ e \in Peers
          BY <2>3, <3>1 DEF ConfRecords
      <4> HIDE DEF Peers, e
      <4>2. Append(conf.peers, e) \in Seq(Peers)
          BY <4>1 DEF Peers, e
      <4> QED
          BY <4>2 DEF Peers, e
    <3>3. conf' = [conf EXCEPT !.peers = s]
        BY <2>1, <3>2
    <3> QED
        BY <3>1, <3>2, <3>3 DEF ConfRecords
  <2>7. wg # Absent => wg \in LinkRecords /\ wg' \in LinkRecords /\ wg'.owner = [wg.owner EXCEPT ![addr] = key]
      BY <1>0, <2>1, <2>3, <2>13 DEF ServerTypes, LinkRecords
  <2>8. ServerTypes'
      BY <1>0, <2>1, <2>3, <2>5, <2>6, <2>7, <2>13 DEF ServerTypes
  <2>9. CommandKnows'
    <3>1. cmd.octet + 1 \in meta.octet .. FirstOctet + key
        BY <2>2, <2>3, <2>13 DEF FirstOctet
    <3>2. cmd'.op # "init" /\ cmd'.op # "up" /\ Provisioning' /\ Readable'
        BY <2>1, <2>2, <2>5 DEF Issuing, Provisioning, Readable
    <3> QED
        BY <2>1, <2>5, <3>1, <3>2 DEF CommandKnows
  <2>10. ASSUME NEW p \in PathRecords, p.addr # addr, conf # Absent, Owned(p) PROVE Owned(p)'
    <3>1. p.addr \in Nat /\ p.key \in Nat
        BY DEF PathRecords
    <3>2. conf.peers \in Seq([key : Nat, addr : Nat])
        BY <2>6, <2>10 DEF ConfRecords
    <3>3. Owner(conf'.peers, p.addr) = Owner(conf.peers, p.addr)
      <4> DEFINE a == p.addr
      <4>1. a \in Nat /\ a # addr /\ key \in Nat /\ addr \in Nat
          BY <2>3, <2>10, <3>1
      <4>2. conf'.peers = Append(conf.peers, [key |-> key, addr |-> addr])
          BY <2>6, <2>10
      <4> HIDE DEF a
      <4>3. Owner(Append(conf.peers, [key |-> key, addr |-> addr]), a) = Owner(conf.peers, a)
          BY <3>2, <4>1, OwnerAppended
      <4> QED
          BY <4>2, <4>3 DEF a
    <3>4. wg' # Absent => wg # Absent /\ wg'.owner[p.addr] = wg.owner[p.addr]
        BY <2>1, <2>7, <2>10 DEF LinkRecords
    <3> QED
        BY <2>10, <3>3, <3>4 DEF Owned
  <2>11. conf # Absent => Owned(new)'
    <3> SUFFICES ASSUME conf # Absent PROVE Owned(new)'
        OBVIOUS
    <3>1. conf.peers \in Seq([key : Nat, addr : Nat])
        BY <2>6 DEF ConfRecords
    <3>2. Owner(conf'.peers, addr) = key
      <4>1. conf'.peers = Append(conf.peers, [key |-> key, addr |-> addr])
          BY <2>6
      <4>2. Owner(Append(conf.peers, [key |-> key, addr |-> addr]), addr) = key
          BY <2>3, <3>1, OwnerAppended
      <4> QED
          BY <4>1, <4>2
    <3>3. wg' # Absent => wg'.owner[addr] = key
        BY <2>1, <2>3, <2>7, <2>13 DEF LinkRecords
    <3> QED
        BY <2>13, <3>2, <3>3 DEF Owned
  <2>12. PathsOwned'
    <3>1. (Readable /\ conf # Absent /\ ~torn)' => conf # Absent /\ Readable /\ ~torn
        BY <2>1 DEF Readable
    <3>2. \A p \in meta.paths : p \in PathRecords /\ p.addr # addr
        BY <1>0, <2>2, <2>3 DEF MetaRecords, PathsOwned
    <3>3. \A p \in cmd.made : p \in PathRecords /\ p.addr # addr /\ p.addr \in meta.octet .. cmd.octet + 1 - 1
        BY <1>0, <2>1, <2>2, <2>3 DEF Issuing, PathsOwned
    <3>4. addr \in meta.octet .. cmd.octet + 1 - 1
        BY <2>2, <2>3
    <3>5. meta.octet \in FirstOctet .. FirstOctet + key
        BY <2>2, <2>3, <2>13 DEF FirstOctet
    <3>6. Readable' => meta'.octet \in FirstOctet .. FirstOctet + minted' /\ \A p \in meta'.paths : p.addr \in FirstOctet .. meta'.octet - 1
        BY <1>0, <2>1, <2>2, <3>5 DEF PathsOwned, Listing
    <3>7. \A p \in cmd'.made : p.addr \in meta'.octet .. cmd'.octet - 1
      <4>1. meta' = meta /\ cmd'.octet = cmd.octet + 1 /\ cmd'.made = cmd.made \cup {new}
          BY <2>1, <2>5
      <4>2. PICK n \in Nat : n = cmd.octet + 1
          BY <2>2
      <4>3. \A p \in cmd.made \cup {new} : p.addr \in meta.octet .. n - 1
        <5>1. \A p \in cmd.made : p.addr \in meta.octet .. n - 1
            BY <2>2, <3>3, <4>2
        <5>2. new.addr \in meta.octet .. n - 1
            BY <2>2, <2>13, <3>4, <4>2
        <5> QED
            BY <5>1, <5>2
      <4>4. meta'.octet = meta.octet /\ cmd'.octet = n
          BY <4>1, <4>2
      <4> QED
          BY <4>1, <4>3, <4>4, Zenon
    <3>8. (Readable /\ conf # Absent /\ ~torn)' => \A p \in meta'.paths : Owned(p)'
        BY <1>0, <2>1, <2>10, <3>1, <3>2 DEF PathsOwned, Listing
    <3>9. (conf # Absent /\ ~torn)' => \A p \in cmd'.made : Owned(p)'
      <4> SUFFICES ASSUME (conf # Absent /\ ~torn)', NEW p \in cmd'.made PROVE Owned(p)'
          OBVIOUS
      <4>1. conf # Absent /\ ~torn /\ (p \in cmd.made \/ p = new)
          BY <2>1, <2>5
      <4>2. p \in cmd.made => Owned(p) /\ p \in PathRecords /\ p.addr # addr
          BY <1>0, <2>2, <3>3, <4>1 DEF PathsOwned, Listing
      <4>3. p \in cmd.made => Owned(p)'
          BY <2>10, <4>1, <4>2
      <4>4. CASE p \in cmd.made
          BY <4>3, <4>4
      <4>5. CASE p = new
          BY <2>11, <4>1, <4>5
      <4> QED
          BY <4>1, <4>4, <4>5
    <3> QED
      <4>1. Listing' => conf' # Absent
          BY <2>5 DEF Listing, Issuing
      <4>2. conf' # Absent => conf # Absent
          BY <2>1
      <4> QED
          BY <3>6, <3>7, <3>8, <3>9, <4>1, <4>2 DEF PathsOwned
  <2> QED
      BY <2>8, <2>9, <2>12 DEF ServerInv
<1>8. ASSUME SaveClients PROVE ServerInv'
  <2>1. /\ Provisioning /\ cmd' = Idle /\ UNCHANGED <<conf, wg, rules, env, torn, minted, rekeyed>>
        /\ meta' = [meta EXCEPT !.paths = (meta.paths \ Replaced) \cup cmd.made, !.octet = cmd.octet]
      BY <1>8 DEF SaveClients
  <2>2. cmd \in Issuing /\ Readable /\ meta \in MetaRecords /\ cmd.octet \in meta.octet .. FirstOctet + minted
        /\ meta.octet \in FirstOctet .. FirstOctet + minted /\ meta.octet \in Nat /\ minted \in Nat
        /\ cmd.octet \in Nat /\ cmd.made \in SUBSET PathRecords
      BY <1>0, <2>1, CommandKinds DEF CommandKnows, ServerTypes, Readable, MetaRecords, PathsOwned, Issuing
  <2>3. meta' \in MetaRecords /\ meta'.octet = cmd.octet /\ meta'.paths \in SUBSET (meta.paths \cup cmd.made)
    <3>1. (meta.paths \ Replaced) \cup cmd.made \in SUBSET PathRecords
        BY <2>2 DEF MetaRecords
    <3> QED
        BY <2>1, <2>2, <3>1 DEF MetaRecords
  <2>4. cmd'.op = "idle"
      BY <2>1 DEF Idle
  <2>5. ServerTypes' /\ CommandKnows'
      BY <1>0, <2>1, <2>3, <2>4 DEF ServerTypes, CommandKnows, Provisioning
  <2>6. PathsOwned'
    <3>1. cmd.octet \in FirstOctet .. FirstOctet + minted
        BY <2>2 DEF FirstOctet
    <3>2. \A p \in meta.paths \cup cmd.made : p.addr \in FirstOctet .. cmd.octet - 1
        BY <1>0, <2>1, <2>2 DEF PathsOwned, Listing, FirstOctet
    <3>3. conf # Absent /\ ~torn => \A p \in meta.paths \cup cmd.made : Owned(p)
        BY <1>0, <2>1, <2>2 DEF PathsOwned, Listing
    <3>4. conf' # Absent /\ ~torn' => \A p \in meta.paths \cup cmd.made : Owned(p)'
        BY <2>1, <3>3 DEF Owned
    <3>5. meta'.octet \in FirstOctet .. FirstOctet + minted' /\ \A p \in meta'.paths : p.addr \in FirstOctet .. meta'.octet - 1
        BY <2>1, <2>3, <3>1, <3>2
    <3>6. conf' # Absent /\ ~torn' => \A p \in meta'.paths : Owned(p)'
        BY <2>3, <3>4
    <3> QED
        BY <2>4, <3>5, <3>6 DEF PathsOwned, Listing, Provisioning
  <2> QED
      BY <2>5, <2>6 DEF ServerInv
<1>9. ASSUME CmdUp PROVE ServerInv'
  <2>1. /\ Readable /\ conf # Absent /\ UNCHANGED <<conf, wg, rules, env, torn, minted, rekeyed>>
        /\ meta' = [meta EXCEPT !.ports = IF env.ports = <<>> THEN meta.ports ELSE env.ports]
        /\ cmd' = [op |-> "up", step |-> "conf", already |-> wg # Absent, saved |-> meta' # meta]
      BY <1>9 DEF CmdUp
  <2>2. meta \in MetaRecords /\ conf \in ConfRecords
      BY <1>0, <2>1 DEF ServerTypes, Readable
  <2>3. meta' \in MetaRecords /\ meta'.octet = meta.octet /\ meta'.paths = meta.paths
    <3>1. (IF env.ports = <<>> THEN meta.ports ELSE env.ports) \in PortLists \ {<<>>}
        BY <1>0, <2>2 DEF ServerTypes, MetaRecords, Envs
    <3> QED
        BY <2>1, <2>2, <3>1 DEF MetaRecords
  <2>4. cmd' \in Upping /\ cmd'.op = "up" /\ cmd'.step = "conf" /\ (cmd'.already <=> wg # Absent)
      BY <2>1 DEF Upping
  <2>5. ServerTypes' /\ CommandKnows'
      BY <1>0, <2>1, <2>2, <2>3, <2>4 DEF ServerTypes, CommandKnows, Provisioning
  <2>6. PathsOwned'
      BY <1>0, <2>1, <2>3, <2>4 DEF PathsOwned, Listing, Owned, Provisioning
  <2> QED
      BY <2>5, <2>6 DEF ServerInv
<1>10. ASSUME UpWritesConf PROVE ServerInv'
  <2>1. /\ cmd.op = "up" /\ cmd' = [cmd EXCEPT !.step = "redirect"]
        /\ conf' = [listen |-> meta.ports[1], key |-> meta.key, peers |-> conf.peers]
        /\ UNCHANGED <<meta, wg, rules, env, torn, minted, rekeyed>>
      BY <1>10 DEF UpWritesConf, KeptPeers
  <2>2. cmd \in Upping /\ meta \in MetaRecords /\ conf \in ConfRecords /\ (cmd.already <=> wg # Absent)
      BY <1>0, <2>1, CommandKinds DEF CommandKnows
  <2>3. conf' \in ConfRecords /\ conf'.peers = conf.peers /\ conf'.listen = meta.ports[1]
    <3>1. meta.ports[1] \in Nat /\ meta.key \in Nat
        BY <1>0, <2>2 DEF MetaRecords
    <3> QED
        BY <2>1, <2>2, <3>1 DEF ConfRecords
  <2>4. cmd' \in Upping /\ cmd'.op = "up" /\ cmd'.step = "redirect" /\ cmd'.already = cmd.already
      BY <2>1, <2>2 DEF Upping
  <2>5. ServerTypes' /\ CommandKnows'
      BY <1>0, <2>1, <2>2, <2>3, <2>4 DEF ServerTypes, CommandKnows, Provisioning
  <2>7. PathsOwned'
      BY <1>0, <2>1, <2>3, <2>4 DEF PathsOwned, Listing, Owned, Provisioning, Readable
  <2> QED
      BY <2>5, <2>7 DEF ServerInv
<1>11. ASSUME UpRedirects PROVE ServerInv'
  <2>1. /\ cmd.op = "up" /\ cmd.step = "redirect" /\ cmd' = [cmd EXCEPT !.step = "link"]
        /\ rules' = [p \in AllPorts |-> IF p \in Listed(meta.ports) THEN Redirected(p) ELSE rules[p]]
        /\ UNCHANGED <<meta, conf, wg, env, torn, minted, rekeyed>>
      BY <1>11 DEF UpRedirects
  <2>2. cmd \in Upping /\ meta \in MetaRecords /\ conf \in ConfRecords /\ (cmd.already <=> wg # Absent)
        /\ conf.listen = meta.ports[1]
      BY <1>0, <2>1, CommandKinds DEF CommandKnows
  <2>3. cmd' \in Upping /\ cmd'.op = "up" /\ cmd'.step = "link" /\ cmd'.already = cmd.already
      BY <2>1, <2>2 DEF Upping
  <2>4. \A p \in Listed(meta.ports) : p \in AllPorts
      BY <2>2 DEF Listed, AllPorts, MetaRecords
  <2>5. \A p \in Listed(meta.ports) : rules'[p] = Redirected(p)
      BY <2>1, <2>4
  <2>6. \A p : Redirected(p)' = Redirected(p)
      BY <2>1 DEF Redirected, Target, Purged
  <2>7. \A p \in Listed(meta'.ports) : rules'[p] = Redirected(p)'
      BY <2>1, <2>5, <2>6
  <2>8. rules' = [p \in AllPorts |-> rules'[p]]
      BY <2>1
  <2>9. ServerTypes'
      BY <1>0, <2>1, <2>3, <2>8 DEF ServerTypes
  <2>10. CommandKnows'
      BY <1>0, <2>1, <2>2, <2>3, <2>7 DEF CommandKnows, Provisioning
  <2>11. PathsOwned'
      BY <1>0, <2>1, <2>3 DEF PathsOwned, Listing, Owned, Provisioning, Readable
  <2> QED
      BY <2>9, <2>10, <2>11 DEF ServerInv
<1>12. ASSUME UpBringsUp PROVE ServerInv'
  <2>1. /\ cmd.op = "up" /\ cmd.step = "link" /\ cmd' = Idle
        /\ wg' = IF cmd.already THEN wg
                 ELSE [listen |-> conf.listen, key |-> conf.key, owner |-> [a \in Octets |-> Owner(conf.peers, a)]]
        /\ UNCHANGED <<meta, conf, rules, env, torn, minted, rekeyed>>
      BY <1>12 DEF UpBringsUp
  <2>2. meta \in MetaRecords /\ conf \in ConfRecords /\ cmd'.op = "idle"
      BY <1>0, <2>1 DEF CommandKnows, Idle
  <2>3. conf.listen \in Nat /\ conf.key \in Nat /\ conf.peers \in Seq([key : Nat, addr : Nat])
      BY <2>2 DEF ConfRecords
  <2>4. [a \in Octets |-> Owner(conf.peers, a)] \in [Octets -> Nat]
      BY <2>3, OwnerIsKey
  <2>5. ~cmd.already => wg' \in LinkRecords
      BY <2>1, <2>3, <2>4 DEF LinkRecords
  <2>6. ~cmd.already => \A a \in Octets : wg'.owner[a] = Owner(conf.peers, a)
      BY <2>1
  <2>7. ServerTypes' /\ CommandKnows'
    <3>1. wg' \in {Absent} \cup LinkRecords
        BY <1>0, <2>1, <2>5 DEF ServerTypes
    <3> QED
        BY <1>0, <2>1, <2>2, <3>1 DEF ServerTypes, CommandKnows, Provisioning
  <2>8. PathsOwned'
    <3>1. Readable /\ ~torn => \A p \in meta.paths : Owned(p) /\ p.addr \in FirstOctet .. meta.octet - 1
        BY <1>0, <2>1 DEF PathsOwned, Listing
    <3>2. Readable => \A p \in meta.paths : p.addr \in Octets
      <4> SUFFICES ASSUME Readable, NEW p \in meta.paths PROVE p.addr \in Octets
          OBVIOUS
      <4>1. p.addr \in FirstOctet .. meta.octet - 1 /\ meta.octet \in FirstOctet .. FirstOctet + minted /\ minted \in 0 .. MaxKeys
          BY <1>0 DEF PathsOwned, ServerTypes
      <4> QED
          BY <1>0, <4>1 DEF Octets, FirstOctet
    <3>3. Readable /\ ~torn => \A p \in meta.paths : Owned(p)'
      <4> SUFFICES ASSUME Readable, ~torn, NEW p \in meta.paths PROVE Owned(p)'
          OBVIOUS
      <4>1. CASE cmd.already
          BY <2>1, <3>1, <4>1 DEF Owned
      <4>2. CASE ~cmd.already
        <5>1. Owner(conf.peers, p.addr) = p.key /\ wg'.owner[p.addr] = Owner(conf.peers, p.addr)
            BY <2>6, <3>1, <3>2, <4>2 DEF Owned
        <5> QED
            BY <2>1, <5>1 DEF Owned
      <4> QED
          BY <4>1, <4>2
    <3> QED
        BY <1>0, <2>1, <2>2, <3>3 DEF PathsOwned, Listing, Provisioning, Readable
  <2> QED
      BY <2>7, <2>8 DEF ServerInv
<1>13. ASSUME CmdDown PROVE ServerInv'
  <2>1. /\ cmd.op = "idle" /\ wg' = Absent /\ UNCHANGED <<meta, conf, rules, env, cmd, torn, minted, rekeyed>>
      BY <1>13 DEF CmdDown, Idle
  <2>2. ServerTypes' /\ CommandKnows'
      BY <1>0, <2>1 DEF ServerTypes, CommandKnows, Provisioning
  <2>3. PathsOwned'
      BY <1>0, <2>1 DEF PathsOwned, Listing, Owned, Provisioning, Readable
  <2> QED
      BY <2>2, <2>3 DEF ServerInv
<1>14. ASSUME NEW e \in Envs, EditEnvironment(e) PROVE ServerInv'
  <2>1. /\ cmd.op = "idle" /\ env' = e /\ UNCHANGED <<meta, conf, wg, rules, cmd, torn, minted, rekeyed>>
      BY <1>14 DEF EditEnvironment, Idle
  <2>2. ServerTypes' /\ CommandKnows'
      BY <1>0, <2>1 DEF ServerTypes, CommandKnows, Provisioning
  <2>3. PathsOwned'
      BY <1>0, <2>1 DEF PathsOwned, Listing, Owned, Provisioning, Readable
  <2> QED
      BY <2>2, <2>3 DEF ServerInv
<1>15. ASSUME Killed PROVE ServerInv'
  <2>1. /\ cmd' = Idle /\ cmd'.op = "idle" /\ UNCHANGED <<meta, conf, wg, rules, env, torn, minted, rekeyed>>
      BY <1>15 DEF Killed, Idle
  <2>2. ServerTypes' /\ CommandKnows'
      BY <1>0, <2>1 DEF ServerTypes, CommandKnows, Provisioning
  <2>3. PathsOwned'
      BY <1>0, <2>1 DEF PathsOwned, Listing, Owned, Provisioning, Readable
  <2> QED
      BY <2>2, <2>3 DEF ServerInv
<1>16. ASSUME KilledSaving PROVE ServerInv'
  <2>1. /\ cmd' = Idle /\ cmd'.op = "idle" /\ meta' = Broken /\ UNCHANGED <<conf, wg, rules, env, torn, minted, rekeyed>>
      BY <1>16 DEF KilledSaving, Idle
  <2>2. ServerTypes' /\ CommandKnows'
      BY <1>0, <2>1 DEF ServerTypes, CommandKnows, Provisioning
  <2>3. PathsOwned'
      BY <2>1 DEF PathsOwned, Provisioning, Readable
  <2> QED
      BY <2>2, <2>3 DEF ServerInv
<1>17. ASSUME KilledAppending PROVE ServerInv'
  <2>1. PICK n \in 0 .. Len(conf.peers) : conf' = [conf EXCEPT !.peers = SubSeq(conf.peers, 1, n)]
      BY <1>17 DEF KilledAppending
  <2>2. /\ conf # Absent /\ cmd' = Idle /\ cmd'.op = "idle" /\ torn' = TRUE
        /\ UNCHANGED <<meta, wg, rules, env, minted, rekeyed>>
      BY <1>17 DEF KilledAppending, Idle
  <2>3. conf \in ConfRecords
      BY <1>0, <2>2 DEF ServerTypes
  <2>4. SubSeq(conf.peers, 1, n) \in Seq([key : Nat, addr : Nat])
    <3> DEFINE Peers == [key : Nat, addr : Nat]
    <3>1. conf.peers \in Seq(Peers)
        BY <2>3 DEF ConfRecords
    <3> HIDE DEF Peers
    <3>2. \A i \in 1 .. n : conf.peers[i] \in Peers
        BY <2>1, <3>1
    <3>3. SubSeq(conf.peers, 1, n) \in Seq(Peers)
        BY <2>1, <3>1, <3>2
    <3> QED
        BY <3>3 DEF Peers
  <2>5. conf' \in ConfRecords
      BY <2>1, <2>3, <2>4 DEF ConfRecords
  <2>6. ServerTypes' /\ CommandKnows'
      BY <1>0, <2>2, <2>5 DEF ServerTypes, CommandKnows, Provisioning
  <2>7. PathsOwned'
      BY <1>0, <2>2 DEF PathsOwned, Provisioning, Readable
  <2> QED
      BY <2>6, <2>7 DEF ServerInv
<1>18. ASSUME NodeReboots PROVE ServerInv'
  <2>1. /\ cmd' = Idle /\ cmd'.op = "idle" /\ wg' = Absent /\ UNCHANGED <<meta, conf, env, torn, minted, rekeyed>>
      BY <1>18 DEF NodeReboots, Idle
  <2>2. rules' = [p \in AllPorts |-> rules'[p]]
      BY <1>18 DEF NodeReboots
  <2>3. ServerTypes' /\ CommandKnows'
      BY <1>0, <2>1, <2>2 DEF ServerTypes, CommandKnows, Provisioning
  <2>4. PathsOwned'
      BY <1>0, <2>1 DEF PathsOwned, Listing, Owned, Provisioning, Readable
  <2> QED
      BY <2>3, <2>4 DEF ServerInv
<1> QED
    BY <1>1, <1>2, <1>3, <1>5, <1>6, <1>7, <1>8, <1>9, <1>10, <1>11, <1>12, <1>13, <1>14, <1>15, <1>16, <1>17, <1>18 DEF ServerNext

\* It has every recorded path own its address.
LEMMA ServerInvReaches == ServerInv => IssuedPathsReachable
BY DEF ServerInv, PathsOwned, Listing, Owned, IssuedPathsReachable

\* What UpConverges says of a step.
Converged ==
    wg = Absent /\ wg' # Absent =>
        /\ \A p \in Listed(meta.ports) : Leads(p)' \in {wg'.listen, TransportPort}
        /\ \A i \in DOMAIN rules'[wg'.listen] :
              rules'[wg'.listen][i].to = TransportPort => rules'[wg'.listen][i].wanOnly

\* What the rule that a port gets says: none when it leads to itself.
LEMMA RedirectedOnce ==
    ASSUME NEW p
    PROVE  \/ Target(p) = p /\ Redirected(p) = <<>>
           \/ Target(p) # p /\ Redirected(p) = <<[to |-> Target(p), wanOnly |-> env.transport # Absent]>>
<1>1. <<>> \o <<>> = <<>>
    OBVIOUS
<1> DEFINE r == [to |-> Target(p), wanOnly |-> env.transport # Absent]
<1> HIDE DEF r
<1>2. <<>> \o <<r>> = <<r>>
    OBVIOUS
<1> QED
    BY <1>1, <1>2 DEF Redirected, Purged, r

\* Only the last step of up makes the interface, when every port was redirected.
LEMMA ServerStepConverges == ASSUME ServerInv, [ServerNext]_homeServerVars PROVE Converged
<1>1. ~UpBringsUp => (wg = Absent => wg' = Absent)
    BY DEF ServerNext, homeServerVars, CmdInit, InitWritesConf, CmdAddClient, CmdAddPath, AppendPeer, SaveClients, CmdUp,
       UpWritesConf, UpRedirects, CmdDown, EditEnvironment, Killed, KilledSaving, KilledAppending, NodeReboots
<1>2. ASSUME UpBringsUp, wg = Absent, wg' # Absent
      PROVE  /\ \A p \in Listed(meta.ports) : Leads(p)' \in {wg'.listen, TransportPort}
             /\ \A i \in DOMAIN rules'[wg'.listen] :
                   rules'[wg'.listen][i].to = TransportPort => rules'[wg'.listen][i].wanOnly
  <2>1. cmd.op = "up" /\ cmd.step = "link" /\ rules' = rules
      BY <1>2 DEF UpBringsUp
  <2>2. meta \in MetaRecords /\ conf \in ConfRecords /\ conf.listen = meta.ports[1] /\ ~cmd.already
        /\ \A p \in Listed(meta.ports) : rules[p] = Redirected(p)
      BY <1>2, <2>1 DEF ServerInv, CommandKnows
  <2>3. wg'.listen = meta.ports[1]
      BY <1>2, <2>2 DEF UpBringsUp
  <2>4. \A p : Target(p) \in {meta.ports[1], TransportPort} /\ (env.transport = Absent => Target(p) = meta.ports[1])
      BY DEF Target
  <2>5. ASSUME NEW p \in Listed(meta.ports) PROVE Leads(p)' \in {wg'.listen, TransportPort}
    <3>1. CASE Target(p) = p /\ rules[p] = <<>>
        BY <2>1, <2>3, <2>4, <3>1 DEF Leads
    <3>2. CASE Target(p) # p /\ rules[p] = <<[to |-> Target(p), wanOnly |-> env.transport # Absent]>>
      <4> DEFINE r == [to |-> Target(p), wanOnly |-> env.transport # Absent]
      <4>1. r.to = Target(p)
          OBVIOUS
      <4> HIDE DEF r
      <4>2. rules'[p] = <<r>>
          BY <2>1, <3>2 DEF r
      <4>3. <<r>> # <<>> /\ Head(<<r>>) = r
          OBVIOUS
      <4>4. Leads(p)' = Target(p)
          BY <4>1, <4>2, <4>3 DEF Leads
      <4> QED
          BY <2>3, <2>4, <4>4
    <3> QED
        BY <2>2, <3>1, <3>2, RedirectedOnce
  <2>6. meta.ports[1] \in Listed(meta.ports)
    <3>1. meta.ports \in Seq(Nat) /\ meta.ports # <<>>
        BY <2>2, ServerAssumption DEF MetaRecords
    <3> QED
        BY <3>1 DEF Listed
  <2>7. ASSUME NEW i \in DOMAIN rules'[wg'.listen], rules'[wg'.listen][i].to = TransportPort
        PROVE  rules'[wg'.listen][i].wanOnly
    <3> DEFINE p == meta.ports[1]
    <3>1. rules'[wg'.listen] = Redirected(p)
        BY <2>1, <2>2, <2>3, <2>6
    <3>2. CASE Target(p) = p /\ Redirected(p) = <<>>
        BY <2>7, <3>1, <3>2
    <3>3. CASE Target(p) # p /\ Redirected(p) = <<[to |-> Target(p), wanOnly |-> env.transport # Absent]>>
      <4>1. env.transport # Absent
          BY <2>4, <3>3
      <4> DEFINE r == [to |-> Target(p), wanOnly |-> env.transport # Absent]
      <4>2. r.wanOnly
          BY <4>1
      <4> HIDE DEF r
      <4>3. rules'[wg'.listen] = <<r>>
          BY <3>1, <3>3 DEF r
      <4>4. i = 1
          BY <2>7, <4>3
      <4>5. rules'[wg'.listen][i] = r
          BY <4>3, <4>4
      <4> QED
          BY <4>2, <4>5
    <3> HIDE DEF p
    <3> QED
        BY <3>2, <3>3, RedirectedOnce
  <2> QED
      BY <2>5, <2>7
<1> QED
    BY <1>1, <1>2 DEF Converged

-----------------------------------------------------------------------------
(* The usage books (UsageBooks).  What is counted since the day a record     *)
(* begins at only grows until another period opens, and a period opens at    *)
(* the last boundary the clock has passed: both rest on the calendar.        *)

\* A sum over part of a function, as Functions takes it, is a sum.
LEMMA SumOnSet == ASSUME NEW f, NEW s PROVE SumFunctionOnSet(f, s) = SumOver(f, s)
<1>1. SumFunctionOnSet(f, s) = (CHOOSE t : SumsParts(t, f, s))[s]
    BY DEF SumFunctionOnSet, FoldFunctionOnSet, MapThenFoldSet, SumsParts, Pick
<1> QED
    BY <1>1, SumOverDef

\* The lengths of the months.
LEMMA MonthsHaveDays ==
    /\ Len(MonthDays) \in Nat /\ Len(MonthDays) >= 2
    /\ \A m \in Months : MonthDays[m] \in Nat /\ MonthDays[m] >= 1
BY BooksAssumption DEF Months

\* The last day of a month is that of the month before it and its length more.
LEMMA LastUnfolds ==
    /\ LastOf[0] = 0
    /\ \A m \in Months : LastOf[m] = LastOf[m - 1] + MonthDays[m]
<1> DEFINE g == [m \in 0 .. Len(MonthDays) |-> SumOver(MonthDays, 1 .. m)]
           h == [m \in 0 .. Len(MonthDays) |-> IF m = 0 THEN 0 ELSE g[m - 1] + MonthDays[m]]
<1>1. g = h
  <2>1. ASSUME NEW m \in 0 .. Len(MonthDays) PROVE g[m] = h[m]
    <3>1. CASE m = 0
      <4>1. 1 .. 0 = {}
          OBVIOUS
      <4> QED
          BY <3>1, <4>1, SumOfNone
    <3>2. CASE m # 0
      <4>1. m \in Months /\ m - 1 \in 0 .. Len(MonthDays) /\ m \in 1 .. m /\ (1 .. m) \ {m} = 1 .. m - 1
          BY <3>2, MonthsHaveDays DEF Months
      <4>2. \A k \in 1 .. m : MonthDays[k] \in Int
          BY MonthsHaveDays DEF Months
      <4>3. IsFiniteSet(1 .. m)
          BY <4>1, FS_Interval, MonthsHaveDays DEF Months
      <4>4. SumOver(MonthDays, 1 .. m) = MonthDays[m] + SumOver(MonthDays, (1 .. m) \ {m})
          BY <4>1, <4>2, <4>3, SumTakes
      <4>5. SumOver(MonthDays, 1 .. m - 1) \in Int
        <5>1. m \in Int /\ m - 1 \in Int
            BY MonthsHaveDays
        <5>2. \A k \in 1 .. m - 1 : k \in 1 .. m
            BY <5>1
        <5>3. IsFiniteSet(1 .. m - 1)
            BY <5>1, FS_Interval
        <5> QED
            BY <4>2, <5>2, <5>3, SumIsInt
      <4>6. MonthDays[m] \in Int
          BY <4>1, <4>2
      <4>7. g[m] = SumOver(MonthDays, 1 .. m) /\ g[m - 1] = SumOver(MonthDays, 1 .. m - 1)
          BY <4>1
      <4>8. h[m] = g[m - 1] + MonthDays[m]
          BY <3>2
      <4>9. SumOver(MonthDays, 1 .. m) = MonthDays[m] + SumOver(MonthDays, 1 .. m - 1)
          BY <4>1, <4>4
      <4> HIDE DEF g, h
      <4> QED
          BY <4>5, <4>6, <4>7, <4>8, <4>9
    <3> QED
        BY <3>1, <3>2
  <2> HIDE DEF g
  <2>2. h = [m \in 0 .. Len(MonthDays) |-> h[m]] /\ \A m \in 0 .. Len(MonthDays) : g[m] = h[m]
      BY <2>1
  <2>3. g = [m \in 0 .. Len(MonthDays) |-> g[m]]
      BY DEF g
  <2> HIDE DEF h
  <2> QED
      BY <2>2, <2>3
<1>2. LastOf = [m \in 0 .. Len(MonthDays) |-> IF m = 0 THEN 0 ELSE LastOf[m - 1] + MonthDays[m]]
  <2> HIDE DEF g
  <2> QED
      BY <1>1 DEF LastOf
<1>3. \A m \in 0 .. Len(MonthDays) : LastOf[m] = IF m = 0 THEN 0 ELSE LastOf[m - 1] + MonthDays[m]
    BY <1>2, Zenon
<1> QED
    BY <1>3, MonthsHaveDays DEF Months

\* The last days rise with the months.
LEMMA LastRises ==
    /\ \A m \in 0 .. Len(MonthDays) : LastOf[m] \in Nat
    /\ \A k, m \in 0 .. Len(MonthDays) : k < m => LastOf[k] < LastOf[m]
    /\ \A k, m \in 0 .. Len(MonthDays) : k <= m => LastOf[k] <= LastOf[m]
<1> DEFINE K == {n \in Nat : n <= Len(MonthDays) =>
                    /\ LastOf[n] \in Nat
                    /\ \A k \in Nat : k < n => LastOf[k] \in Nat /\ LastOf[k] < LastOf[n]}
<1>1. 0 \in K
    BY LastUnfolds
<1>2. ASSUME NEW n \in K PROVE n + 1 \in K
  <2>1. ASSUME n + 1 <= Len(MonthDays)
        PROVE  /\ LastOf[n + 1] \in Nat
               /\ \A k \in Nat : k < n + 1 => LastOf[k] \in Nat /\ LastOf[k] < LastOf[n + 1]
    <3>1. n \in Nat /\ n <= Len(MonthDays) /\ n + 1 \in Months /\ (n + 1) - 1 = n
        BY <2>1, MonthsHaveDays DEF Months
    <3>2. /\ LastOf[n] \in Nat
          /\ \A k \in Nat : k < n => LastOf[k] \in Nat /\ LastOf[k] < LastOf[n]
        BY <3>1
    <3>3. LastOf[n + 1] = LastOf[n] + MonthDays[n + 1]
        BY <3>1, LastUnfolds
    <3>4. MonthDays[n + 1] \in Nat /\ MonthDays[n + 1] >= 1
        BY <3>1, MonthsHaveDays
    <3>5. LastOf[n + 1] \in Nat /\ LastOf[n] < LastOf[n + 1]
        BY <3>2, <3>3, <3>4
    <3>6. ASSUME NEW k \in Nat, k < n + 1 PROVE LastOf[k] \in Nat /\ LastOf[k] < LastOf[n + 1]
      <4>1. k = n \/ k < n
          BY <3>1, <3>6
      <4> QED
          BY <3>2, <3>5, <4>1
    <3> QED
        BY <3>5, <3>6
  <2> QED
      BY <2>1
<1>3. K = Nat
  <2>1. K \in SUBSET Nat
      OBVIOUS
  <2> HIDE DEF K
  <2> QED
      BY <1>1, <1>2, <2>1, NatSetInduction
<1>4. \A n \in 0 .. Len(MonthDays) :
         /\ LastOf[n] \in Nat
         /\ \A k \in Nat : k < n => LastOf[k] \in Nat /\ LastOf[k] < LastOf[n]
    BY <1>3, MonthsHaveDays
<1> HIDE DEF K
<1>5. ASSUME NEW k \in 0 .. Len(MonthDays), NEW m \in 0 .. Len(MonthDays)
      PROVE  (k < m => LastOf[k] < LastOf[m]) /\ (k <= m => LastOf[k] <= LastOf[m])
  <2>1. LastOf[k] \in Nat /\ LastOf[m] \in Nat /\ k \in Nat /\ m \in Nat /\ (k < m => LastOf[k] < LastOf[m])
      BY <1>4, MonthsHaveDays
  <2>2. k <= m => k = m \/ k < m
      BY <2>1
  <2> QED
      BY <2>1, <2>2
<1> QED
    BY <1>4, <1>5

\* The last day of the calendar, and the days before it.
LEMMA DaysAre == LastOf[Len(MonthDays)] \in Nat /\ \A d : d \in Days <=> d \in Nat /\ 1 <= d /\ d <= LastOf[Len(MonthDays)]
<1>1. LastOf[Len(MonthDays)] \in Nat
    BY LastRises, MonthsHaveDays
<1> QED
    BY <1>1 DEF Days

\* Every day is of a month.
LEMMA MonthHolds ==
    ASSUME NEW d \in Days
    PROVE  LET m == MonthOf(d) IN m \in Months /\ LastOf[m - 1] < d /\ d <= LastOf[m]
<1> DEFINE S == {m \in Nat : m <= Len(MonthDays) /\ d <= LastOf[m]}
<1>1. S \in SUBSET Nat /\ S # {}
  <2>1. Len(MonthDays) \in S
      BY DaysAre, MonthsHaveDays
  <2> QED
      BY <2>1
<1>2. PICK m \in S : \A y \in S : m <= y
  <2> HIDE DEF S
  <2> QED
      BY <1>1, LeastExists
<1>3. m \in Nat /\ m <= Len(MonthDays) /\ d <= LastOf[m]
    BY <1>2
<1>4. d \in Nat /\ d >= 1
    BY DaysAre
<1>5. m # 0
    BY <1>3, <1>4, LastUnfolds
<1>6. m \in Months /\ m - 1 \in 0 .. Len(MonthDays)
    BY <1>3, <1>5, MonthsHaveDays DEF Months
<1>7. ~ (d <= LastOf[m - 1])
  <2>1. m - 1 \in Nat /\ m - 1 <= Len(MonthDays) /\ ~ (m <= m - 1)
      BY <1>3, <1>6, MonthsHaveDays
  <2>2. m - 1 \notin S
      BY <1>2, <2>1
  <2> QED
      BY <2>1, <2>2
<1>8. LastOf[m - 1] < d
    BY <1>4, <1>6, <1>7, LastRises
<1> QED
    BY <1>3, <1>6, <1>8 DEF MonthOf

\* A cycle day, in a month.
LEMMA ClampFits ==
    ASSUME NEW b \in Nat \ {0}, NEW m \in Months
    PROVE  Clamp(b, m) \in Nat /\ 1 <= Clamp(b, m) /\ Clamp(b, m) <= MonthDays[m]
BY MonthsHaveDays DEF Clamp

\* The period that a day is in began on a day of the calendar, and none has begun since.
LEMMA PeriodHolds ==
    ASSUME NEW today \in Days, today >= FirstDay, NEW b \in Nat \ {0}
    PROVE  /\ PeriodStart(today, b) \in Days /\ PeriodStart(today, b) <= today
           /\ \A bound \in Boundaries(b) : bound <= today => bound <= PeriodStart(today, b)
<1> DEFINE m == MonthOf(today)
           p == PeriodStart(today, b)
<1>1. m \in Months /\ LastOf[m - 1] < today /\ today <= LastOf[m]
    BY MonthHolds
<1>2. p = IF today - LastOf[m - 1] >= Clamp(b, m)
          THEN LastOf[m - 1] + Clamp(b, m) ELSE LastOf[m - 2] + Clamp(b, m - 1)
    BY DEF PeriodStart
<1> HIDE DEF m, p
<1>3. today \in Nat /\ today <= LastOf[Len(MonthDays)]
    BY DaysAre
<1>4. m - 1 \in Months
  <2>1. FirstDay \in Nat /\ FirstDay > MonthDays[1] /\ 1 \in Months /\ MonthDays[1] \in Nat
      BY BooksAssumption, DaysAre, MonthsHaveDays DEF Months
  <2>2. LastOf[1] = MonthDays[1]
      BY <2>1, LastUnfolds
  <2>3. m # 1
      BY <1>1, <1>3, <2>1, <2>2
  <2> QED
      BY <1>1, <2>3, MonthsHaveDays DEF Months
<1>5. /\ m \in Nat /\ m - 1 \in 0 .. Len(MonthDays) /\ m - 2 \in 0 .. Len(MonthDays)
      /\ m \in 0 .. Len(MonthDays) /\ (m - 1) - 1 = m - 2
    BY <1>1, <1>4, MonthsHaveDays DEF Months
<1>6. LastOf[m] \in Nat /\ LastOf[m - 1] \in Nat /\ LastOf[m - 2] \in Nat
    BY <1>5, LastRises
<1>7. LastOf[m - 1] = LastOf[m - 2] + MonthDays[m - 1]
    BY <1>4, <1>5, LastUnfolds
<1>8. /\ Clamp(b, m) \in Nat /\ 1 <= Clamp(b, m)
      /\ Clamp(b, m - 1) \in Nat /\ 1 <= Clamp(b, m - 1) /\ Clamp(b, m - 1) <= MonthDays[m - 1]
    BY <1>1, <1>4, ClampFits
<1>9. MonthDays[m - 1] \in Nat
    BY <1>4, MonthsHaveDays
<1>10. p \in Nat /\ 1 <= p /\ p <= today /\ p > LastOf[m - 2]
  <2>1. CASE today - LastOf[m - 1] >= Clamp(b, m)
    <3>1. p = LastOf[m - 1] + Clamp(b, m)
        BY <1>2, <2>1
    <3>2. LastOf[m - 2] <= LastOf[m - 1]
        BY <1>6, <1>7, <1>9
    <3> QED
        BY <1>3, <1>6, <1>8, <2>1, <3>1, <3>2
  <2>2. CASE ~ (today - LastOf[m - 1] >= Clamp(b, m))
    <3>1. p = LastOf[m - 2] + Clamp(b, m - 1)
        BY <1>2, <2>2
    <3>2. p <= LastOf[m - 1]
        BY <1>6, <1>7, <1>8, <1>9, <3>1
    <3> QED
        BY <1>1, <1>3, <1>6, <1>8, <3>1, <3>2
  <2> QED
      BY <2>1, <2>2
<1>11. p \in Days
    BY <1>3, <1>10, DaysAre
<1>12. ASSUME NEW bound \in Boundaries(b), bound <= today PROVE bound <= p
  <2>1. PICK k \in Months : bound = LastOf[k - 1] + Clamp(b, k)
      BY <1>12 DEF Boundaries
  <2>2. Clamp(b, k) \in Nat /\ 1 <= Clamp(b, k) /\ Clamp(b, k) <= MonthDays[k] /\ MonthDays[k] \in Nat
      BY ClampFits, MonthsHaveDays
  <2>3. k \in Nat /\ k \in 0 .. Len(MonthDays) /\ k - 1 \in 0 .. Len(MonthDays)
      BY MonthsHaveDays DEF Months
  <2>4. LastOf[k] \in Nat /\ LastOf[k - 1] \in Nat /\ LastOf[k] = LastOf[k - 1] + MonthDays[k]
      BY <2>3, LastRises, LastUnfolds
  <2>5. bound \in Nat /\ LastOf[k - 1] < bound /\ bound <= LastOf[k]
      BY <2>1, <2>2, <2>4
  <2>6. CASE k > m
    <3>1. m <= k - 1
        BY <1>5, <2>3, <2>6
    <3>2. LastOf[m] <= LastOf[k - 1]
        BY <1>5, <2>3, <3>1, LastRises
    <3> QED
        BY <1>1, <1>3, <1>6, <1>12, <2>4, <2>5, <3>2
  <2>7. CASE k = m
    <3>1. today - LastOf[m - 1] >= Clamp(b, m)
        BY <1>3, <1>6, <1>8, <1>12, <2>1, <2>7
    <3> QED
        BY <1>2, <2>1, <2>5, <2>7, <3>1
  <2>8. CASE k = m - 1 /\ p # bound
    <3>1. p = LastOf[m - 1] + Clamp(b, m)
        BY <1>2, <1>5, <2>1, <2>8
    <3> QED
        BY <1>6, <1>8, <1>10, <2>5, <2>8, <3>1
  <2>9. CASE k < m - 1
    <3>1. k <= m - 2
        BY <1>5, <2>3, <2>9
    <3>2. LastOf[k] <= LastOf[m - 2]
        BY <1>5, <2>3, <3>1, LastRises
    <3> QED
        BY <1>6, <1>10, <2>4, <2>5, <3>2
  <2>10. k > m \/ k = m \/ k = m - 1 \/ k < m - 1
      BY <1>5, <2>3
  <2>11. bound \in Nat /\ p \in Nat
      BY <1>10, <2>5
  <2> QED
      BY <2>6, <2>7, <2>8, <2>9, <2>10, <2>11
<1> QED
    BY <1>10, <1>11, <1>12 DEF p

\* All that was counted, and what was counted since a day.
Total == SumOver(counted, Days)
Since(start) == SumOver(counted, start .. day)

Records == [start : Days \cup {NoDate}, prev : Nat, prev_start : Days \cup {NoDate}]
Forward(r) == r.prev_start # NoDate => r.prev_start < r.start

\* n units fit the period that begins on the day start.
FitsPeriod(n, start) == start # NoDate => n <= adopted[start] + Since(start)

BooksTypes ==
    /\ day \in Days /\ FirstDay <= day /\ billing_day \in BillingDays
    /\ counted \in [Days -> Nat] /\ adopted \in [Days -> Nat]
    /\ counter \in 0 .. MaxBytes /\ mark \in {Unset} \cup 0 .. MaxBytes
    /\ flush_age \in {Unset} \cup 0 .. FlushEvery - 1 /\ idle \in Nat
    /\ usage \in Nat /\ rec \in Records
    /\ disk.usage \in Nat \cup {Unset} /\ disk.start \in Days \cup {NoDate}
    /\ disk.prev \in Nat /\ disk.prev_start \in Days \cup {NoDate}

\* What is held in memory and on disk was carried, fits its period, and came after the
\* period before it; a settled leg is at the last boundary; no write is put off.
BooksInv ==
    /\ BooksTypes
    /\ Total + (IF counter > mark /\ mark # Unset THEN counter - mark ELSE 0) <= MaxBytes
    /\ usage <= Total /\ rec.prev <= Total /\ disk.usage <= Total /\ disk.prev <= Total
    /\ rec.start <= day /\ FitsPeriod(usage, rec.start) /\ Forward(rec)
    /\ disk.start <= day /\ FitsPeriod(disk.usage, disk.start) /\ Forward(disk)
    /\ settled => on /\ \A b \in Boundaries(billing_day) : b <= day => b <= rec.start
    /\ idle <= IF flush_age = Unset THEN 0 ELSE flush_age

\* Sums of what was counted are naturals, and no smaller over more days.
LEMMA CountsAre ==
    ASSUME NEW f \in [Days -> Nat]
    PROVE  /\ \A t \in SUBSET Days : IsFiniteSet(t) /\ SumOver(f, t) \in Nat
           /\ \A s, t \in SUBSET Days : s \subseteq t => SumOver(f, s) <= SumOver(f, t)
<1>1. IsFiniteSet(Days)
    BY DaysAre, FS_Interval DEF Days
<1>2. ASSUME NEW t \in SUBSET Days PROVE IsFiniteSet(t) /\ SumOver(f, t) \in Nat
  <2>1. IsFiniteSet(t) /\ \A d \in t : f[d] \in Nat
      BY <1>1, FS_Subset
  <2> QED
      BY <2>1, SumIsNat
<1>3. ASSUME NEW s \in SUBSET Days, NEW t \in SUBSET Days, s \subseteq t
      PROVE  SumOver(f, s) <= SumOver(f, t)
  <2>1. \A d \in t : f[d] \in Int
      OBVIOUS
  <2>2. SumOver(f, t) = SumOver(f, s) + SumOver(f, t \ s)
      BY <1>2, <1>3, <2>1, SumSplits
  <2>3. t \ s \in SUBSET Days
      OBVIOUS
  <2>4. SumOver(f, s) \in Nat /\ SumOver(f, t \ s) \in Nat
      BY <1>2, <2>3
  <2> QED
      BY <2>2, <2>4
<1> QED
    BY <1>2, <1>3

\* A count adds itself to the sum over every span that has its day.
LEMMA CountAdds ==
    ASSUME NEW f \in [Days -> Nat], NEW d \in Days, NEW v \in Nat, NEW t \in SUBSET Days, d \in t
    PROVE  SumOver([f EXCEPT ![d] = @ + v], t) = SumOver(f, t) + v
<1> DEFINE g == [f EXCEPT ![d] = @ + v]
<1>1. g \in [Days -> Nat] /\ g[d] = f[d] + v /\ f[d] \in Nat /\ \A e \in t \ {d} : g[e] = f[e] /\ f[e] \in Int
    OBVIOUS
<1> HIDE DEF g
<1>2. IsFiniteSet(t) /\ t \ {d} \in SUBSET Days /\ IsFiniteSet(t \ {d})
    BY CountsAre
<1>3. SumOver(g, t) = g[d] + SumOver(g, t \ {d})
  <2>1. \A e \in t : g[e] \in Int
      BY <1>1
  <2> QED
      BY <1>2, <2>1, SumTakes
<1>4. SumOver(f, t) = f[d] + SumOver(f, t \ {d})
  <2>1. \A e \in t : f[e] \in Int
      OBVIOUS
  <2> QED
      BY <1>2, <2>1, SumTakes
<1>5. SumOver(g, t \ {d}) = SumOver(f, t \ {d})
    BY <1>1, <1>2, SumSame
<1>6. SumOver(f, t \ {d}) \in Nat
    BY <1>2, CountsAre
<1>7. SumOver(g, t) = SumOver(f, t) + v
    BY <1>1, <1>3, <1>4, <1>5, <1>6
<1> QED
    BY <1>7 DEF g

\* The days from a day of the calendar on.
LEMMA SpansAre ==
    ASSUME NEW s \in Days, NEW d \in Days, s <= d
    PROVE  /\ s .. d \in SUBSET Days /\ d \in s .. d
           /\ s \in Nat /\ d \in Nat /\ s >= 1 /\ s .. d \subseteq s .. (d + 1)
BY DaysAre

\* Carried, the bound of the model, is what was counted and what is to be counted next.
LEMMA CarriedIs ==
    counted \in [Days -> Nat] =>
        Carried = Total + (IF counter > mark /\ mark # Unset THEN counter - mark ELSE 0)
<1>1. counted \in [Days -> Nat] => SumFunction(counted) = Total
    BY SumOnSet DEF SumFunction, Total
<1> QED
    BY <1>1 DEF Carried

\* What x, the usage and the record of a leg, was before a count is added to it.
RollFits(x) ==
    /\ x.usage \in Nat /\ x.usage <= Total
    /\ x.rec \in Records /\ x.rec.prev <= Total /\ x.rec.start <= day /\ Forward(x.rec)
    /\ Adopted(x) \in [Days -> Nat] /\ \A e \in Days : adopted[e] <= Adopted(x)[e]
    /\ x.rec.start # NoDate => x.usage <= Adopted(x)[x.rec.start] + Since(x.rec.start)

\* A record as it is fits.
LEMMA KeptFits ==
    ASSUME BooksTypes, NEW n \in Nat, n <= Total, NEW r \in Records, r.prev <= Total,
           r.start <= day, Forward(r), FitsPeriod(n, r.start), NEW x,
           x.usage = n, x.rec = r, x.adopts = FALSE
    PROVE  RollFits(x)
<1>1. Adopted(x) = adopted
    BY DEF Adopted
<1>2. adopted \in [Days -> Nat] /\ \A e \in Days : adopted[e] <= adopted[e]
    BY DEF BooksTypes
<1> QED
    BY <1>1, <1>2 DEF RollFits, FitsPeriod

\* And so does a record that roll has looked at; by a true clock it is up to date.
LEMMA RolledFits ==
    ASSUME BooksTypes, NEW n \in Nat, n <= Total, NEW r \in Records, r.prev <= Total,
           r.start <= day, Forward(r), FitsPeriod(n, r.start), NEW now \in Clocks
    PROVE  /\ RollFits(Rolled(n, r, now))
           /\ now = day => \A b \in Boundaries(billing_day) : b <= day => b <= Rolled(n, r, now).rec.start
<1> DEFINE x == Rolled(n, r, now)
           start == PeriodStart(now, billing_day)
<1>1. day \in Days /\ FirstDay <= day /\ adopted \in [Days -> Nat] /\ counted \in [Days -> Nat]
      /\ billing_day \in Nat \ {0} /\ FirstDay \in Days
    BY BooksAssumption DEF BooksTypes
<1>2. day \in Nat /\ FirstDay \in Nat /\ day >= 1 /\ FirstDay >= 1
    BY <1>1, DaysAre
<1>3. now = Insane \/ (now \in Days /\ now >= FirstDay /\ now <= day)
    BY <1>1, <1>2 DEF Clocks
<1>4. ASSUME now # Insane
      PROVE  /\ start \in Days /\ start <= day /\ start \in Nat /\ start >= 1
             /\ now = day => \A b \in Boundaries(billing_day) : b <= day => b <= start
  <2>1. /\ start \in Days /\ start <= now
        /\ \A b \in Boundaries(billing_day) : b <= now => b <= start
      BY <1>1, <1>3, <1>4, PeriodHolds
  <2>2. start \in Nat /\ start >= 1 /\ now \in Nat
      BY <1>3, <1>4, <2>1, DaysAre
  <2> QED
      BY <1>2, <1>3, <1>4, <2>1, <2>2
<1>5. /\ r.start \in Days \cup {NoDate} /\ r.prev \in Nat /\ r.prev_start \in Days \cup {NoDate}
      /\ r.start \in Nat /\ r.prev_start \in Nat
    BY DaysAre DEF Records, NoDate
<1>6. x = CASE now = Insane -> [usage |-> n, rec |-> r, adopts |-> FALSE]
            [] now # Insane /\ r.start = NoDate ->
                  [usage |-> n, rec |-> [r EXCEPT !.start = start], adopts |-> TRUE]
            [] now # Insane /\ r.start # NoDate /\ Rolls(start, r.start) ->
                  [usage |-> 0, rec |-> [start |-> start, prev |-> n, prev_start |-> r.start],
                   adopts |-> FALSE]
            [] OTHER -> [usage |-> n, rec |-> r, adopts |-> FALSE]
    BY DEF Rolled
<1> HIDE DEF x, start
<1>7. CASE now = Insane
  <2>1. x.usage = n /\ x.rec = r /\ x.adopts = FALSE
      BY <1>6, <1>7
  <2>2. now # day
      BY <1>2, <1>7 DEF Insane
  <2> QED
      BY <2>1, <2>2, KeptFits DEF x
<1>8. CASE now # Insane /\ r.start = NoDate
  <2>1. x.usage = n /\ x.rec = [r EXCEPT !.start = start] /\ x.adopts = TRUE
      BY <1>6, <1>8
  <2>2. /\ x.rec.start = start /\ x.rec.prev = r.prev /\ x.rec.prev_start = r.prev_start
        /\ x.rec \in Records
      BY <1>4, <1>8, <2>1 DEF Records
  <2>3. Forward(x.rec)
      BY <1>5, <1>8, <2>2 DEF Forward, NoDate
  <2>4. /\ Adopted(x) \in [Days -> Nat] /\ \A e \in Days : adopted[e] <= Adopted(x)[e]
        /\ n <= Adopted(x)[start]
    <3>1. Adopted(x) = IF n > adopted[start] THEN [adopted EXCEPT ![start] = n] ELSE adopted
        BY <2>1, <2>2 DEF Adopted
    <3>2. start \in Days /\ adopted[start] \in Nat
        BY <1>1, <1>4, <1>8
    <3>3. CASE n > adopted[start]
      <4>1. Adopted(x) = [adopted EXCEPT ![start] = n]
          BY <3>1, <3>3
      <4>2. ASSUME NEW e \in Days PROVE adopted[e] <= [adopted EXCEPT ![start] = n][e]
          BY <1>1, <3>2, <3>3
      <4>3. [adopted EXCEPT ![start] = n] \in [Days -> Nat] /\ [adopted EXCEPT ![start] = n][start] = n
          BY <1>1, <3>2
      <4> QED
          BY <4>1, <4>2, <4>3
    <3>4. CASE ~ (n > adopted[start])
        BY <1>1, <3>1, <3>2, <3>4
    <3> QED
        BY <3>3, <3>4
  <2>5. Since(start) \in Nat
      BY <1>1, <1>4, <1>8, CountsAre, SpansAre DEF Since
  <2>6. n <= Adopted(x)[start] + Since(start)
    <3>1. Adopted(x)[start] \in Nat
        BY <1>4, <1>8, <2>4
    <3> QED
        BY <2>4, <2>5, <3>1
  <2>7. RollFits(x)
      BY <1>4, <1>8, <2>1, <2>2, <2>3, <2>4, <2>6 DEF RollFits
  <2> QED
      BY <1>4, <1>8, <2>2, <2>7 DEF x
<1>9. CASE now # Insane /\ r.start # NoDate /\ Rolls(start, r.start)
  <2>1. /\ x.usage = 0 /\ x.rec = [start |-> start, prev |-> n, prev_start |-> r.start]
        /\ x.adopts = FALSE
      BY <1>6, <1>9
  <2>2. x.rec.start = start /\ x.rec.prev = n /\ x.rec.prev_start = r.start /\ x.rec \in Records
      BY <1>4, <1>5, <1>9, <2>1 DEF Records
  <2>3. r.start < start
      BY <1>4, <1>5, <1>9 DEF Rolls
  <2>4. Adopted(x) = adopted /\ \A e \in Days : adopted[e] <= adopted[e]
      BY <1>1, <2>1 DEF Adopted
  <2>5. Since(start) \in Nat /\ adopted[start] \in Nat
      BY <1>1, <1>4, <1>9, CountsAre, SpansAre DEF Since
  <2>6. 0 <= adopted[start] + Since(start) /\ 0 <= Total
    <3>1. Total \in Nat
        BY <1>1, CountsAre DEF Total
    <3> QED
        BY <2>5, <3>1
  <2>7. RollFits(x)
      BY <1>1, <1>4, <1>9, <2>1, <2>2, <2>3, <2>4, <2>6 DEF RollFits, Forward
  <2> QED
      BY <1>4, <1>9, <2>2, <2>7 DEF x
<1>10. CASE now # Insane /\ r.start # NoDate /\ ~ Rolls(start, r.start)
  <2>1. x.usage = n /\ x.rec = r /\ x.adopts = FALSE
      BY <1>6, <1>10
  <2>2. start <= r.start
      BY <1>4, <1>5, <1>10 DEF Rolls
  <2>3. ASSUME now = day, NEW b \in Boundaries(billing_day), b <= day PROVE b <= r.start
    <3>1. b <= start
        BY <1>4, <1>10, <2>3
    <3>2. b \in Int
      <4>1. PICK m \in Months : b = LastOf[m - 1] + Clamp(billing_day, m)
          BY <2>3 DEF Boundaries
      <4>2. m - 1 \in 0 .. Len(MonthDays)
          BY MonthsHaveDays DEF Months
      <4>3. LastOf[m - 1] \in Nat /\ Clamp(billing_day, m) \in Nat
          BY <1>1, <4>2, LastRises, ClampFits
      <4> QED
          BY <4>1, <4>3
    <3> QED
        BY <1>4, <1>5, <1>10, <2>2, <3>1, <3>2
  <2>4. RollFits(x)
      BY <2>1, KeptFits
  <2> QED
      BY <2>1, <2>3, <2>4 DEF x
<1> QED
    BY <1>7, <1>8, <1>9, <1>10

\* Units that fit still do when the sums and what was adopted only grow.
LEMMA StillFits ==
    ASSUME BooksTypes, BooksTypes', adopted' = adopted, NEW s \in Days \cup {NoDate}, NEW n \in Nat \cup {Unset},
           s <= day, FitsPeriod(n, s), s # NoDate => Since(s) <= Since(s)'
    PROVE  FitsPeriod(n, s)'
<1>1. CASE s = NoDate
    BY <1>1 DEF FitsPeriod
<1>2. CASE s # NoDate
  <2>1. s \in Days /\ day \in Days /\ day' \in Days /\ s <= day /\ adopted[s] \in Nat
      BY <1>2 DEF BooksTypes
  <2>2. Since(s) \in Nat
      BY <2>1, CountsAre, SpansAre DEF Since, BooksTypes
  <2>3. Since(s)' \in Nat
    <3>1. s .. day' \in SUBSET Days
        BY <2>1, DaysAre
    <3> QED
        BY <3>1, CountsAre DEF Since, BooksTypes
  <2>4. n <= adopted[s] + Since(s) /\ n \in Int
      BY <1>2 DEF FitsPeriod, Unset
  <2>5. n <= adopted[s] + Since(s)'
      BY <1>2, <2>1, <2>2, <2>3, <2>4
  <2> QED
      BY <2>5 DEF FitsPeriod
<1> QED
    BY <1>1, <1>2

\* The books are kept at first.
LEMMA BooksInitInv == BooksInit => BooksInv
<1> SUFFICES ASSUME BooksInit PROVE BooksInv
    OBVIOUS
<1>1. /\ counted = [d \in Days |-> 0] /\ adopted = [d \in Days |-> 0] /\ day = FirstDay
      /\ usage = 0 /\ rec = NoRecord /\ disk = NoFile /\ counter = 0 /\ mark = Unset
      /\ flush_age = Unset /\ idle = 0 /\ settled = FALSE /\ billing_day \in BillingDays
    BY DEF BooksInit
<1>2. BooksTypes
    BY <1>1, BooksAssumption, DaysAre DEF BooksTypes, Records, NoRecord, NoFile, NoDate, Unset
<1>3. Total \in Nat
    BY <1>2, CountsAre DEF Total, BooksTypes
<1>4. Total = 0
  <2>1. Total = SumOver([d \in Days |-> 0], Days)
      BY <1>1 DEF Total
  <2>2. IsFiniteSet(Days) /\ \A d \in Days : [e \in Days |-> 0][d] = 0
      BY DaysAre, FS_Interval DEF Days
  <2> DEFINE f == [d \in Days |-> 0]
  <2>3. \A d \in Days : f[d] \in Int /\ f[d] \in Int /\ f[d] = f[d] + f[d]
      OBVIOUS
  <2>4. SumOver(f, Days) = SumOver(f, Days) + SumOver(f, Days)
    <3> HIDE DEF f
    <3> QED
        BY <2>2, <2>3, SumAdds
  <2>5. Total = Total + Total
      BY <2>1, <2>4
  <2> QED
      BY <1>3, <2>5
<1>5. day \in Nat /\ MaxBytes \in Nat
    BY <1>2, DaysAre, BooksAssumption DEF BooksTypes
<1> QED
    BY <1>1, <1>2, <1>4, <1>5 DEF BooksInv, FitsPeriod, Forward, NoRecord, NoFile, NoDate, Unset

\* The agent starts: what the file does not tell starts from zero.
LEMMA StartKeeps ==
    ASSUME BooksInv, NEW now \in Clocks, Start(now)
    PROVE  BooksInv'
<1> DEFINE r == [start |-> disk.start, prev |-> disk.prev, prev_start |-> disk.prev_start]
           x == Rolled(disk.usage, r, now)
<1>1. /\ BooksTypes
      /\ UNCHANGED <<day, billing_day, member, counter, mark, flush_age, disk, counted, settled, idle>>
      /\ on = FALSE
      /\ usage' = IF disk.usage # Unset /\ member THEN x.usage ELSE 0
      /\ rec' = IF disk.usage # Unset THEN x.rec ELSE r
      /\ adopted' = IF disk.usage # Unset /\ member THEN Adopted(x) ELSE adopted
    BY DEF Start, BooksInv
<1>2. r \in Records /\ r.start = disk.start /\ r.prev = disk.prev /\ r.prev_start = disk.prev_start
    BY <1>1 DEF BooksTypes, Records
<1>3. r.prev <= Total /\ r.start <= day /\ Forward(r) /\ FitsPeriod(disk.usage, r.start)
    BY <1>2 DEF BooksInv, Forward
<1> HIDE DEF r, x
<1>4. disk.usage # Unset => RollFits(x)
    BY <1>1, <1>2, <1>3, RolledFits DEF x, BooksInv, BooksTypes
<1>5. Total' = Total /\ Total \in Nat /\ \A s : Since(s)' = Since(s)
    BY <1>1, CountsAre DEF Total, Since, BooksTypes
<1>6. adopted' \in [Days -> Nat] /\ \A e \in Days : adopted[e] <= adopted'[e]
    BY <1>1, <1>4 DEF RollFits, BooksTypes
<1>7. usage' \in Nat /\ usage' <= Total
    BY <1>1, <1>4, <1>5 DEF RollFits
<1>8. rec' \in Records /\ rec'.prev <= Total /\ rec'.start <= day /\ Forward(rec')
  <2>1. CASE disk.usage # Unset
      BY <1>1, <1>4, <2>1 DEF RollFits
  <2>2. CASE disk.usage = Unset
      BY <1>1, <1>2, <1>3, <2>2
  <2> QED
      BY <2>1, <2>2
<1>9. ASSUME NEW s \in Days, s <= day PROVE adopted[s] \in Nat /\ adopted'[s] \in Nat /\ adopted[s] <= adopted'[s] /\ Since(s) \in Nat
    BY <1>1, <1>6, <1>9, CountsAre, SpansAre DEF Since, BooksTypes
<1>10. rec'.start # NoDate => usage' <= adopted'[rec'.start] + Since(rec'.start)
  <2> SUFFICES ASSUME rec'.start # NoDate PROVE usage' <= adopted'[rec'.start] + Since(rec'.start)
      OBVIOUS
  <2>1. rec'.start \in Days
      BY <1>8 DEF Records
  <2>2. CASE disk.usage # Unset /\ member
      BY <1>1, <1>4, <2>2 DEF RollFits
  <2>3. CASE ~ (disk.usage # Unset /\ member)
      BY <1>1, <1>8, <1>9, <2>1, <2>3
  <2> QED
      BY <2>2, <2>3
<1>11. disk.start # NoDate => disk.usage <= adopted'[disk.start] + Since(disk.start)
  <2> SUFFICES ASSUME disk.start # NoDate PROVE disk.usage <= adopted'[disk.start] + Since(disk.start)
      OBVIOUS
  <2>1. disk.start \in Days /\ disk.start <= day /\ disk.usage \in Int
      BY <1>1 DEF BooksTypes, BooksInv, Unset
  <2>2. disk.usage <= adopted[disk.start] + Since(disk.start)
      BY DEF BooksInv, FitsPeriod
  <2> QED
      BY <1>9, <2>1, <2>2
<1>12. FitsPeriod(usage, rec.start)' /\ FitsPeriod(disk.usage, disk.start)'
  <2>1. Since(rec.start)' = Since(rec'.start) /\ Since(disk.start)' = Since(disk.start)
      BY <1>1 DEF Since
  <2> QED
      BY <1>1, <1>10, <1>11, <2>1 DEF FitsPeriod
<1>13. BooksTypes'
    BY <1>1, <1>6, <1>7, <1>8 DEF BooksTypes
<1>14. ~ settled /\ Forward(rec)' /\ Forward(disk)'
    BY <1>1, <1>8 DEF BooksInv, Forward
<1> QED
    BY <1>1, <1>5, <1>7, <1>8, <1>12, <1>13, <1>14 DEF BooksInv

\* A pass of the agent rolls, counts and writes.
LEMMA UsagePassKeeps ==
    ASSUME BooksInv, NEW now \in Clocks, NEW rolls \in BOOLEAN, NEW reads \in BOOLEAN,
           NEW ok \in BOOLEAN, UsagePass(now, rolls, reads, ok)
    PROVE  BooksInv'
<1> DEFINE x == IF rolls /\ member THEN Rolled(usage, rec, now)
                ELSE [usage |-> usage, rec |-> rec, adopts |-> FALSE]
           v == IF reads /\ member THEN Delta ELSE 0
<1>1. /\ BooksTypes
      /\ UNCHANGED <<day, billing_day, on, member, counter>> /\ on
      /\ usage' = IF reads /\ member THEN x.usage + Delta ELSE x.usage
      /\ rec' = x.rec /\ adopted' = Adopted(x)
      /\ disk' = IF Due /\ ok THEN Written(IF reads /\ member THEN x.usage + Delta ELSE x.usage, x.rec) ELSE disk
      /\ mark' = IF reads /\ member THEN counter ELSE mark
      /\ counted' = IF reads /\ member /\ mark # Unset /\ counter > mark
                    THEN [counted EXCEPT ![day] = @ + counter - mark] ELSE counted
      /\ flush_age' = IF Due THEN FlushAge(ok) ELSE Waited
      /\ idle' = CASE ~Due -> idle + 1 [] Due /\ ok -> 0 [] OTHER -> idle
      /\ settled' = (rolls /\ now = day /\ member)
    BY DEF UsagePass, BooksInv
<1>2. /\ RollFits(x)
      /\ rolls /\ member /\ now = day =>
            \A b \in Boundaries(billing_day) : b <= day => b <= x.rec.start
  <2>1. /\ usage \in Nat /\ usage <= Total /\ rec \in Records /\ rec.prev <= Total
        /\ rec.start <= day /\ Forward(rec) /\ FitsPeriod(usage, rec.start)
      BY DEF BooksInv, BooksTypes
  <2>2. CASE rolls /\ member
      BY <1>1, <2>1, <2>2, RolledFits
  <2>3. CASE ~ (rolls /\ member)
    <3>1. x.usage = usage /\ x.rec = rec /\ x.adopts = FALSE
        BY <2>3
    <3>2. RollFits(x)
      <4> HIDE DEF x
      <4> QED
          BY <1>1, <2>1, <3>1, KeptFits
    <3> QED
        BY <2>3, <3>2
  <2> QED
      BY <2>2, <2>3
<1> HIDE DEF x
<1>3. /\ day \in Days /\ counter \in Nat /\ mark \in {Unset} \cup Nat /\ counted \in [Days -> Nat]
      /\ counter <= MaxBytes /\ MaxBytes \in Nat
    BY <1>1, BooksAssumption DEF BooksTypes
<1>4. v \in Nat /\ v = IF reads /\ member /\ mark # Unset /\ counter > mark THEN counter - mark ELSE 0
    BY <1>3 DEF Delta, Unset
<1>5. usage' = x.usage + v
  <2>1. x.usage \in Nat
      BY <1>2 DEF RollFits
  <2> QED
      BY <1>1, <2>1
<1> HIDE DEF v
<1>6. counted' = [counted EXCEPT ![day] = @ + v]
  <2>1. CASE reads /\ member /\ mark # Unset /\ counter > mark
    <3>1. mark \in Nat /\ counted[day] \in Nat
        BY <1>3, <2>1
    <3>2. counted[day] + counter - mark = counted[day] + v
        BY <1>3, <1>4, <2>1, <3>1
    <3> QED
        BY <1>1, <2>1, <3>2
  <2>2. CASE ~ (reads /\ member /\ mark # Unset /\ counter > mark)
    <3>1. v = 0 /\ counted' = counted
        BY <1>1, <1>4, <2>2
    <3>2. counted[day] \in Nat /\ counted[day] + 0 = counted[day]
        BY <1>3
    <3> QED
        BY <1>3, <3>1, <3>2
  <2> QED
      BY <2>1, <2>2
<1>7. Total \in Nat /\ Total' = Total + v
  <2>1. Days \in SUBSET Days
      OBVIOUS
  <2>2. SumOver(counted, Days) \in Nat
      BY <1>3, <2>1, CountsAre
  <2>3. SumOver([counted EXCEPT ![day] = @ + v], Days) = SumOver(counted, Days) + v
      BY <1>3, <1>4, <2>1, CountAdds
  <2> QED
      BY <1>6, <2>2, <2>3 DEF Total
<1>8. ASSUME NEW s \in Days, s <= day PROVE Since(s) \in Nat /\ Since(s)' = Since(s) + v
  <2>1. s .. day \in SUBSET Days /\ day \in s .. day
      BY <1>3, <1>8, SpansAre
  <2>2. Since(s)' = SumOver(counted', s .. day)
      BY <1>1 DEF Since
  <2> QED
      BY <1>3, <1>4, <1>6, <2>1, <2>2, CountsAre, CountAdds DEF Since
<1>9. /\ adopted' \in [Days -> Nat] /\ \A e \in Days : adopted[e] <= adopted'[e]
      /\ rec' \in Records /\ rec'.prev <= Total /\ rec'.start <= day /\ Forward(rec')
    BY <1>1, <1>2 DEF RollFits
<1>10. usage' \in Nat /\ usage' <= Total'
    BY <1>2, <1>4, <1>5, <1>7 DEF RollFits
<1>11. rec'.start # NoDate => usage' <= adopted'[rec'.start] + Since(rec.start)'
  <2> SUFFICES ASSUME rec'.start # NoDate PROVE usage' <= adopted'[rec'.start] + Since(rec.start)'
      OBVIOUS
  <2>1. rec'.start \in Days /\ rec'.start <= day
      BY <1>9 DEF Records
  <2>2. x.usage \in Nat /\ x.usage <= adopted'[rec'.start] + Since(rec'.start)
      BY <1>1, <1>2 DEF RollFits
  <2>3. Since(rec'.start) \in Nat /\ adopted'[rec'.start] \in Nat
      BY <1>8, <1>9, <2>1
  <2>4. Since(rec.start)' = Since(rec'.start) + v
    <3>1. Since(rec.start)' = SumOver(counted', rec'.start .. day)
        BY <1>1 DEF Since
    <3>2. \A s \in Days : s <= day => SumOver(counted', s .. day) = Since(s) + v
        BY <1>1, <1>8 DEF Since
    <3> QED
        BY <2>1, <3>1, <3>2
  <2> QED
      BY <1>4, <1>5, <2>2, <2>3, <2>4
<1>12. /\ disk'.usage \in Nat \cup {Unset} /\ disk'.start \in Days \cup {NoDate}
       /\ disk'.prev \in Nat /\ disk'.prev_start \in Days \cup {NoDate}
       /\ disk'.usage <= Total' /\ disk'.prev <= Total' /\ disk'.start <= day /\ Forward(disk')
       /\ FitsPeriod(disk.usage, disk.start)'
  <2>1. CASE Due /\ ok /\ member
    <3>1. disk' = [usage |-> usage', start |-> rec'.start, prev |-> rec'.prev, prev_start |-> rec'.prev_start]
        BY <1>1, <2>1 DEF Written
    <3>2. /\ disk'.usage = usage' /\ disk'.start = rec'.start /\ disk'.prev = rec'.prev
          /\ disk'.prev_start = rec'.prev_start
        BY <3>1
    <3>3. FitsPeriod(disk.usage, disk.start)'
      <4>1. Since(rec.start)' = Since(disk.start)'
          BY <3>2 DEF Since
      <4> QED
          BY <1>11, <3>2, <4>1 DEF FitsPeriod
    <3>4. rec'.prev <= Total'
        BY <1>4, <1>7, <1>9 DEF Records
    <3> QED
        BY <1>9, <1>10, <3>2, <3>3, <3>4 DEF Records, Forward
  <2>2. CASE Due /\ ok /\ ~ member
    <3>1. /\ disk'.usage = Unset /\ disk'.start = NoDate /\ disk'.prev = 0
          /\ disk'.prev_start = NoDate
        BY <1>1, <2>2 DEF Written, NoFile
    <3>2. day \in Nat
        BY <1>3, DaysAre
    <3> QED
        BY <1>4, <1>7, <3>1, <3>2 DEF Forward, FitsPeriod, NoDate, Unset
  <2>3. CASE ~ (Due /\ ok)
    <3>1. disk' = disk
        BY <1>1, <2>3
    <3>2. /\ disk.usage \in Nat \cup {Unset} /\ disk.start \in Days \cup {NoDate}
          /\ disk.prev \in Nat /\ disk.prev_start \in Days \cup {NoDate}
          /\ disk.usage <= Total /\ disk.prev <= Total /\ disk.start <= day /\ Forward(disk)
          /\ FitsPeriod(disk.usage, disk.start)
        BY DEF BooksInv, BooksTypes
    <3>3. disk.usage <= Total' /\ disk.prev <= Total'
        BY <1>4, <1>7, <3>2 DEF Unset
    <3>4. FitsPeriod(disk.usage, disk.start)'
      <4> SUFFICES ASSUME disk.start # NoDate PROVE disk.usage <= adopted'[disk.start] + Since(disk.start)'
          BY <3>1 DEF FitsPeriod
      <4>1. disk.start \in Days
          BY <3>2
      <4>2. Since(disk.start)' = SumOver(counted', disk.start .. day)
          BY <1>1, <3>1 DEF Since
      <4>3. \A s \in Days : s <= day => SumOver(counted', s .. day) = Since(s) + v
          BY <1>1, <1>8 DEF Since
      <4>4. disk.usage <= adopted[disk.start] + Since(disk.start) /\ disk.usage \in Int
          BY <3>2 DEF FitsPeriod, Unset
      <4>5. adopted[disk.start] \in Nat /\ adopted'[disk.start] \in Nat /\ adopted[disk.start] <= adopted'[disk.start]
          BY <1>1, <1>9, <4>1 DEF BooksTypes
      <4>6. Since(disk.start) \in Nat /\ Since(disk.start)' = Since(disk.start) + v
          BY <1>8, <3>2, <4>1, <4>2, <4>3
      <4> QED
          BY <1>4, <4>4, <4>5, <4>6
    <3> QED
        BY <3>1, <3>2, <3>3, <3>4
  <2> QED
      BY <2>1, <2>2, <2>3
<1>13. mark' \in {Unset} \cup 0 .. MaxBytes
    BY <1>1, <1>3 DEF BooksTypes
<1>14. Total' + (IF counter' > mark' /\ mark' # Unset THEN counter' - mark' ELSE 0) <= MaxBytes
  <2>1. Total + (IF counter > mark /\ mark # Unset THEN counter - mark ELSE 0) <= MaxBytes
      BY DEF BooksInv
  <2>2. CASE reads /\ member
    <3>1. mark' = counter /\ counter' = counter
        BY <1>1, <2>2
    <3> QED
        BY <1>3, <1>4, <1>7, <2>1, <2>2, <3>1
  <2>3. CASE ~ (reads /\ member)
    <3>1. mark' = mark /\ counter' = counter /\ v = 0
        BY <1>1, <1>4, <2>3
    <3> QED
        BY <1>7, <2>1, <3>1
  <2> QED
      BY <2>2, <2>3
<1>15. /\ flush_age' \in {Unset} \cup 0 .. FlushEvery - 1 /\ idle' \in Nat
       /\ idle' <= IF flush_age' = Unset THEN 0 ELSE flush_age'
  <2>1. /\ FlushEvery \in Nat \ {0} /\ idle \in Nat /\ flush_age \in {Unset} \cup 0 .. FlushEvery - 1
        /\ idle <= IF flush_age = Unset THEN 0 ELSE flush_age
      BY BooksAssumption DEF BooksInv, BooksTypes
  <2>2. CASE flush_age = Unset
    <3>1. Waited = Unset /\ Due /\ idle = 0
        BY <2>1, <2>2 DEF Waited, Due
    <3> QED
        BY <1>1, <2>1, <3>1 DEF FlushAge, Unset
  <2>3. CASE flush_age # Unset
    <3>1. Waited = flush_age + 1 /\ flush_age \in 0 .. FlushEvery - 1 /\ idle <= flush_age
        BY <2>1, <2>3 DEF Waited
    <3>2. Waited # Unset
        BY <3>1 DEF Unset
    <3>3. CASE Due
      <4>1. Waited = FlushEvery /\ flush_age = FlushEvery - 1
          BY <2>1, <3>1, <3>2, <3>3 DEF Due
      <4>2. CASE ok
          BY <1>1, <2>1, <3>3, <4>2 DEF FlushAge, Unset
      <4>3. CASE ~ ok
          BY <1>1, <2>1, <3>1, <3>2, <3>3, <4>1, <4>3 DEF FlushAge, Unset
      <4> QED
          BY <4>2, <4>3
    <3>4. CASE ~ Due
      <4>1. flush_age' = flush_age + 1 /\ idle' = idle + 1 /\ flush_age + 1 # FlushEvery
          BY <1>1, <3>1, <3>4 DEF Due
      <4> QED
          BY <2>1, <3>1, <4>1 DEF Unset
    <3> QED
        BY <3>3, <3>4
  <2> QED
      BY <2>2, <2>3
<1>16. counted' \in [Days -> Nat]
    BY <1>3, <1>4, <1>6
<1>17. BooksTypes'
    BY <1>1, <1>9, <1>10, <1>12, <1>13, <1>15, <1>16 DEF BooksTypes
<1>18. rec'.prev <= Total'
    BY <1>4, <1>7, <1>9 DEF Records
<1>19. FitsPeriod(usage, rec.start)' /\ Forward(rec)' /\ Forward(disk)'
    BY <1>9, <1>11, <1>12 DEF FitsPeriod, Forward
<1>20. settled' => on' /\ \A b \in Boundaries(billing_day') : b <= day' => b <= rec'.start
    BY <1>1, <1>2
<1>21. rec'.start <= day' /\ disk'.start <= day'
    BY <1>1, <1>9, <1>12
<1> QED
    BY <1>10, <1>12, <1>14, <1>15, <1>17, <1>18, <1>19, <1>20, <1>21 DEF BooksInv

\* The process ends: the books in memory are empty.
LEMMA OffKeeps ==
    ASSUME BooksInv, ClockOff, disk' = disk \/ disk' = Written(usage, rec)
    PROVE  BooksInv'
<1>1. /\ usage' = 0 /\ rec' = NoRecord /\ counter' = 0 /\ mark' = Unset /\ flush_age' = Unset
      /\ settled' = FALSE /\ idle' = 0 /\ UNCHANGED <<day, billing_day, member, counted, adopted>>
      /\ BooksTypes
    BY DEF ClockOff, BooksInv
<1>2. Total' = Total /\ Total \in Nat /\ \A s : Since(s)' = SumOver(counted, s .. day)
    BY <1>1, CountsAre DEF Total, Since, BooksTypes
<1>3. MaxBytes \in Nat /\ day \in Nat /\ Total <= MaxBytes
  <2>1. MaxBytes \in Nat /\ day \in Nat
      BY <1>1, BooksAssumption, DaysAre DEF BooksTypes
  <2>2. counter \in Nat /\ (mark # Unset => mark \in Nat)
      BY <1>1, <2>1 DEF BooksTypes
  <2> QED
      BY <1>2, <2>1, <2>2 DEF BooksInv
<1>4. /\ disk'.usage \in Nat \cup {Unset} /\ disk'.start \in Days \cup {NoDate}
      /\ disk'.prev \in Nat /\ disk'.prev_start \in Days \cup {NoDate}
      /\ disk'.usage <= Total /\ disk'.prev <= Total /\ disk'.start <= day /\ Forward(disk')
      /\ FitsPeriod(disk'.usage, disk'.start)
  <2>1. CASE disk' = disk
      BY <2>1 DEF BooksInv, BooksTypes
  <2>2. CASE disk' = Written(usage, rec) /\ member
    <3>1. /\ disk'.usage = usage /\ disk'.start = rec.start /\ disk'.prev = rec.prev
          /\ disk'.prev_start = rec.prev_start
        BY <2>2 DEF Written
    <3> QED
        BY <1>1, <3>1 DEF BooksInv, BooksTypes, Records, Forward
  <2>3. CASE disk' = Written(usage, rec) /\ ~ member
    <3>1. disk'.usage = Unset /\ disk'.start = NoDate /\ disk'.prev = 0 /\ disk'.prev_start = NoDate
        BY <2>3 DEF Written, NoFile
    <3> QED
        BY <1>2, <1>3, <3>1 DEF Forward, FitsPeriod, NoDate, Unset
  <2> QED
      BY <2>1, <2>2, <2>3
<1>5. FitsPeriod(disk.usage, disk.start)'
    BY <1>1, <1>2, <1>4 DEF FitsPeriod, Since
<1>6. /\ rec'.start = NoDate /\ rec'.prev = 0 /\ rec'.prev_start = NoDate /\ rec' \in Records
    BY <1>1 DEF NoRecord, Records, NoDate
<1>7. BooksTypes'
    BY <1>1, <1>3, <1>4, <1>6 DEF BooksTypes, Unset
<1>8. FitsPeriod(usage, rec.start)' /\ Forward(rec)' /\ Forward(disk)'
    BY <1>4, <1>6 DEF FitsPeriod, Forward
<1> QED
    BY <1>1, <1>2, <1>3, <1>4, <1>5, <1>6, <1>7, <1>8 DEF BooksInv, NoDate, Unset

\* A step that leaves the file, the day, the record and what was counted alone.
LEMMA AsideKeeps ==
    ASSUME BooksInv, UNCHANGED <<day, rec, disk, counted, adopted, mark, flush_age, idle>>,
           billing_day' \in BillingDays, usage' \in {usage, 0}, counter' \in 0 .. MaxBytes,
           settled' = FALSE \/ UNCHANGED <<billing_day, on, settled>>,
           Total + (IF counter' > mark /\ mark # Unset THEN counter' - mark ELSE 0) <= MaxBytes
    PROVE  BooksInv'
<1>1. BooksTypes /\ usage' \in Nat /\ usage' <= usage /\ usage <= Total
    BY DEF BooksInv, BooksTypes
<1>2. Total' = Total /\ Total \in Nat /\ Since(rec.start)' = Since(rec.start) /\ Since(disk.start)' = Since(disk.start)
    BY <1>1, CountsAre DEF Total, Since, BooksTypes
<1>3. FitsPeriod(usage, rec.start)'
  <2> SUFFICES ASSUME rec.start # NoDate PROVE usage' <= adopted[rec.start] + Since(rec.start)
      BY <1>2 DEF FitsPeriod
  <2>1. rec.start \in Days /\ rec.start <= day /\ day \in Days
      BY DEF BooksInv, BooksTypes, Records
  <2>2. Since(rec.start) \in Nat /\ adopted[rec.start] \in Nat
      BY <1>1, <2>1, CountsAre, SpansAre DEF Since, BooksTypes
  <2>3. usage <= adopted[rec.start] + Since(rec.start) /\ usage \in Nat
      BY DEF BooksInv, BooksTypes, FitsPeriod
  <2> QED
      BY <1>1, <2>2, <2>3
<1>4. FitsPeriod(disk.usage, disk.start)' /\ Forward(rec)' /\ Forward(disk)'
    BY <1>2 DEF BooksInv, FitsPeriod, Forward
<1>5. BooksTypes'
    BY <1>1 DEF BooksTypes
<1>6. usage' <= Total
    BY <1>1, <1>2 DEF BooksTypes
<1> QED
    BY <1>2, <1>3, <1>4, <1>5, <1>6 DEF BooksInv

\* A day passes.
LEMMA NextDayKeeps == ASSUME BooksInv, NextDay PROVE BooksInv'
<1>1. /\ BooksTypes /\ day' = day + 1 /\ day' \in Days /\ settled' = FALSE
      /\ UNCHANGED <<billing_day, on, member, memoryVars, disk, counted, adopted, idle>>
    BY DEF NextDay, BooksInv
<1>2. Total' = Total /\ UNCHANGED <<usage, rec, counter, mark, flush_age>>
    BY <1>1 DEF Total, memoryVars
<1>3. BooksTypes'
  <2>1. day \in Nat /\ FirstDay \in Nat /\ FirstDay <= day
      BY <1>1, BooksAssumption, DaysAre DEF BooksTypes
  <2> QED
      BY <1>1, <1>2, <2>1 DEF BooksTypes
<1>4. ASSUME NEW s \in Days, s <= day PROVE Since(s) <= SumOver(counted, s .. (day + 1))
  <2>1. day \in Days /\ day + 1 \in Days /\ day \in Nat /\ s \in Nat /\ s <= day + 1
      BY <1>1, <1>4, DaysAre DEF BooksTypes
  <2>2. s .. day \in SUBSET Days /\ s .. day \subseteq s .. (day + 1) /\ s .. (day + 1) \in SUBSET Days
      BY <1>4, <2>1, SpansAre
  <2> QED
      BY <1>1, <2>2, CountsAre DEF Since, BooksTypes
<1>5. rec.start \in Days \cup {NoDate} /\ rec.start <= day /\ disk.start \in Days \cup {NoDate} /\ disk.start <= day
    BY DEF BooksInv, BooksTypes, Records
<1>6. FitsPeriod(usage, rec.start)'
  <2>1. rec.start # NoDate => Since(rec.start) <= Since(rec.start)'
      BY <1>1, <1>2, <1>4, <1>5 DEF Since
  <2> QED
      BY <1>1, <1>2, <1>3, <1>5, <2>1, StillFits DEF BooksInv, BooksTypes, FitsPeriod
<1>7. FitsPeriod(disk.usage, disk.start)'
  <2>1. disk.start # NoDate => Since(disk.start) <= Since(disk.start)'
      BY <1>1, <1>4, <1>5 DEF Since
  <2> QED
      BY <1>1, <1>3, <1>5, <2>1, StillFits DEF BooksInv, BooksTypes, FitsPeriod
<1>8. rec.start <= day' /\ disk.start <= day'
  <2>1. Days \cup {NoDate} \subseteq Nat
      BY DaysAre DEF NoDate
  <2>2. day \in Nat /\ rec.start \in Nat /\ disk.start \in Nat
      BY <1>1, <1>5, <2>1 DEF BooksTypes
  <2> QED
      BY <1>1, <1>5, <2>2
<1>9. Forward(rec)' /\ Forward(disk)'
    BY <1>1, <1>2 DEF BooksInv, Forward
<1> QED
    BY <1>1, <1>2, <1>3, <1>6, <1>7, <1>8, <1>9 DEF BooksInv

\* Every step of the agent, of the power, of the leg, of the operator and of the calendar
\* keeps the books.
LEMMA BooksStepInv == ASSUME BooksInv, [BooksNext]_booksVars PROVE BooksInv'
<1>1. ASSUME NEW now \in Clocks, Start(now) PROVE BooksInv'
    BY <1>1, StartKeeps
<1>2. ASSUME NEW now \in Clocks, NEW rolls \in BOOLEAN, NEW reads \in BOOLEAN, NEW ok \in BOOLEAN,
             UsagePass(now, rolls, reads, ok)
      PROVE  BooksInv'
    BY <1>2, UsagePassKeeps
<1>3. CASE (\E ok \in BOOLEAN : StopAgent(ok)) \/ PowerCut
    BY <1>3, OffKeeps DEF StopAgent, PowerCut
<1>4. /\ BooksTypes /\ MaxBytes \in Nat /\ counter \in 0 .. MaxBytes /\ mark \in {Unset} \cup 0 .. MaxBytes
      /\ Total + (IF counter > mark /\ mark # Unset THEN counter - mark ELSE 0) <= MaxBytes /\ Total \in Nat
    BY BooksAssumption, CountsAre DEF BooksInv, BooksTypes, Total
<1>5. CASE FileCorrupted
  <2>1. /\ disk' = NoFile
        /\ UNCHANGED <<day, billing_day, on, member, usage, rec, counter, mark, flush_age, counted, adopted, settled, idle>>
      BY <1>5 DEF FileCorrupted, memoryVars
  <2>2. /\ disk'.usage = Unset /\ disk'.start = NoDate /\ disk'.prev = 0 /\ disk'.prev_start = NoDate
      BY <2>1 DEF NoFile
  <2>3. Total' = Total /\ Since(rec.start)' = Since(rec.start) /\ day \in Nat
      BY <1>4, <2>1, DaysAre DEF Total, Since, BooksTypes
  <2>4. BooksTypes'
      BY <1>4, <2>1, <2>2 DEF BooksTypes
  <2>5. /\ FitsPeriod(usage, rec.start)' /\ Forward(rec)' /\ FitsPeriod(disk.usage, disk.start)' /\ Forward(disk)'
      BY <2>1, <2>2, <2>3 DEF BooksInv, FitsPeriod, Forward
  <2> QED
      BY <1>4, <2>1, <2>2, <2>3, <2>4, <2>5 DEF BooksInv, NoDate, Unset
<1>6. CASE CarryBytes
  <2>1. /\ Carried < MaxBytes /\ counter < MaxBytes /\ counter' = counter + 1
        /\ UNCHANGED <<day, billing_day, on, member, usage, rec, mark, flush_age, disk, counted, adopted, settled, idle>>
      BY <1>6 DEF CarryBytes
  <2>2. Total + (IF counter > mark /\ mark # Unset THEN counter - mark ELSE 0) < MaxBytes
      BY <1>4, <2>1, CarriedIs DEF BooksTypes
  <2>3. counter' \in 0 .. MaxBytes
      BY <1>4, <2>1
  <2>4. Total + (IF counter' > mark /\ mark # Unset THEN counter' - mark ELSE 0) <= MaxBytes
      BY <1>4, <2>1, <2>2
  <2> QED
      BY <1>4, <2>1, <2>3, <2>4, AsideKeeps DEF BooksTypes
<1>7. CASE RelinkLeg
  <2>1. /\ counter' = 0
        /\ UNCHANGED <<day, billing_day, on, member, usage, rec, mark, flush_age, disk, counted, adopted, settled, idle>>
      BY <1>7 DEF RelinkLeg
  <2>2. counter' \in 0 .. MaxBytes /\ Total + (IF counter' > mark /\ mark # Unset THEN counter' - mark ELSE 0) <= MaxBytes
      BY <1>4, <2>1 DEF Unset
  <2> QED
      BY <1>4, <2>1, <2>2, AsideKeeps DEF BooksTypes
<1>8. CASE Membership
  <2>1. /\ usage' = 0 /\ settled' = FALSE
        /\ UNCHANGED <<day, billing_day, on, rec, counter, mark, flush_age, disk, counted, adopted, idle>>
      BY <1>8 DEF Membership
  <2> QED
      BY <1>4, <2>1, AsideKeeps DEF BooksTypes
<1>9. ASSUME NEW d \in BillingDays, SetBillingDay(d) PROVE BooksInv'
  <2>1. /\ billing_day' \in BillingDays /\ settled' = FALSE
        /\ UNCHANGED <<day, on, usage, rec, counter, mark, flush_age, disk, counted, adopted, idle>>
      BY <1>9 DEF SetBillingDay, memoryVars
  <2> QED
      BY <1>4, <2>1, AsideKeeps
<1>10. CASE NextDay
    BY <1>10, NextDayKeeps
<1>11. CASE UNCHANGED booksVars
  <2>1. UNCHANGED <<day, billing_day, on, usage, rec, counter, mark, flush_age, disk, counted, adopted, settled, idle>>
      BY <1>11 DEF booksVars, memoryVars
  <2> QED
      BY <1>4, <2>1, AsideKeeps DEF BooksTypes
<1> QED
    BY <1>1, <1>2, <1>3, <1>5, <1>6, <1>7, <1>8, <1>9, <1>10, <1>11 DEF BooksNext

\* Books that are kept are sound.
LEMMA BooksInvSound == BooksInv => BooksSound
<1> SUFFICES ASSUME BooksInv PROVE BooksSound
    OBVIOUS
<1>1. on /\ rec.start # NoDate => usage <= adopted[rec.start] + SumFunctionOnSet(counted, rec.start .. day)
    BY SumOnSet DEF BooksInv, FitsPeriod, Since
<1>2. rec.prev_start # NoDate => rec.prev_start < rec.start
    BY DEF BooksInv, Forward
<1>3. settled => \A b \in Boundaries(billing_day) : b <= day => b <= rec.start
    BY DEF BooksInv
<1>4. idle < FlushEvery
    BY BooksAssumption DEF BooksInv, BooksTypes, Unset
<1> QED
    BY <1>1, <1>2, <1>3, <1>4 DEF BooksSound, UsageIsOfThisPeriod, FlushedInTime

\* And their amounts stay within what the leg carried.
LEMMA BooksInvTyped == BooksInv => BooksTypeOK
<1> SUFFICES ASSUME BooksInv PROVE BooksTypeOK
    OBVIOUS
<1>1. BooksTypes /\ MaxBytes \in Nat
    BY BooksAssumption DEF BooksInv
<1>2. Total \in Nat
    BY <1>1, CountsAre DEF Total, BooksTypes
<1>3. Total <= MaxBytes
  <2>1. counter \in Nat /\ (mark # Unset => mark \in Nat)
      BY <1>1 DEF BooksTypes
  <2> QED
      BY <1>1, <1>2, <2>1 DEF BooksInv
<1>4. usage <= Total /\ rec.prev <= Total /\ usage \in Nat /\ rec.prev \in Nat
    BY <1>1 DEF BooksInv, BooksTypes, Records
<1>5. usage \in 0 .. MaxBytes /\ rec.prev \in 0 .. MaxBytes
    BY <1>1, <1>2, <1>3, <1>4
<1> QED
    BY <1>1, <1>5 DEF BooksTypeOK, BooksTypes, Records

-----------------------------------------------------------------------------
(* The types.  What the invariants above leave out: the books of the hub,    *)
(* the size of the table of requests and of the queue, and the keys that     *)
(* the conf and the interface name.                                          *)

\* The rotation's invariant tells the types of all it keeps.
LEMMA RotationInvTyped == RotationInv => RotationTypeOK
BY RotationAssumption DEF RotationInv, RotationTypeOK, KeyTypes, OnOneKey, Unserved, Served, OldKeys, TornKeys,
   NewKeys, Files, Keys, NoKey

\* The hub's books of the phones.
PhonesKept == heard \in [Phones -> {Never} \cup 0 .. RetainFor + 1] /\ listed \subseteq Phones

\* They are empty at first.
LEMMA PhonesInit == HubInit => PhonesKept
BY DEF HubInit, PhonesKept

\* Every report, listing and tick keeps them.
LEMMA PhonesStep == ASSUME PhonesKept, [HubNext]_hubVars PROVE PhonesKept'
<1>1. RetainFor \in Nat
    BY HubAssumption
<1>2. CASE UNCHANGED <<heard, listed>>
    BY <1>2 DEF PhonesKept
<1>3. CASE HubTick
  <2>1. \A n \in {Never} \cup 0 .. RetainFor + 1 : Aged(n, RetainFor + 1) \in {Never} \cup 0 .. RetainFor + 1
      BY <1>1 DEF Aged, Never
  <2> QED
      BY <1>3, <2>1 DEF HubTick, PhonesKept
<1>4. ASSUME NEW p \in Phones, Report(p) PROVE PhonesKept'
    BY <1>1, <1>4 DEF Report, PhonesKept
<1>5. CASE Snapshot
    BY <1>5 DEF Snapshot, PhonesKept
<1> QED
    BY <1>2, <1>3, <1>4, <1>5 DEF HubNext, hubVars, NextRouter, Fetched, FetchBreaks, NextCycle, StopHub

\* The hub is typed by its invariant and its books.
LEMMA HubInvTyped == HubInv /\ PhonesKept => HubTypeOK
BY DEF HubInv, HubTypes, WordsWritten, PhonesKept, HubTypeOK, Outcomes

\* No more requests are open than the cap allows.
OpenHosts == {h \in Hosts : IsOpen(h)}
TableHolds == Cardinality(OpenHosts) <= MaxPending

\* A step that opens no request leaves the table within its cap.
LEMMA TableShrinks ==
    ASSUME TableHolds, OpenHosts' \subseteq OpenHosts PROVE TableHolds'
<1>1. IsFiniteSet(OpenHosts) /\ MaxPending \in Nat
    BY PairAssumption, FS_Subset DEF OpenHosts
<1>2. Cardinality(OpenHosts') <= Cardinality(OpenHosts) /\ Cardinality(OpenHosts) \in Nat /\ Cardinality(OpenHosts') \in Nat
    BY <1>1, FS_Subset, FS_CardinalityType
<1> QED
    BY <1>1, <1>2 DEF TableHolds

\* The table is empty at first.
LEMMA TableInit == PairInit => TableHolds
<1> SUFFICES ASSUME PairInit PROVE TableHolds
    OBVIOUS
<1>1. OpenHosts = {}
    BY DEF PairInit, OpenHosts, IsOpen, NoRequest
<1> QED
    BY <1>1, FS_EmptySet, PairAssumption DEF TableHolds

\* Only a request opens a place in the table, and only where there is one.
LEMMA TableStep == ASSUME PairInv, TableHolds, [PairNext]_pairVars PROVE TableHolds'
<1>1. /\ open \in [Hosts -> [code : Codes \cup {0}, approved : BOOLEAN, left : 0 .. RequestTtl]]
      /\ RequestTtl \in Nat \ {0} /\ MaxPending \in Nat
    BY PairAssumption DEF PairInv, PairTypes
<1>2. CASE UNCHANGED open
    BY <1>2, TableShrinks DEF OpenHosts, IsOpen
<1>3. ASSUME NEW h \in Hosts, AskCollects(h) PROVE TableHolds'
  <2>1. open' = open \/ open' = [open EXCEPT ![h] = NoRequest]
      BY <1>3 DEF AskCollects, Consumed
  <2>2. OpenHosts' \subseteq OpenHosts
      BY <1>1, <2>1 DEF OpenHosts, IsOpen, NoRequest
  <2> QED
      BY <2>2, TableShrinks
<1>4. ASSUME NEW h \in Hosts, AskRequests(h) PROVE TableHolds'
  <2>1. CASE IsOpen(h)
    <3>1. open' = [open EXCEPT ![h].left = RequestTtl]
        BY <1>4, <2>1 DEF AskRequests
    <3>2. OpenHosts' \subseteq OpenHosts
        BY <1>1, <2>1, <3>1 DEF OpenHosts, IsOpen
    <3> QED
        BY <3>2, TableShrinks
  <2>2. CASE ~ IsOpen(h) /\ Cardinality(OpenHosts) >= MaxPending
      BY <1>2, <1>4, <2>2 DEF AskRequests, OpenHosts
  <2>3. CASE ~ IsOpen(h) /\ ~ (Cardinality(OpenHosts) >= MaxPending)
    <3>1. \E c \in Drawn : open' = [open EXCEPT ![h] = [code |-> c, approved |-> FALSE, left |-> RequestTtl]]
        BY <1>4, <2>3 DEF AskRequests, OpenHosts
    <3>2. OpenHosts' \subseteq OpenHosts \cup {h}
        BY <1>1, <3>1 DEF OpenHosts, IsOpen
    <3>3. IsFiniteSet(OpenHosts) /\ h \notin OpenHosts
        BY <2>3, PairAssumption, FS_Subset DEF OpenHosts
    <3>4. /\ IsFiniteSet(OpenHosts \cup {h}) /\ Cardinality(OpenHosts) \in Nat
          /\ Cardinality(OpenHosts \cup {h}) = Cardinality(OpenHosts) + 1
        BY <3>3, FS_AddElement, FS_CardinalityType
    <3>5. Cardinality(OpenHosts') <= Cardinality(OpenHosts \cup {h}) /\ Cardinality(OpenHosts') \in Nat
        BY <3>2, <3>4, FS_Subset, FS_CardinalityType
    <3> QED
        BY <1>1, <2>3, <3>4, <3>5 DEF TableHolds
  <2> QED
      BY <2>1, <2>2, <2>3
<1>5. CASE Approve
  <2>1. open' = open \/ \E h \in Hosts : IsOpen(h) /\ open' = [open EXCEPT ![h].approved = TRUE]
      BY <1>5 DEF Approve
  <2>2. OpenHosts' \subseteq OpenHosts
      BY <1>1, <2>1 DEF OpenHosts, IsOpen
  <2> QED
      BY <2>2, TableShrinks
<1>6. CASE RequestsAge
  <2>1. ASSUME NEW h \in Hosts, open'[h].left > 0 PROVE open[h].left > 0
    <3>1. open'[h] = IF open[h].left <= 1 THEN NoRequest ELSE [open[h] EXCEPT !.left = @ - 1]
        BY <1>6 DEF RequestsAge
    <3>2. open[h].left \in Nat
        BY <1>1
    <3>3. CASE open[h].left <= 1
        BY <2>1, <3>1, <3>3 DEF NoRequest
    <3>4. CASE ~ (open[h].left <= 1)
        BY <3>2, <3>4
    <3> QED
        BY <3>3, <3>4
  <2>2. OpenHosts' \subseteq OpenHosts
      BY <2>1 DEF OpenHosts, IsOpen
  <2> QED
      BY <2>2, TableShrinks
<1>7. CASE PairingRestarts
  <2>1. OpenHosts' \subseteq OpenHosts
      BY <1>7 DEF PairingRestarts, OpenHosts, IsOpen, NoRequest
  <2> QED
      BY <2>1, TableShrinks
<1> QED
    BY <1>2, <1>3, <1>4, <1>5, <1>6, <1>7 DEF PairNext, pairVars, AnswerLost, OperatorReads

\* The pairing is typed by its invariant and the bound of its table.
LEMMA PairInvTyped == PairInv /\ TableHolds => PairTypeOK
BY DEF PairInv, PairTypes, TableHolds, OpenHosts, PairTypeOK

\* The queue holds no more than its limit, a worker that posts has something to post, and
\* no more was offered than the bound allows.
QueueHolds ==
    /\ stage \in {"open", "flushing", "closed"} /\ offered <= MaxItems /\ Len(q) <= QueueMax
    /\ worker = "posting" => batch # <<>>

\* An empty queue is within its limit.
LEMMA QueueHoldsInit == QueueInit => QueueHolds
BY QueueAssumption DEF QueueInit, QueueHolds

\* Every offer, drain, post and close keeps it there.
LEMMA QueueHoldsStep == ASSUME QueueInv, QueueHolds, [QueueNext]_queueVars PROVE QueueHolds'
<1>1. /\ q \in Seq(Nat) /\ batch \in Seq(Nat) /\ offered \in Nat /\ Len(q) \in Nat /\ Len(q) <= QueueMax
      /\ QueueMax \in Nat \ {0} /\ BatchMax \in Nat \ {0} /\ MaxItems \in Nat
    BY QueueAssumption DEF QueueInv, QueueTypes, QueueHolds
<1>2. ASSUME NEW i \in Nat PROVE Len(PutNowait(i)) <= QueueMax
    BY <1>1 DEF PutNowait
<1>3. CASE Offer
  <2>1. /\ offered < MaxItems /\ offered' = offered + 1 /\ UNCHANGED <<batch, worker, stage>>
        /\ q' = PutNowait(offered + 1) \/ q' = EmitRecord(offered + 1)
      BY <1>3 DEF Offer, Submit, ObserveRouter, Enqueue, Emit
  <2>2. Len(EmitRecord(offered + 1)) <= QueueMax
    <3>1. CASE Len(q) < QueueMax
        BY <1>1, <3>1 DEF EmitRecord
    <3>2. CASE ~ (Len(q) < QueueMax)
      <4>1. q # <<>> /\ Len(q) = QueueMax
          BY <1>1, <3>2
      <4>2. Tail(q) \in Seq(Nat) /\ Len(Tail(q)) = Len(q) - 1
          BY <1>1, <4>1
      <4>3. Len(Append(Tail(q), offered + 1)) = Len(q)
          BY <1>1, <4>2
      <4> QED
          BY <3>2, <4>1, <4>3 DEF EmitRecord
    <3> QED
        BY <3>1, <3>2
  <2>3. offered + 1 \in Nat
      BY <1>1
  <2>4. Len(PutNowait(offered + 1)) <= QueueMax
      BY <1>2, <2>3
  <2>5. Len(q') <= QueueMax
      BY <2>1, <2>2, <2>4
  <2> QED
      BY <1>1, <2>1, <2>5 DEF QueueHolds
<1>4. CASE Drain
  <2>1. /\ q # <<>> /\ q' = Left(q) /\ batch' = Taken(q) /\ UNCHANGED <<stage, offered>>
        /\ worker' = IF Ends(q) /\ batch' = <<>> THEN "ended" ELSE "posting"
      BY <1>4 DEF Drain, Left, Ends, Taken, Past, DrainBatch
  <2>2. /\ Taken(q) \in Seq(Nat) /\ Left(q) \in Seq(Nat) /\ Past(q) \in {0, 1} /\ (Ends(q) <=> Past(q) = 1)
        /\ Len(Left(q)) = Len(q) - Len(Taken(q)) - Past(q)
      BY <1>1, DrainTakes
  <2>3. Len(q') <= QueueMax
      BY <1>1, <2>1, <2>2
  <2>4. Taken(q) = <<>> => Ends(q)
    <3> SUFFICES ASSUME Taken(q) = <<>> PROVE Contains(q, Sentinel)
        BY <1>1 DEF Ends
    <3>1. Items(q) = <<>> \/ Contains(q, Sentinel)
      <4> SUFFICES ASSUME ~ Contains(q, Sentinel) PROVE Items(q) = <<>>
          OBVIOUS
      <4>1. Items(q) = q
          BY DEF Items
      <4>2. Taken(q) = IF Len(q) > BatchMax THEN SubSeq(q, 1, BatchMax) ELSE q
          BY <4>1 DEF Taken, AtMost
      <4>3. Len(q) > BatchMax => Len(SubSeq(q, 1, BatchMax)) = BatchMax
          BY <1>1
      <4> QED
          BY <1>1, <4>1, <4>2, <4>3
    <3> QED
        BY <2>1, <3>1 DEF Items
  <2> QED
      BY <2>1, <2>3, <2>4 DEF QueueHolds
<1>5. CASE DrainSeries
  <2>1. /\ q # <<>> /\ q' = Tail(q) /\ UNCHANGED <<stage, offered>>
        /\ worker' = "ended" \/ batch' = <<Head(q)>>
      BY <1>5 DEF DrainSeries
  <2>2. Len(q') = Len(q) - 1
      BY <1>1, <2>1
  <2>3. Len(q') <= QueueMax
      BY <1>1, <2>2
  <2>4. worker' = "posting" => batch' # <<>>
      BY <2>1
  <2> QED
      BY <2>1, <2>3, <2>4 DEF QueueHolds
<1>6. CASE FlushLoop
  <2>1. /\ q' = <<>> /\ batch' = q /\ UNCHANGED <<stage, offered>>
        /\ worker' = IF q # <<>> THEN "posting" ELSE IF ending' THEN "ended" ELSE "idle"
      BY <1>6 DEF FlushLoop
  <2> QED
      BY <1>1, <2>1 DEF QueueHolds
<1>7. ASSUME NEW ok \in BOOLEAN, Post(ok) PROVE QueueHolds'
  <2>1. worker' # "posting" /\ UNCHANGED <<q, stage, offered>>
      BY <1>7 DEF Post
  <2> QED
      BY <2>1 DEF QueueHolds
<1>8. CASE Close
    BY <1>8 DEF Close, QueueHolds
<1>9. ASSUME NEW timed_out \in BOOLEAN, CloseFlushed(timed_out) PROVE QueueHolds'
  <2>1. /\ stage' = "closed" /\ UNCHANGED <<batch, worker, offered>>
        /\ q' = q \/ q' = PutNowait(Sentinel)
      BY <1>9 DEF CloseFlushed
  <2>2. Len(q') <= QueueMax
      BY <1>1, <1>2, <2>1 DEF Sentinel
  <2> QED
      BY <2>1, <2>2 DEF QueueHolds
<1>10. CASE UNCHANGED queueVars
    BY <1>10 DEF queueVars, QueueHolds
<1> QED
    BY <1>3, <1>4, <1>5, <1>6, <1>7, <1>8, <1>9, <1>10 DEF QueueNext

\* The queue is typed by its invariant and its limits.
LEMMA QueueInvTyped == QueueInv /\ QueueHolds => QueueTypeOK
<1> SUFFICES ASSUME QueueInv, QueueHolds PROVE QueueTypeOK
    OBVIOUS
<1>1. /\ q \in Seq(Nat) /\ batch \in Seq(Nat) /\ offered \in Nat /\ MaxItems \in Nat /\ offered <= MaxItems
      /\ UpTo(q, offered) /\ UpTo(batch, offered) /\ RealItems(batch)
      /\ sink \in Sinks /\ worker \in {"idle", "posting", "ended"} /\ ending \in BOOLEAN
      /\ (worker # "posting" => batch = <<>>)
    BY QueueAssumption DEF QueueInv, QueueTypes, OrderKept, QueueHolds
<1>2. ASSUME NEW x \in ToSet(q) PROVE x \in 0 .. MaxItems
  <2>1. PICK i \in 1 .. Len(q) : q[i] = x
      BY <1>1 DEF ToSet
  <2>2. q[i] \in Nat /\ q[i] <= offered
      BY <1>1 DEF UpTo
  <2> QED
      BY <1>1, <2>1, <2>2
<1>3. ASSUME NEW x \in ToSet(batch) PROVE x \in 1 .. MaxItems
  <2>1. PICK i \in 1 .. Len(batch) : batch[i] = x
      BY <1>1 DEF ToSet
  <2>2. batch[i] \in Nat /\ batch[i] <= offered /\ batch[i] # 0
      BY <1>1 DEF UpTo, RealItems, Sentinel
  <2> QED
      BY <1>1, <2>1, <2>2
<1>4. (worker = "posting") = (batch # <<>>)
    BY <1>1 DEF QueueHolds
<1> QED
    BY <1>1, <1>2, <1>3, <1>4 DEF QueueTypeOK, QueueHolds

\* The ports and keys that the conf and the interface name, the keys of the paths, and the
\* redirects.
NamesKnown ==
    /\ Listing => /\ conf.listen \in AllPorts /\ Len(conf.peers) <= minted
                  /\ \A i \in 1 .. Len(conf.peers) : conf.peers[i].key <= MaxKeys
    /\ wg # Absent => \A a \in Octets : wg.owner[a] <= MaxKeys
    /\ Readable => \A p \in meta.paths : p.key \in 1 .. MaxKeys
    /\ Provisioning => \A p \in cmd.made : p.key \in 1 .. MaxKeys
    /\ rules \in [AllPorts -> Seq([to : AllPorts \cup {TransportPort}, wanOnly : BOOLEAN])]

\* Nothing is named at first.
LEMMA NamesInit == ServerInit => NamesKnown
BY DEF ServerInit, NamesKnown, Listing, Readable, Provisioning, Idle

\* The first port of a list is one of the ports.
LEMMA FirstPort ==
    ASSUME NEW m \in MetaRecords PROVE m.ports[1] \in AllPorts
<1>1. m.ports \in PortLists /\ m.ports # <<>> /\ m.ports \in Seq(Nat)
    BY ServerAssumption DEF MetaRecords
<1>2. 1 \in 1 .. Len(m.ports)
    BY <1>1
<1> QED
    BY <1>1, <1>2 DEF AllPorts

\* Every command, whether it ends or is killed, names what is known.
LEMMA NamesStep == ASSUME ServerInv, NamesKnown, [ServerNext]_homeServerVars PROVE NamesKnown'
<1>1. /\ meta \in {Absent, Broken} \cup MetaRecords /\ (conf # Absent => conf \in ConfRecords)
      /\ (wg # Absent => wg \in LinkRecords) /\ minted \in 0 .. MaxKeys /\ MaxKeys \in Nat
      /\ cmd \in {Idle, [op |-> "init"]} \cup Issuing \cup Upping
    BY ServerAssumption DEF ServerInv, ServerTypes
<1>2. Readable => meta \in MetaRecords
    BY <1>1 DEF Readable
<1>3. CASE UNCHANGED <<meta, conf, wg, rules, cmd, minted>>
    BY <1>3 DEF NamesKnown, Listing, Readable, Provisioning
<1>4. ASSUME NEW l \in PortLists, NEW force \in BOOLEAN, CmdInit(l, force) PROVE NamesKnown'
  <2>1. /\ meta'.paths = {} /\ cmd' = [op |-> "init"] /\ UNCHANGED <<conf, wg, rules, minted>>
      BY <1>4 DEF CmdInit
  <2> QED
      BY <2>1 DEF NamesKnown, Listing, Readable, Provisioning
<1>5. CASE InitWritesConf
  <2>1. /\ cmd.op = "init" /\ conf' = [listen |-> meta.ports[1], key |-> meta.key, peers |-> <<>>]
        /\ cmd' = Idle /\ UNCHANGED <<meta, wg, rules, minted>>
      BY <1>5 DEF InitWritesConf
  <2>2. meta \in MetaRecords
      BY <2>1 DEF ServerInv, CommandKnows
  <2>3. conf'.listen \in AllPorts /\ conf'.peers = <<>> /\ Len(conf'.peers) = 0
      BY <2>1, <2>2, FirstPort
  <2>4. Len(conf'.peers) <= minted' /\ \A i \in 1 .. Len(conf'.peers) : conf'.peers[i].key <= MaxKeys
      BY <1>1, <2>1, <2>3
  <2>5. ~ Provisioning'
      BY <2>1 DEF Provisioning, Idle
  <2> QED
      BY <2>1, <2>3, <2>4, <2>5 DEF NamesKnown, Readable
<1>6. ASSUME NEW c, NEW todo, CmdAddClient(c, todo) PROVE NamesKnown'
  <2>1. /\ cmd'.made = {} /\ cmd'.op # "up" /\ UNCHANGED <<meta, conf, wg, rules, minted>>
      BY <1>6 DEF CmdAddClient
  <2> QED
      BY <2>1 DEF NamesKnown, Listing, Readable
<1>7. ASSUME NEW c, NEW p, CmdAddPath(c, p) PROVE NamesKnown'
  <2>1. /\ cmd'.made = {} /\ cmd'.op # "up" /\ UNCHANGED <<meta, conf, wg, rules, minted>>
      BY <1>7 DEF CmdAddPath
  <2> QED
      BY <2>1 DEF NamesKnown, Listing, Readable
<1>8. CASE AppendPeer
  <2> DEFINE key == minted + 1
             addr == cmd.octet
             peer == [key |-> key, addr |-> addr]
             new == [client |-> cmd.client, path |-> Head(cmd.todo), key |-> key, addr |-> addr]
  <2>1. /\ Provisioning /\ minted < MaxKeys
        /\ conf' = IF conf = Absent THEN conf ELSE [conf EXCEPT !.peers = Append(conf.peers, peer)]
        /\ wg' = IF wg = Absent THEN wg ELSE [wg EXCEPT !.owner[addr] = key]
        /\ cmd' = [cmd EXCEPT !.todo = Tail(cmd.todo), !.octet = NextOctet(cmd.octet), !.made = cmd.made \cup {new}]
        /\ minted' = key /\ UNCHANGED <<meta, rules>>
      BY <1>8 DEF AppendPeer
  <2>2. key \in 1 .. MaxKeys /\ key <= MaxKeys /\ minted \in Nat /\ key = minted + 1
      BY <1>1, <2>1
  <2>3. peer.key = key /\ new.key = key
      OBVIOUS
  <2>4. cmd \in Issuing
      BY <2>1, CommandKinds DEF ServerInv
  <2>5. Provisioning' => \A p \in cmd'.made : p.key \in 1 .. MaxKeys
    <3> HIDE DEF new
    <3>1. cmd'.made = cmd.made \cup {new}
        BY <2>1, <2>4 DEF Issuing
    <3> QED
        BY <2>1, <2>2, <2>3, <3>1 DEF NamesKnown
  <2>6. Listing' => /\ conf'.listen \in AllPorts /\ Len(conf'.peers) <= minted'
                    /\ \A i \in 1 .. Len(conf'.peers) : conf'.peers[i].key <= MaxKeys
    <3> SUFFICES ASSUME Listing'
                 PROVE  /\ conf'.listen \in AllPorts /\ Len(conf'.peers) <= minted'
                        /\ \A i \in 1 .. Len(conf'.peers) : conf'.peers[i].key <= MaxKeys
        OBVIOUS
    <3> HIDE DEF peer
    <3>0. cmd'.op # "up"
        BY <2>1, <2>4 DEF Issuing
    <3>1. conf # Absent /\ conf \in ConfRecords
        BY <1>1, <2>1, <3>0 DEF Listing
    <3>2. conf'.listen = conf.listen /\ conf'.peers = Append(conf.peers, peer)
        BY <2>1, <3>1 DEF ConfRecords
    <3>3. PICK s : s = conf.peers /\ s \in Seq([key : Nat, addr : Nat])
        BY <3>1 DEF ConfRecords
    <3>4. /\ Len(s) \in Nat /\ Len(Append(s, peer)) = Len(s) + 1 /\ Append(s, peer)[Len(s) + 1] = peer
          /\ \A i \in 1 .. Len(s) : Append(s, peer)[i] = s[i]
        BY <3>3
    <3>5. ASSUME NEW i \in 1 .. Len(s) + 1 PROVE Append(s, peer)[i].key <= MaxKeys
      <4>1. CASE i = Len(s) + 1
          BY <2>2, <2>3, <3>4, <4>1
      <4>2. CASE i \in 1 .. Len(s)
          BY <3>1, <3>3, <3>4, <4>2 DEF NamesKnown, Listing
      <4> QED
          BY <3>4, <4>1, <4>2
    <3>6. Len(s) <= minted /\ conf.listen \in AllPorts
        BY <3>1, <3>3 DEF NamesKnown, Listing
    <3> QED
        BY <2>1, <2>2, <3>2, <3>3, <3>4, <3>5, <3>6
  <2>7. wg' # Absent => \A a \in Octets : wg'.owner[a] <= MaxKeys
    <3> SUFFICES ASSUME wg' # Absent, NEW a \in Octets PROVE wg'.owner[a] <= MaxKeys
        OBVIOUS
    <3>1. wg # Absent /\ wg \in LinkRecords /\ wg' = [wg EXCEPT !.owner[addr] = key]
        BY <1>1, <2>1
    <3>2. wg'.owner = [wg.owner EXCEPT ![addr] = key] /\ wg.owner \in [Octets -> Nat]
        BY <3>1 DEF LinkRecords
    <3> QED
        BY <2>2, <3>1, <3>2 DEF NamesKnown
  <2> QED
      BY <2>1, <2>5, <2>6, <2>7 DEF NamesKnown, Readable
<1>9. CASE SaveClients
  <2>1. /\ Provisioning /\ meta' = [meta EXCEPT !.paths = (meta.paths \ Replaced) \cup cmd.made, !.octet = cmd.octet]
        /\ cmd' = Idle /\ UNCHANGED <<conf, wg, rules, minted>>
      BY <1>9 DEF SaveClients
  <2>2. Readable /\ meta \in MetaRecords
      BY <1>2, <2>1 DEF ServerInv, CommandKnows
  <2>3. meta'.paths = (meta.paths \ Replaced) \cup cmd.made
      BY <2>1, <2>2 DEF MetaRecords
  <2>4. \A p \in meta'.paths : p.key \in 1 .. MaxKeys
      BY <2>1, <2>2, <2>3 DEF NamesKnown
  <2> QED
      BY <2>1, <2>4 DEF NamesKnown, Listing, Provisioning, Idle
<1>10. CASE CmdUp
  <2>1. /\ Readable /\ meta' = [meta EXCEPT !.ports = IF env.ports = <<>> THEN @ ELSE env.ports]
        /\ cmd'.op = "up" /\ conf # Absent /\ UNCHANGED <<conf, wg, rules, minted>>
      BY <1>10 DEF CmdUp
  <2>2. meta'.paths = meta.paths
      BY <1>2, <2>1 DEF MetaRecords
  <2> QED
      BY <2>1, <2>2 DEF NamesKnown, Listing, Readable, Provisioning
<1>11. CASE UpWritesConf
  <2>1. /\ cmd.op = "up" /\ conf' = [listen |-> meta.ports[1], key |-> meta.key, peers |-> conf.peers]
        /\ cmd' = [cmd EXCEPT !.step = "redirect"] /\ UNCHANGED <<meta, wg, rules, minted>>
      BY <1>11 DEF UpWritesConf, KeptPeers
  <2>2. meta \in MetaRecords /\ conf \in ConfRecords /\ Listing /\ cmd \in Upping
      BY <2>1, CommandKinds DEF ServerInv, CommandKnows, Listing
  <2>3. conf'.listen \in AllPorts /\ conf'.peers = conf.peers
      BY <2>1, <2>2, FirstPort
  <2>4. cmd'.op = "up"
      BY <2>1, <2>2 DEF Upping
  <2> QED
      BY <2>1, <2>2, <2>3, <2>4 DEF NamesKnown, Listing, Readable, Provisioning
<1>12. CASE UpRedirects
  <2>1. /\ cmd.op = "up" /\ cmd' = [cmd EXCEPT !.step = "link"] /\ UNCHANGED <<meta, conf, wg, minted>>
        /\ rules' = [p \in AllPorts |-> IF p \in Listed(meta.ports) THEN Redirected(p) ELSE rules[p]]
      BY <1>12 DEF UpRedirects
  <2>2. meta \in MetaRecords /\ cmd \in Upping
      BY <2>1, CommandKinds DEF ServerInv, CommandKnows
  <2>3. cmd'.op = "up"
      BY <2>1, <2>2 DEF Upping
  <2> DEFINE Rules == [to : AllPorts \cup {TransportPort}, wanOnly : BOOLEAN]
  <2>4. ASSUME NEW p \in AllPorts PROVE Redirected(p) \in Seq(Rules)
    <3> DEFINE rule == [to |-> Target(p), wanOnly |-> env.transport # Absent]
    <3>1. Target(p) \in AllPorts \cup {TransportPort}
        BY <2>2, FirstPort DEF Target
    <3>2. (env.transport # Absent) \in BOOLEAN
        OBVIOUS
    <3>3. rule \in Rules
        BY <3>1, <3>2
    <3>4. Redirected(p) = <<>> \o IF Target(p) = p THEN <<>> ELSE <<rule>>
        BY DEF Redirected, Purged
    <3> HIDE DEF Rules, rule
    <3>5. <<>> \in Seq(Rules) /\ <<rule>> \in Seq(Rules)
        BY <3>3
    <3> QED
        BY <3>4, <3>5
  <2>5. rules' \in [AllPorts -> Seq(Rules)]
    <3>1. rules \in [AllPorts -> Seq(Rules)]
        BY DEF NamesKnown
    <3> HIDE DEF Rules
    <3> QED
        BY <2>1, <2>4, <3>1
  <2> QED
      BY <2>1, <2>3, <2>5 DEF NamesKnown, Listing, Readable, Provisioning
<1>13. CASE UpBringsUp
  <2>1. /\ cmd.op = "up" /\ cmd' = Idle /\ UNCHANGED <<meta, conf, rules, minted>>
        /\ wg' = IF cmd.already THEN wg
                 ELSE [listen |-> conf.listen, key |-> conf.key, owner |-> [a \in Octets |-> Owner(conf.peers, a)]]
      BY <1>13 DEF UpBringsUp
  <2>2. conf \in ConfRecords /\ Listing
      BY <2>1 DEF ServerInv, CommandKnows, Listing
  <2>3. ASSUME NEW a \in Octets PROVE Owner(conf.peers, a) <= MaxKeys
    <3> DEFINE mine == {i \in DOMAIN conf.peers : conf.peers[i].addr = a}
               top == CHOOSE i \in mine : \A j \in mine : j <= i
    <3>1. Owner(conf.peers, a) = IF mine = {} THEN 0 ELSE conf.peers[top].key
        BY DEF Owner
    <3>2. CASE mine = {}
        BY <1>1, <3>1, <3>2
    <3>3. CASE mine # {}
      <4>1. conf.peers \in Seq([key : Nat, addr : Nat])
          BY <2>2 DEF ConfRecords
      <4>2. Len(conf.peers) \in Nat /\ DOMAIN conf.peers = 1 .. Len(conf.peers)
          BY <4>1
      <4>3. mine \in SUBSET (1 .. Len(conf.peers))
          BY <4>2
      <4> HIDE DEF mine
      <4>4. \E i \in mine : \A j \in mine : j <= i
          BY <3>3, <4>2, <4>3, GreatestExists
      <4>5. top \in 1 .. Len(conf.peers)
          BY <4>3, <4>4
      <4> HIDE DEF top
      <4> QED
          BY <2>2, <3>1, <3>3, <4>5 DEF NamesKnown
    <3> QED
        BY <3>2, <3>3
  <2>4. wg' # Absent => \A a \in Octets : wg'.owner[a] <= MaxKeys
    <3>1. CASE cmd.already
        BY <2>1, <3>1 DEF NamesKnown
    <3>2. CASE ~ cmd.already
      <4>1. wg'.owner = [a \in Octets |-> Owner(conf.peers, a)]
          BY <2>1, <3>2
      <4> QED
          BY <2>3, <4>1
    <3> QED
        BY <3>1, <3>2
  <2> QED
      BY <2>1, <2>4 DEF NamesKnown, Listing, Readable, Provisioning, Idle
<1>14. CASE CmdDown
    BY <1>14 DEF CmdDown, NamesKnown, Listing, Readable, Provisioning
<1>15. ASSUME NEW e, EditEnvironment(e) PROVE NamesKnown'
    BY <1>3, <1>15 DEF EditEnvironment
<1>16. CASE Killed
    BY <1>16 DEF Killed, NamesKnown, Listing, Readable, Provisioning, Idle
<1>17. CASE KilledSaving
    BY <1>17 DEF KilledSaving, NamesKnown, Listing, Readable, Provisioning, Idle
<1>18. CASE KilledAppending
  <2>1. PICK n \in 0 .. Len(conf.peers) : conf' = [conf EXCEPT !.peers = SubSeq(conf.peers, 1, n)]
      BY <1>18 DEF KilledAppending
  <2>2. conf # Absent /\ cmd' = Idle /\ UNCHANGED <<meta, wg, rules, minted>> /\ conf \in ConfRecords
      BY <1>1, <1>18 DEF KilledAppending
  <2>3. conf'.listen = conf.listen /\ conf'.peers = SubSeq(conf.peers, 1, n)
      BY <2>1, <2>2 DEF ConfRecords
  <2>4. PICK s : s = conf.peers /\ s \in Seq([key : Nat, addr : Nat])
      BY <2>2 DEF ConfRecords
  <2>5. Len(SubSeq(s, 1, n)) = n /\ \A i \in 1 .. n : SubSeq(s, 1, n)[i] = s[i] /\ i \in 1 .. Len(s)
      BY <2>1, <2>4
  <2>6. /\ conf.listen \in AllPorts /\ Len(s) <= minted /\ Len(s) \in Nat
        /\ \A i \in 1 .. Len(s) : s[i].key <= MaxKeys
      BY <2>2, <2>4 DEF NamesKnown, Listing
  <2>7. /\ conf'.listen \in AllPorts /\ Len(conf'.peers) <= minted
        /\ \A i \in 1 .. Len(conf'.peers) : conf'.peers[i].key <= MaxKeys
    <3>1. n <= minted
        BY <1>1, <2>1, <2>4, <2>6
    <3> QED
        BY <2>3, <2>4, <2>5, <2>6, <3>1
  <2> QED
      BY <2>2, <2>7 DEF NamesKnown, Listing, Readable, Provisioning, Idle
<1>19. CASE NodeReboots
  <2>1. /\ wg' = Absent /\ rules' = [p \in AllPorts |-> <<>>] /\ cmd' = Idle /\ UNCHANGED <<meta, conf, minted>>
      BY <1>19 DEF NodeReboots
  <2> QED
      BY <2>1 DEF NamesKnown, Listing, Readable, Provisioning, Idle
<1> QED
    BY <1>3, <1>4, <1>5, <1>6, <1>7, <1>8, <1>9, <1>10, <1>11, <1>12, <1>13, <1>14, <1>15, <1>16, <1>17, <1>18,
       <1>19 DEF ServerNext, homeServerVars

\* The server is typed by its invariant and the names it knows.
LEMMA ServerInvTyped == ServerInv /\ NamesKnown => ServerTypeOK
<1> SUFFICES ASSUME ServerInv, NamesKnown PROVE ServerTypeOK
    OBVIOUS
<1>1. /\ meta \in {Absent, Broken} \cup MetaRecords /\ (wg # Absent => wg \in LinkRecords)
      /\ minted \in 0 .. MaxKeys /\ MaxKeys \in Nat
    BY ServerAssumption DEF ServerInv, ServerTypes
<1>2. ASSUME Readable
      PROVE  /\ meta.ports \in PortLists \ {<<>>} /\ meta.octet \in Octets
             /\ \A p \in meta.paths : p.addr \in Octets /\ p.key \in 1 .. MaxKeys
  <2>1. meta \in MetaRecords
      BY <1>1, <1>2 DEF Readable
  <2>2. /\ meta.octet \in FirstOctet .. FirstOctet + minted
        /\ \A p \in meta.paths : p.addr \in FirstOctet .. meta.octet - 1
      BY <1>2 DEF ServerInv, PathsOwned
  <2>3. meta.octet \in Octets /\ \A p \in meta.paths : p.addr \in Octets
      BY <1>1, <2>2 DEF Octets, FirstOctet
  <2> QED
      BY <1>2, <2>1, <2>3 DEF MetaRecords, NamesKnown
<1>3. conf # Absent => conf.listen \in AllPorts /\ Len(conf.peers) <= MaxKeys
  <2> SUFFICES ASSUME conf # Absent PROVE conf.listen \in AllPorts /\ Len(conf.peers) <= MaxKeys
      OBVIOUS
  <2>1. conf \in ConfRecords
      BY DEF ServerInv, ServerTypes
  <2>2. Len(conf.peers) \in Nat
      BY <2>1 DEF ConfRecords
  <2>3. conf.listen \in AllPorts /\ Len(conf.peers) <= minted
      BY DEF NamesKnown, Listing
  <2> QED
      BY <1>1, <2>2, <2>3
<1>4. wg # Absent => wg.owner \in [Octets -> 0 .. MaxKeys]
  <2> SUFFICES ASSUME wg # Absent PROVE wg.owner \in [Octets -> 0 .. MaxKeys]
      OBVIOUS
  <2>1. wg.owner \in [Octets -> Nat] /\ \A a \in Octets : wg.owner[a] <= MaxKeys
      BY <1>1 DEF LinkRecords, NamesKnown
  <2> QED
      BY <1>1, <2>1
<1> QED
    BY <1>2, <1>3, <1>4 DEF ServerTypeOK, NamesKnown

-----------------------------------------------------------------------------
\* The parts together.

\* Every part starts as it should.
LEMMA ServicesPartsInit ==
    ServicesInit => RotationInv /\ PairInv /\ HubInv /\ QueueInv /\ ServerInv /\ BooksInv
BY RotationInitInv, PairInitInv, HubInitInv, QueueInitInv, ServerInitInv, BooksInitInv DEF ServicesInit

\* A step of the services is for each part a step of its own or none.
LEMMA ServicesPartsStep ==
    [ServicesNext]_servicesVars =>
       /\ [RotationNext]_rotationVars /\ [PairNext]_pairVars /\ [HubNext]_hubVars
       /\ [QueueNext]_queueVars /\ [ServerNext]_homeServerVars /\ [BooksNext]_booksVars
BY DEF ServicesNext, servicesVars, InBooks, InQueue, InHub, InServer, InPairing, InKeys

\* A phone is sent the token only for an approval of its own, and no order of a
\* key's rollout, cut short anywhere, cuts the bond (PairingState, auth-key-sync.sh,
\* configure_keys).
THEOREM CredentialsAlwaysSound == ServicesSpec => []CredentialsSound
<1>1. ServicesInit => RotationInv /\ PairInv
    BY ServicesPartsInit
<1>2. RotationInv /\ PairInv /\ [ServicesNext]_servicesVars => RotationInv' /\ PairInv'
    BY ServicesPartsStep, RotationStepInv, PairStepInv
<1>3. RotationInv /\ PairInv => CredentialsSound
    BY RotationInvTalks, PairInvEarns DEF CredentialsSound
<1> QED
    BY <1>1, <1>2, <1>3, PTL DEF ServicesSpec

\* The hub passes off no word it cannot stand behind, where its bound is of two
\* cycles at least, and a worker posts everything it was given before it was told to
\* end, in order and once (status_from_cache, Tracer._drain, DatadogLogHandler).
THEOREM ReportsStayHonest == ASSUME BoundHasRoom PROVE ServicesSpec => []ReportsAreHonest
<1>1. ServicesInit => HubInv /\ QueueInv
    BY ServicesPartsInit
<1>2. HubInv /\ QueueInv /\ [ServicesNext]_servicesVars => HubInv' /\ QueueInv'
    BY ServicesPartsStep, HubStepInv, QueueStepInv
<1>3. HubInv /\ QueueInv => ReportsAreHonest
    BY BoundHasRoom, HubInvHonest, QueueInvPosts DEF ReportsAreHonest
<1> QED
    BY <1>1, <1>2, <1>3, PTL DEF ServicesSpec

\* Whatever command was killed in whichever step, a path that server.json records
\* owns its address, and every public port of an interface that up brought up leads to
\* WireGuard or to the transport (zippie_home.py).
THEOREM ServerStaysSound == ServicesSpec => ServerSound
<1>1. ServicesInit => ServerInv
    BY ServicesPartsInit
<1>2. ServerInv /\ [ServicesNext]_servicesVars => ServerInv' /\ [Converged]_homeServerVars
    BY ServicesPartsStep, ServerStepInv, ServerStepConverges
<1>3. ServerInv => IssuedPathsReachable
    BY ServerInvReaches
<1>4. [Converged]_homeServerVars =>
        [wg = Absent /\ wg' # Absent =>
            /\ \A p \in Listed(meta.ports) : Leads(p)' \in {wg'.listen, TransportPort}
            /\ \A i \in DOMAIN rules'[wg'.listen] :
                  rules'[wg'.listen][i].to = TransportPort => rules'[wg'.listen][i].wanOnly]_homeServerVars
    BY DEF Converged
<1> QED
    BY <1>1, <1>2, <1>3, <1>4, PTL DEF ServicesSpec, ServerSound, UpConverges

\* What a leg has used is no more than was counted since its period began, no clock opens an
\* earlier period, a true clock leaves none open that is over, and no write of the file is
\* put off longer than its interval (UsageLedger, UsageStore.roll, maybe_flush, period_start).
THEOREM BooksAlwaysSound == ServicesSpec => []BooksSound
<1>1. ServicesInit => BooksInv
    BY ServicesPartsInit
<1>2. BooksInv /\ [ServicesNext]_servicesVars => BooksInv'
    BY ServicesPartsStep, BooksStepInv
<1>3. BooksInv => BooksSound
    BY BooksInvSound
<1> QED
    BY <1>1, <1>2, <1>3, PTL DEF ServicesSpec

\* The state of all six parts keeps its types, at every bound: the amounts within what was
\* carried, the table of requests and the queue within their caps, the addresses, keys and
\* ports among those that there are.
THEOREM ServicesTypeCorrect == ServicesSpec => []ServicesTypeOK
<1> DEFINE Inv == /\ RotationInv /\ PairInv /\ HubInv /\ QueueInv /\ ServerInv /\ BooksInv
                  /\ PhonesKept /\ TableHolds /\ QueueHolds /\ NamesKnown
<1>1. ServicesInit => Inv
    BY ServicesPartsInit, PhonesInit, TableInit, QueueHoldsInit, NamesInit DEF ServicesInit
<1>2. Inv /\ [ServicesNext]_servicesVars => Inv'
  <2> SUFFICES ASSUME Inv, [ServicesNext]_servicesVars PROVE Inv'
      OBVIOUS
  <2>1. RotationInv' /\ PairInv' /\ HubInv' /\ QueueInv' /\ ServerInv' /\ BooksInv'
      BY ServicesPartsStep, RotationStepInv, PairStepInv, HubStepInv, QueueStepInv, ServerStepInv, BooksStepInv
  <2>2. PhonesKept' /\ TableHolds' /\ QueueHolds' /\ NamesKnown'
      BY ServicesPartsStep, PhonesStep, TableStep, QueueHoldsStep, NamesStep
  <2> QED
      BY <2>1, <2>2
<1>3. Inv => ServicesTypeOK
    BY RotationInvTyped, PairInvTyped, HubInvTyped, QueueInvTyped, ServerInvTyped, BooksInvTyped
       DEF ServicesTypeOK
<1> QED
    BY <1>1, <1>2, <1>3, PTL DEF ServicesSpec

=============================================================================
