----------------------------- MODULE KeyRotation -----------------------------
(***************************************************************************)
(* Header authentication between the two ends of the bond (auth.py) while  *)
(* an operator climbs its ladder of rungs and rotates its key in the order *)
(* auth.py gives, the router's key files being written by its refresher    *)
(* (musterwrt.py).  An end reads its files only when it starts, and either *)
(* end may restart at any moment.  A frame is what decides its acceptance: *)
(* unsigned, or signed with a key.                                         *)
(***************************************************************************)
EXTENDS Integers, FiniteSets

CONSTANTS MaxKey,     \* bound: key generations, 1..MaxKey
          CertDays    \* how long a certificate lasts, in days of this model

ASSUME RotationAssumption == MaxKey \in Nat \ {0} /\ CertDays \in Nat

VARIABLES homeFiles, routerFiles,  \* the current and the previous key on disk; 0 when absent
          homeRun, routerRun,      \* what each end loaded when it started
          homeLevel, routerLevel,  \* each end's configured rung
          muster,                  \* the key set muster serves, and whether it is well formed
          recorded,                \* the digest keys.json records
          fetched,                 \* the refresh in progress: the keys it is writing
          half,                    \* history: the router's files, and what it runs with, are half an answer
          certificate              \* days left, and whether it is for this router's own key

rotationVars == <<homeFiles, routerFiles, homeRun, routerRun, homeLevel, routerLevel,
                  muster, recorded, fetched, half, certificate>>

Keys == 1..MaxKey
NoKey == 0
Off == 0
Observe == 1
Sign == 2
Require == 3
Levels == Off..Require
Unsigned == 0     \* a v2 frame
Files(c, p) == [cur |-> c, prev |-> p]
NotRefreshing == [at |-> "idle", keys |-> Files(NoKey, NoKey)]

-----------------------------------------------------------------------------
(* auth.py: what a rung emits and what it accepts. *)

Signs(level) == level \in {Sign, Require}
Verifies(level) == level # Off
AcceptsLegacy(level) == level # Require

PackAuth(run, level) == IF Signs(level) THEN run.cur ELSE Unsigned

VerifiedCurrentOnly(run, frame) == frame = run.cur
Verified(run, frame) == frame = run.cur \/ (run.prev # NoKey /\ frame = run.prev)

UnpackAuth(run, level, frame) ==
  IF frame = Unsigned THEN AcceptsLegacy(level)
  ELSE Verifies(level) /\ Verified(run, frame)

(* Transport._verify_mac: what unpack_auth refuses is counted and dropped. *)
VerifyMac(run, level, frame) ==
  IF ~ UnpackAuth(run, level, frame) THEN "dropped"
  ELSE IF frame = Unsigned THEN "legacy" ELSE "verified"

(* build_identity, at the start of an end. *)
BuildIdentity(files) == files

RouterLoads ==
  /\ routerRun' = BuildIdentity(routerFiles)
  /\ half' = [half EXCEPT !.run = half.disk]

RotationInit ==
  /\ homeFiles = Files(1, NoKey) /\ routerFiles = Files(1, NoKey)
  /\ homeRun = Files(1, NoKey) /\ routerRun = Files(1, NoKey)
  /\ homeLevel = Off /\ routerLevel = Off
  /\ muster = [keys |-> Files(1, NoKey), sound |-> TRUE]
  /\ recorded = 1
  /\ fetched = NotRefreshing
  /\ half = [disk |-> FALSE, run |-> FALSE]
  /\ certificate = [left |-> CertDays, ours |-> TRUE]

-----------------------------------------------------------------------------
(* The operator, who moves one end by one rung at a time and never leaves the two more
   than one apart.  A rung takes effect with the restart that comes with it. *)

Adjacent(a, b) == a - b \in {-1, 0, 1}

HomeRung(level) ==
  /\ level \in Levels /\ Adjacent(level, homeLevel) /\ Adjacent(level, routerLevel)
  /\ homeLevel' = level
  /\ homeRun' = BuildIdentity(homeFiles)
  /\ UNCHANGED <<homeFiles, routerFiles, routerRun, routerLevel, muster, recorded, fetched,
                 half, certificate>>

RouterRung(level) ==
  /\ level \in Levels /\ Adjacent(level, routerLevel) /\ Adjacent(level, homeLevel)
  /\ routerLevel' = level
  /\ RouterLoads
  /\ UNCHANGED <<homeFiles, routerFiles, homeRun, homeLevel, muster, recorded, fetched,
                 certificate>>

HomeRestarts ==
  /\ homeRun' = BuildIdentity(homeFiles)
  /\ UNCHANGED <<homeFiles, routerFiles, routerRun, homeLevel, routerLevel, muster, recorded,
                 fetched, half, certificate>>

RouterRestarts ==
  /\ RouterLoads
  /\ UNCHANGED <<homeFiles, routerFiles, homeRun, homeLevel, routerLevel, muster, recorded,
                 fetched, certificate>>

(* Rotation step 1: home accepts the new key and still signs with the old one. *)
HomeAcceptsNew ==
  /\ homeFiles.prev = NoKey /\ routerFiles = homeFiles /\ routerRun = homeFiles
  /\ homeFiles.cur < MaxKey
  /\ homeFiles' = Files(homeFiles.cur, homeFiles.cur + 1)
  /\ homeRun' = homeFiles'
  /\ UNCHANGED <<routerFiles, routerRun, homeLevel, routerLevel, muster, recorded, fetched,
                 half, certificate>>

(* Step 2: muster serves the new key and retains the old one; or the operator slips, and
   the answer is one the refresher must refuse. *)
MusterServesNew(sound) ==
  /\ homeRun = homeFiles /\ homeFiles.prev = homeFiles.cur + 1
  /\ muster.keys.cur = homeFiles.cur
  /\ muster' = [keys |-> Files(homeFiles.prev, IF sound THEN homeFiles.cur ELSE homeFiles.prev),
                sound |-> sound]
  /\ UNCHANGED <<homeFiles, routerFiles, homeRun, routerRun, homeLevel, routerLevel, recorded,
                 fetched, half, certificate>>

MusterCorrected ==
  /\ ~ muster.sound
  /\ muster' = [keys |-> Files(muster.keys.cur, homeFiles.cur), sound |-> TRUE]
  /\ UNCHANGED <<homeFiles, routerFiles, homeRun, routerRun, homeLevel, routerLevel, recorded,
                 fetched, half, certificate>>

(* Step 3, once the router runs with the new key: home signs with it too. *)
HomeSignsNew ==
  /\ homeFiles.prev = homeFiles.cur + 1
  /\ routerRun = Files(homeFiles.prev, homeFiles.cur) /\ routerFiles = routerRun
  /\ homeFiles' = Files(homeFiles.prev, NoKey)
  /\ homeRun' = homeFiles'
  /\ UNCHANGED <<routerFiles, routerRun, homeLevel, routerLevel, muster, recorded, fetched,
                 half, certificate>>

(* Home's step 3 taken back: its files as they were, and a restart. *)
HomeRollsBack ==
  /\ homeFiles.prev = NoKey /\ routerRun.prev # NoKey /\ routerRun.cur = homeFiles.cur
  /\ routerFiles = routerRun
  /\ homeFiles' = Files(routerRun.prev, routerRun.cur)
  /\ homeRun' = homeFiles'
  /\ UNCHANGED <<routerFiles, routerRun, homeLevel, routerLevel, muster, recorded, fetched,
                 half, certificate>>

(* Step 4: the old key is dropped at the router and from muster's answer. *)
RouterDropsOld ==
  /\ homeRun = Files(routerRun.cur, NoKey) /\ homeFiles = homeRun
  /\ routerFiles.cur = routerRun.cur
  /\ muster.keys.cur = routerRun.cur /\ fetched = NotRefreshing
  /\ routerFiles' = Files(routerRun.cur, NoKey)
  /\ routerRun' = routerFiles'
  /\ muster' = [keys |-> Files(routerRun.cur, NoKey), sound |-> TRUE]
  /\ UNCHANGED <<homeFiles, homeRun, homeLevel, routerLevel, recorded, fetched, half,
                 certificate>>

-----------------------------------------------------------------------------
(* refresh: prove possession, fetch, refuse anything unsound, and write the current key,
   then the previous one, then the record. *)

(* datapath_keys: a previous key equal to the current one, a placeholder or a bad line
   refuses the whole answer. *)
Sound(m) == m.sound

UpToDate == recorded = muster.keys.cur /\ routerFiles.cur = muster.keys.cur

RefreshWritesCurrent ==
  /\ fetched = NotRefreshing
  /\ certificate.left > 0
  /\ Sound(muster) /\ ~ UpToDate
  /\ routerFiles' = [routerFiles EXCEPT !.cur = muster.keys.cur]
  /\ half' = [half EXCEPT !.disk = TRUE]
  /\ fetched' = [at |-> "previous", keys |-> muster.keys]
  /\ UNCHANGED <<homeFiles, homeRun, routerRun, homeLevel, routerLevel, muster, recorded,
                 certificate>>

RefreshWritesPrevious ==
  /\ fetched.at = "previous"
  /\ routerFiles' = [routerFiles EXCEPT !.prev = IF fetched.keys.prev = NoKey THEN @
                                                 ELSE fetched.keys.prev]
  /\ half' = [half EXCEPT !.disk = FALSE]
  /\ fetched' = [fetched EXCEPT !.at = "record"]
  /\ UNCHANGED <<homeFiles, homeRun, routerRun, homeLevel, routerLevel, muster, recorded,
                 certificate>>

RefreshRecords ==
  /\ fetched.at = "record"
  /\ recorded' = fetched.keys.cur
  /\ fetched' = NotRefreshing
  /\ UNCHANGED <<homeFiles, routerFiles, homeRun, routerRun, homeLevel, routerLevel, muster,
                 half, certificate>>

(* A full flash or a power cut ends the refresh between two writes; a power cut restarts
   the agent as well. *)
RefreshDies(power) ==
  /\ fetched # NotRefreshing
  /\ fetched' = NotRefreshing
  /\ IF power THEN RouterLoads ELSE UNCHANGED <<routerRun, half>>
  /\ UNCHANGED <<homeFiles, routerFiles, homeRun, homeLevel, routerLevel, muster, recorded,
                 certificate>>

(* renew: a fresh certificate is installed only if it is for this router's own key, and
   an expired one can no longer ask. *)
InstallsAnything(ours) == TRUE
Installs(ours) == ours

Renew(ours) ==
  /\ certificate.left \in 1..(CertDays - 1)
  /\ Installs(ours)
  /\ certificate' = [left |-> CertDays, ours |-> ours]
  /\ UNCHANGED <<homeFiles, routerFiles, homeRun, routerRun, homeLevel, routerLevel, muster,
                 recorded, fetched, half>>

CertificateAges ==
  /\ certificate.left > 0
  /\ certificate' = [certificate EXCEPT !.left = @ - 1]
  /\ UNCHANGED <<homeFiles, routerFiles, homeRun, routerRun, homeLevel, routerLevel, muster,
                 recorded, fetched, half>>

RotationNext ==
  \/ \E level \in Levels : HomeRung(level) \/ RouterRung(level)
  \/ HomeRestarts \/ RouterRestarts
  \/ HomeAcceptsNew \/ MusterCorrected \/ HomeSignsNew \/ HomeRollsBack \/ RouterDropsOld
  \/ RefreshWritesCurrent \/ RefreshWritesPrevious \/ RefreshRecords
  \/ \E yes \in BOOLEAN : MusterServesNew(yes) \/ RefreshDies(yes) \/ Renew(yes)
  \/ CertificateAges

RotationSpec == RotationInit /\ [][RotationNext]_rotationVars

-----------------------------------------------------------------------------
(* Key sets, rungs and the certificate keep their shapes; the certificate installed is
   always for this router's own key. *)
RotationTypeOK ==
  /\ {homeFiles, routerFiles, homeRun, routerRun} \subseteq [cur : Keys, prev : Keys \union {NoKey}]
  /\ {homeLevel, routerLevel} \subseteq Levels
  /\ recorded \in Keys
  /\ certificate.left \in 0..CertDays /\ certificate.ours

(* Each end accepts what the other one sends. *)
Talking ==
  /\ VerifyMac(homeRun, homeLevel, PackAuth(routerRun, routerLevel)) # "dropped"
  /\ VerifyMac(routerRun, routerLevel, PackAuth(homeRun, homeLevel)) # "dropped"

(* The bond never goes dark during a climb, a descent or a rotation performed in the order
   auth.py gives, whichever end restarts when and whatever muster serves, as long as the
   router did not start from files a refresh had half written. *)
RolloutKeepsTheBond == ~ half.run => Talking
=============================================================================
