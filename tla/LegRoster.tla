------------------------------ MODULE LegRoster ------------------------------
(***************************************************************************)
(* Which legs exist and what their configuration says (leg_roster.py,      *)
(* dynamic.py, LegStore of store.py): configured legs, phones that         *)
(* announce themselves under a lease, and the operator's overrides of      *)
(* legs.json.  Three writers meet here: the control pass, which reconciles *)
(* announcements and applies overrides in two steps, the announce handler, *)
(* and a PUT whose read and write of legs.json are two steps of another    *)
(* console thread.                                                         *)
(***************************************************************************)
EXTENDS Integers, Sequences, FiniteSets, SequencesExt

CONSTANTS Fixed,          \* the legs of zippie.toml
          Phones,         \* the names that may announce themselves
          Announcements,  \* what a phone may say: [tier, label, host], tier 0 when not stated
          Edits,          \* what a PUT may say: [leg, field, value], value 0 to clear
          BaseTier,       \* the tier zippie.toml gives every configured leg
          LeaseTicks      \* how many ticks a lease lasts

VARIABLES lease,      \* DynamicLegs: ticks left of each phone's lease, 0 when it has none
          said,       \* DynamicLegs: what each phone last announced
          joined,     \* dynamic_paths: the phones that are legs now
          legConf,    \* PathConfig of each leg: tier, label, relay endpoint
          legIface,   \* path.interface is bound
          legDown,    \* path.state is DOWN
          station,    \* the radio of a configured leg is associated to a named network
          autoLabel,  \* path.auto_label is set
          legsFile,   \* legs.json; Spoilt when it cannot be parsed
          passAt,     \* where the control pass is
          put,        \* the PUT in progress: its edit and the file as it read it
          clean, quiet  \* history: nothing changed in this pass; passes since something did

rosterVars == <<lease, said, joined, legConf, legIface, legDown, station, autoLabel,
                legsFile, passAt, put, clean, quiet>>

RosterLegs == Fixed \union Phones
Fields == {"tier", "label"}
NoEntry == [l \in RosterLegs |-> [f \in Fields |-> 0]]
Spoilt == [unreadable |-> TRUE]
NoPut == [leg |-> "none"]
Unstated == 0

(* LegStore.load: a file that cannot be parsed reads as no overrides at all. *)
Overrides == IF legsFile = Spoilt THEN NoEntry ELSE legsFile

(* An announced leg is none of zippie.toml; tiers and names count from 1, 0 is none given. *)
ASSUME RosterAssumption ==
  /\ Fixed \intersect Phones = {}
  /\ BaseTier \in Nat \ {0} /\ LeaseTicks \in Nat
  /\ Announcements # {} /\ \A a \in Announcements : a.tier \in Nat /\ a.label \in Nat \ {0}
  /\ \A e \in Edits : e.field \in Fields /\ e.value \in Nat

BaselineOf(f) == IF f = "tier" THEN BaseTier ELSE 1

RosterInit ==
  /\ lease = [p \in Phones |-> 0]
  /\ said \in [Phones -> {CHOOSE a \in Announcements : TRUE}]
  /\ joined = {}
  /\ legConf = [l \in RosterLegs |-> [tier |-> BaseTier, label |-> 1, host |-> 1]]
  /\ legIface = [l \in RosterLegs |-> FALSE]
  /\ legDown = [l \in RosterLegs |-> FALSE]
  /\ station = [l \in Fixed |-> FALSE]
  /\ autoLabel = [l \in Fixed |-> FALSE]
  /\ legsFile = NoEntry
  /\ passAt = "idle"
  /\ put = NoPut
  /\ clean = FALSE /\ quiet = 0

(* Some input of the roster changed. *)
Changed == clean' = FALSE /\ quiet' = 0

-----------------------------------------------------------------------------
(* The phone: announce, withdraw, or simply stop. *)

Announce(p, a) ==
  /\ said' = [said EXCEPT ![p] = a]
  /\ lease' = [lease EXCEPT ![p] = LeaseTicks]
  /\ IF lease[p] > 0 /\ said[p] = a THEN UNCHANGED <<clean, quiet>> ELSE Changed
  /\ UNCHANGED <<joined, legConf, legIface, legDown, station, autoLabel, legsFile, passAt, put>>

WithdrawLeg(p) ==
  /\ lease[p] > 0
  /\ lease' = [lease EXCEPT ![p] = 0]
  /\ Changed
  /\ UNCHANGED <<said, joined, legConf, legIface, legDown, station, autoLabel, legsFile, passAt, put>>

LeasesRunDown ==
  /\ passAt = "idle"
  /\ \E p \in Phones : lease[p] > 0
  /\ lease' = [p \in Phones |-> IF lease[p] > 0 THEN lease[p] - 1 ELSE 0]
  /\ IF \E p \in Phones : lease[p] = 1 THEN Changed ELSE UNCHANGED <<clean, quiet>>
  /\ UNCHANGED <<said, joined, legConf, legIface, legDown, station, autoLabel, legsFile, passAt, put>>

-----------------------------------------------------------------------------
(* The control pass. *)

(* _joinable_tier: the lowest tier of the other legs that are alive, or failing that of
   those that have an interface; tier 1 when there is nothing to join. *)
LowestTier(conf, others) ==
  LET alive == {l \in others : ~ legDown[l]}
      pool == IF alive = {} THEN others ELSE alive
  IN  IF pool = {} THEN 1
      ELSE CHOOSE t \in {conf[l].tier : l \in pool} : \A l \in pool : t <= conf[l].tier

JoinableTierWithSelf(conf, present, name) ==
  LowestTier(conf, {l \in Fixed \union present : legIface[l]})

JoinableTier(conf, present, name) ==
  LowestTier(conf, {l \in Fixed \union present : l # name /\ legIface[l]})

TierOf(conf, present, p) ==
  IF said[p].tier # Unstated THEN said[p].tier ELSE JoinableTier(conf, present, p)

Operated(p, f) == Overrides[p][f] # 0

(* A phone's first announcement makes the leg; a later one moves its endpoint, its label
   unless the operator named it, and its tier only if it did not state one. *)
Born(conf, present, p) ==
  [conf EXCEPT ![p] = [tier  |-> TierOf(conf, present, p),
                       label |-> IF Operated(p, "label") THEN Overrides[p].label ELSE said[p].label,
                       host  |-> said[p].host]]

Renew(conf, present, p) ==
  [conf EXCEPT ![p] = [tier  |-> IF said[p].tier # Unstated THEN @.tier
                                 ELSE TierOf(conf, present, p),
                       label |-> IF Operated(p, "label") THEN @.label ELSE said[p].label,
                       host  |-> said[p].host]]

SettleRoster(acc, p) ==
  IF p \in acc.present THEN [acc EXCEPT !.conf = Renew(acc.conf, acc.present, p)]
  ELSE [conf |-> Born(acc.conf, acc.present, p), present |-> acc.present \union {p}]

Lapsed == {p \in joined : lease[p] = 0}

ReconcileDynamic ==
  /\ passAt = "idle"
  /\ \E order \in SetToSeqs({p \in Phones : lease[p] > 0}) :
       LET out == FoldLeft(SettleRoster, [conf |-> legConf, present |-> joined \ Lapsed], order)
       IN  legConf' = out.conf /\ joined' = out.present
  /\ legIface' = [l \in RosterLegs |-> legIface[l] /\ (l \in Fixed \/ l \in joined')]
  /\ clean' = TRUE
  /\ passAt' = "overrides"
  /\ UNCHANGED <<lease, said, legDown, station, autoLabel, legsFile, put, quiet>>

(* _restore_field and _override_field; an announced leg has no baseline to go back to. *)
Restored(l, f, now) == IF l \in Fixed THEN BaselineOf(f) ELSE now

FieldValue(o, l, f, now) == IF o[l][f] # 0 THEN o[l][f] ELSE Restored(l, f, now)

Overridden(o, conf) ==
  [l \in RosterLegs |->
     IF l \in Fixed \union joined
     THEN [conf[l] EXCEPT !.tier = FieldValue(o, l, "tier", @), !.label = FieldValue(o, l, "label", @)]
     ELSE conf[l]]

(* apply_auto_labels: a configured leg whose radio is associated names itself after the
   network, unless the operator named it. *)
AutoLabels(o) == [l \in Fixed |-> station[l] /\ legIface[l] /\ o[l].label = 0]

ApplyOverrides ==
  /\ passAt = "overrides"
  /\ legConf' = Overridden(Overrides, legConf)
  /\ passAt' = "match"
  /\ UNCHANGED <<lease, said, joined, legIface, legDown, station, autoLabel, legsFile, put, clean, quiet>>

(* match, the labels and the probes: an announced leg always finds br-lan, a configured one
   its link and its radio's network if they are there, and a probe finds each leg alive
   or not. *)
MatchAndProbe(found, assoc, dead) ==
  /\ passAt = "match"
  /\ legIface' = [l \in RosterLegs |-> l \in joined \union found]
  /\ station' = [l \in Fixed |-> l \in assoc]
  /\ legDown' = [l \in RosterLegs |-> l \in dead]
  /\ autoLabel' = [l \in Fixed |-> l \in assoc /\ legIface'[l] /\ Overrides[l].label = 0]
  /\ quiet' = IF clean /\ <<legIface, legDown>>' = <<legIface, legDown>>
              THEN IF quiet < 2 THEN quiet + 1 ELSE 2
              ELSE 0
  /\ passAt' = "idle"
  /\ UNCHANGED <<lease, said, joined, legConf, legsFile, put, clean>>

-----------------------------------------------------------------------------
(* set_leg_fields on a console thread: read legs.json, merge, save, then apply at once. *)

Known(l) == l \in Fixed \union joined

PutReads(e) ==
  /\ put = NoPut /\ Known(e.leg)
  /\ put' = [leg |-> e.leg, edit |-> e, read |-> Overrides]
  /\ UNCHANGED <<lease, said, joined, legConf, legIface, legDown, station, autoLabel,
                 legsFile, passAt, clean, quiet>>

PutSaves ==
  /\ put # NoPut
  /\ LET merged == [put.read EXCEPT ![put.leg][put.edit.field] = put.edit.value]
     IN  /\ legsFile' = merged
         /\ legConf' = Overridden(merged, legConf)
         /\ autoLabel' = AutoLabels(merged)
  /\ put' = NoPut
  /\ Changed
  /\ UNCHANGED <<lease, said, joined, legIface, legDown, station, passAt>>

(* A hand edit of legs.json leaves it unreadable. *)
FileSpoilt ==
  /\ legsFile # Spoilt
  /\ legsFile' = Spoilt
  /\ Changed
  /\ UNCHANGED <<lease, said, joined, legConf, legIface, legDown, station, autoLabel, passAt, put>>

RosterNext ==
  \/ \E p \in Phones, a \in Announcements : Announce(p, a)
  \/ \E p \in Phones : WithdrawLeg(p)
  \/ LeasesRunDown
  \/ ReconcileDynamic \/ ApplyOverrides
  \/ \E found, assoc \in SUBSET Fixed, dead \in SUBSET (Fixed \union joined) :
       MatchAndProbe(found, assoc, dead)
  \/ \E e \in Edits : PutReads(e)
  \/ PutSaves \/ FileSpoilt

RosterSpec == RosterInit /\ [][RosterNext]_rosterVars

-----------------------------------------------------------------------------
(* Properties. *)

(* Leases, leg configurations and legs.json keep their shapes. *)
RosterTypeOK ==
  /\ lease \in [Phones -> 0..LeaseTicks]
  /\ said \in [Phones -> Announcements]
  /\ joined \subseteq Phones
  /\ \A l \in RosterLegs : legConf[l].tier \in Nat \ {0} /\ legConf[l].label \in Nat \ {0}
  /\ autoLabel \in [Fixed -> BOOLEAN]
  /\ passAt \in {"idle", "overrides", "match"}

(* Two passes after the last change of anything the roster reads. *)
Settled == quiet = 2 /\ passAt = "idle"

(* A field the operator set has the operator's value; one nobody set has the value of
   zippie.toml, or for an announced leg the label it announced. *)
InForce(l, f) ==
  LET o == Overrides[l][f]
  IN  /\ o # 0 => legConf[l][f] = o
      /\ o = 0 /\ l \in Fixed => legConf[l][f] = BaselineOf(f)
      /\ o = 0 /\ l \in joined /\ f = "label" => legConf[l].label = said[l].label

(* The silent phones: present, no tier stated, none given by the operator. *)
Silent == {p \in joined : said[p].tier = Unstated /\ Overrides[p].tier = 0}
(* p is the only announced leg that stated no tier, whether the operator gave it one or not. *)
Alone(p) == \A q \in joined : said[q].tier = Unstated => q = p
Anchors == {l \in (Fixed \union joined) \ Silent : legIface[l] /\ ~ legDown[l]}
WithTheBond(p) == Anchors # {} => legConf[p].tier = LowestTier(legConf, Anchors)

(* Two passes after the last change of anything it reads, the roster is settled, in
   whatever order announcements, PUTs and the steps of the pass interleaved: the announced
   legs are exactly the leased phones, at the endpoint they announced; every field has the
   value its last writer in precedence gave it; a radio's own name is used only where the
   operator gave none; and a phone that alone states no tier is in the tier of the bond. *)
RosterSettles ==
  Settled =>
    /\ joined = {p \in Phones : lease[p] > 0}
    /\ \A l \in Fixed \union joined, f \in Fields : InForce(l, f)
    /\ \A p \in joined : legConf[p].host = said[p].host
    /\ \A l \in Fixed : autoLabel[l] => Overrides[l].label = 0
    /\ \A p \in Silent : Alone(p) => WithTheBond(p)

(* Every announced leg that stated no tier follows the bond and does not latch. *)
FollowsTheBond == Settled => \A p \in Silent : WithTheBond(p)
=============================================================================
