--------------------------- MODULE HomeLegsProofs ---------------------------
(***************************************************************************)
(* Proofs about the logical links that home keeps of travel's legs         *)
(* (HomeLegs): for any number of legs, every interval and age, and every   *)
(* bound on the probes that are remembered.                                *)
(***************************************************************************)
EXTENDS HomeLegs, SequenceTheorems, TLAPS

\* _KA_OUTSTANDING_MAX probes take at least HOME_STANDDOWN_S to send: as deployed, 8 probes
\* in intervals of 2 s, and 6 s.
ListOutlastsStanddown == StanddownAge <= (MaxOutstanding - 1) * ProbeInterval

\* The probes of a link are at least an interval apart, as far as their ages tell, and the
\* last is as old as the last round of probes.
Spaced(probes) ==
    \A i \in 1 .. Len(probes) :
        \/ probes[i].age >= StanddownAge
        \/ probes[i].age >= probe_age + (Len(probes) - i) * ProbeInterval

\* The probes of one link: a list of probes within its bound.
ListOK(probes) == probes \in Seq(Probes) /\ Len(probes) <= MaxOutstanding

\* Which links there are and whom they send to.
LinksOK ==
    /\ links \subseteq Paths /\ heard \subseteq links
    /\ remote \in [Paths -> Legs \cup {NoAddress}]
    /\ rx_age \in [Paths -> 0 .. SilentAge]
OwnRemote == \A l \in Legs \ {Listener} : remote[l] \in {l, NoAddress}
OwnProbes(p) ==
    p \in Legs \ {Listener} => \A i \in 1 .. Len(outstanding[p]) : outstanding[p][i].at \in {p, NoAddress}

LegsInv ==
    /\ LinksOK /\ OwnRemote /\ healthy \in [Paths -> BOOLEAN]
    /\ outstanding \in [Paths -> Seq(Probes)]
    /\ \A p \in Paths : ListOK(outstanding[p]) /\ OwnProbes(p) /\ Spaced(outstanding[p])
    /\ probe_age \in 0 .. ProbeInterval /\ answered \in BOOLEAN
    /\ state \in [Legs -> States]

-----------------------------------------------------------------------------
\* What the operators of the model return.

LEMMA TimesAre ==
    /\ ProbeInterval \in Nat /\ StanddownAge \in Nat /\ SilentAge \in Nat
    /\ StanddownCount \in Nat /\ StanddownCount >= 1
    /\ MaxOutstanding \in Nat /\ StanddownCount <= MaxOutstanding
BY TimesAssumption

\* One interval more.
LEMMA OneMore == \A k, c \in Nat : k * c \in Nat /\ (k + 1) * c = c + k * c
OBVIOUS

LEMMA AgedStays ==
    ASSUME NEW limit \in Nat, NEW age \in 0 .. limit
    PROVE  Aged(age, limit) \in 0 .. limit /\ Aged(age, limit) >= age
BY DEF Aged

\* A probe more, the oldest being forgotten when there are too many.
LEMMA NewestAre ==
    ASSUME NEW probes \in Seq(Probes), Len(probes) <= MaxOutstanding, NEW new \in Probes
    PROVE  LET after == Newest(Append(probes, new))
               gone == IF Len(probes) = MaxOutstanding THEN 1 ELSE 0
           IN  /\ after \in Seq(Probes) /\ Len(after) = Len(probes) + 1 - gone
               /\ Len(after) <= MaxOutstanding
               /\ \A i \in 1 .. Len(after) :
                     after[i] = IF i + gone <= Len(probes) THEN probes[i + gone] ELSE new
<1> DEFINE all == Append(probes, new)
<1>1. /\ all \in Seq(Probes) /\ Len(all) = Len(probes) + 1 /\ Len(probes) \in Nat
      /\ \A i \in 1 .. Len(all) : all[i] = IF i <= Len(probes) THEN probes[i] ELSE new
    BY AppendProperties, LenProperties
<1> HIDE DEF all
<1>2. CASE Len(probes) = MaxOutstanding
  <2>1. all # << >>
      BY <1>1, EmptySeq
  <2>2. /\ Tail(all) \in Seq(Probes) /\ Len(Tail(all)) = Len(probes)
        /\ \A i \in 1 .. Len(probes) : Tail(all)[i] = all[i + 1]
      BY <1>1, <2>1, HeadTailProperties
  <2>3. Newest(all) = Tail(all)
      BY <1>1, <1>2, TimesAre DEF Newest
  <2> QED
      BY <1>1, <1>2, <2>2, <2>3, TimesAre DEF all
<1>3. CASE Len(probes) # MaxOutstanding
  <2>1. Newest(all) = all
      BY <1>1, <1>3, TimesAre DEF Newest
  <2> QED
      BY <1>1, <1>3, <2>1, TimesAre DEF all
<1> QED
    BY <1>2, <1>3

\* The probes after the i-th.
LEMMA AfterAnswer ==
    ASSUME NEW probes \in Seq(Probes), NEW i \in 1 .. Len(probes)
    PROVE  LET after == SubSeq(probes, i + 1, Len(probes))
           IN  /\ after \in Seq(Probes) /\ Len(after) = Len(probes) - i
               /\ \A j \in 1 .. Len(after) : j + i \in 1 .. Len(probes) /\ after[j] = probes[j + i]
<1>1. Len(probes) \in Nat /\ i \in Nat /\ i + 1 \in 1 .. Len(probes) + 1 /\ Len(probes) \in i .. Len(probes)
    BY LenProperties
<1> DEFINE after == SubSeq(probes, i + 1, Len(probes))
<1>2. after \in Seq(Probes) /\ Len(after) = Len(probes) - i
    BY <1>1, SubSeqProperties
<1>3. \A j \in 1 .. Len(after) : after[j] = probes[j + i]
    BY <1>1, <1>2, SubSeqProperties
<1> QED
    BY <1>1, <1>2, <1>3

\* What a round of probes makes of the list of one link.
LEMMA ProbedAre ==
    ASSUME LegsInv, NEW p \in Paths
    PROVE  \/ Probed(p) = outstanding[p]
           \/ \E new \in Probes : /\ new.age = 0 /\ new.at \in {remote[p], NoAddress}
                                  /\ Probed(p) = Newest(Append(outstanding[p], new))
<1> DEFINE new == [age |-> 0, at |-> Reaches(p)]
<1>1. Reaches(p) \in {remote[p], NoAddress} /\ Reaches(p) \in Legs \cup {NoAddress}
    BY DEF Reaches, LegsInv, LinksOK
<1>2. new \in Probes /\ new.age = 0 /\ new.at = Reaches(p)
    BY <1>1, TimesAre DEF Probes
<1> HIDE DEF new
<1>3. CASE p \in heard /\ ~ Fails(p)
  <2>1. Probed(p) = Newest(Append(outstanding[p], new))
      BY <1>3 DEF Probed, new
  <2> QED
      BY <1>1, <1>2, <2>1
<1>4. CASE ~ (p \in heard /\ ~ Fails(p))
    BY <1>4 DEF Probed
<1> QED
    BY <1>3, <1>4

\* All probes a unit of time older.
Older(probes) == [i \in DOMAIN probes |-> [probes[i] EXCEPT !.age = Aged(@, StanddownAge)]]

LEMMA OlderAre ==
    ASSUME NEW probes \in Seq(Probes)
    PROVE  /\ Older(probes) \in Seq(Probes) /\ Len(Older(probes)) = Len(probes)
           /\ \A i \in 1 .. Len(probes) : /\ Older(probes)[i].age = Aged(probes[i].age, StanddownAge)
                                          /\ Older(probes)[i].at = probes[i].at
<1>1. DOMAIN probes = 1 .. Len(probes) /\ Len(probes) \in Nat
    BY LenProperties
<1>2. ASSUME NEW i \in 1 .. Len(probes)
      PROVE  /\ Older(probes)[i] \in Probes
             /\ Older(probes)[i].age = Aged(probes[i].age, StanddownAge)
             /\ Older(probes)[i].at = probes[i].at
  <2>1. probes[i] \in Probes
      BY <1>1, ElementOfSeq
  <2>2. Older(probes)[i] = [probes[i] EXCEPT !.age = Aged(probes[i].age, StanddownAge)]
      BY <1>1 DEF Older
  <2>3. Aged(probes[i].age, StanddownAge) \in 0 .. StanddownAge
      BY <2>1, AgedStays, TimesAre DEF Probes
  <2> QED
      BY <2>1, <2>2, <2>3 DEF Probes
<1>3. DOMAIN Older(probes) = 1 .. Len(probes)
    BY <1>1 DEF Older
<1>4. Older(probes) \in [1 .. Len(probes) -> Probes]
    BY <1>1, <1>2 DEF Older
<1>5. Older(probes) \in Seq(Probes) /\ Len(Older(probes)) = Len(probes)
    BY <1>1, <1>3, <1>4, LenProperties
<1> QED
    BY <1>2, <1>5

-----------------------------------------------------------------------------
\* What the steps keep.

LEMMA LegsInitInv == Init => LegsInv
<1> SUFFICES ASSUME Init PROVE LegsInv
    OBVIOUS
<1>1. << >> \in Seq(Probes) /\ Len(<< >>) = 0
    BY EmptySeq
<1>2. Legs \subseteq Paths /\ Listener \in Paths
    BY DEF Paths
<1>3. \A p \in Paths : outstanding[p] = << >> /\ remote[p] = NoAddress
    BY DEF Init
<1>4. \A p \in Paths : ListOK(outstanding[p]) /\ OwnProbes(p) /\ Spaced(outstanding[p])
  <2>1. \A i \in 1 .. Len(<< >>) : FALSE
      BY <1>1
  <2>2. ListOK(<< >>)
      BY <1>1, TimesAre DEF ListOK
  <2> QED
      BY <1>3, <2>1, <2>2 DEF OwnProbes, Spaced
<1>5. outstanding \in [Paths -> Seq(Probes)]
    BY <1>1 DEF Init
<1>6. LinksOK /\ OwnRemote
    BY <1>2, <1>3, TimesAre DEF Init, LinksOK, OwnRemote
<1>7. healthy \in [Paths -> BOOLEAN]
    BY DEF Init
<1>8. probe_age \in 0 .. ProbeInterval
    BY TimesAre DEF Init
<1>9. answered \in BOOLEAN /\ state \in [Legs -> States]
    BY DEF Init
<1> QED
    BY <1>4, <1>5, <1>6, <1>7, <1>8, <1>9 DEF LegsInv

\* A frame credits the link of the leg it came from, or the listener's.
LEMMA CreditKeeps ==
    ASSUME LinksOK, OwnRemote, NEW l \in Legs, NEW p \in {l, Listener}, Credit(p, l)
    PROVE  LinksOK' /\ OwnRemote'
<1>1. p \in Paths /\ Legs \subseteq Paths
    BY DEF Paths
<1>2. LinksOK'
    BY <1>1, TimesAre DEF LinksOK, Credit
<1>3. ASSUME NEW m \in Legs \ {Listener} PROVE remote'[m] \in {m, NoAddress}
    BY <1>1, <1>3 DEF Credit, LinksOK, OwnRemote
<1> QED
    BY <1>2, <1>3 DEF OwnRemote

\* A step that leaves the probes and the world alone.
LEMMA ProbesAloneKeep ==
    ASSUME LegsInv, LinksOK', OwnRemote', healthy' \in [Paths -> BOOLEAN],
           UNCHANGED probeVars, state' \in [Legs -> States]
    PROVE  LegsInv'
<1>1. \A p \in Paths : ListOK(outstanding[p])' /\ OwnProbes(p)' /\ Spaced(outstanding[p])'
    BY DEF LegsInv, probeVars, ListOK, OwnProbes, Spaced
<1>2. outstanding' \in [Paths -> Seq(Probes)] /\ probe_age' \in 0 .. ProbeInterval /\ answered' \in BOOLEAN
    BY DEF LegsInv, probeVars
<1> QED
    BY <1>1, <1>2 DEF LegsInv

LEMMA HearKeeps ==
    ASSUME LegsInv, NEW l \in Legs, HearData(l) \/ HearProbe(l) \/ HearNack(l)
    PROVE  LegsInv'
<1>1. LinksOK /\ OwnRemote /\ healthy \in [Paths -> BOOLEAN] /\ state \in [Legs -> States]
    BY DEF LegsInv
<1>2. l \in Paths /\ Listener \in Paths
    BY DEF Paths
<1>3. PICK p \in {l, Listener}, b \in BOOLEAN :
        Credit(p, l) /\ healthy' = [healthy EXCEPT ![p] = b] /\ UNCHANGED <<probeVars, state>>
  <2>1. CASE HearData(l)
      BY <1>1, <1>2, <2>1 DEF HearData, Believes
  <2>2. CASE HearProbe(l)
      BY <1>1, <1>2, <2>2 DEF HearProbe, Believes
  <2>3. CASE HearNack(l)
      BY <1>1, <1>2, <2>3 DEF HearNack, Believes
  <2> QED
      BY <2>1, <2>2, <2>3
<1>4. LinksOK' /\ OwnRemote'
    BY <1>1, <1>3, CreditKeeps
<1>5. healthy' \in [Paths -> BOOLEAN]
    BY <1>1, <1>3
<1> QED
    BY <1>1, <1>3, <1>4, <1>5, ProbesAloneKeep

LEMMA SendFailsKeeps ==
    ASSUME LegsInv, NEW p \in Paths, SendFails(p) PROVE LegsInv'
<1>1. LinksOK /\ OwnRemote /\ healthy \in [Paths -> BOOLEAN] /\ state \in [Legs -> States]
    BY DEF LegsInv
<1>2. LinksOK' /\ OwnRemote'
    BY <1>1 DEF SendFails, linkVars, LinksOK, OwnRemote
<1>3. healthy' \in [Paths -> BOOLEAN] /\ UNCHANGED probeVars /\ state' \in [Legs -> States]
    BY <1>1 DEF SendFails
<1> QED
    BY <1>2, <1>3, ProbesAloneKeep

LEMMA ChangeKeeps ==
    ASSUME LegsInv, NEW l \in Legs, NEW s \in States, Change(l, s) PROVE LegsInv'
<1>1. LinksOK /\ OwnRemote /\ healthy \in [Paths -> BOOLEAN] /\ state \in [Legs -> States]
    BY DEF LegsInv
<1>2. LinksOK' /\ OwnRemote'
    BY <1>1 DEF Change, linkVars, LinksOK, OwnRemote
<1>3. healthy' \in [Paths -> BOOLEAN] /\ UNCHANGED probeVars /\ state' \in [Legs -> States]
    BY <1>1 DEF Change
<1> QED
    BY <1>2, <1>3, ProbesAloneKeep

\* An answer, to a probe of the link or under another link's id.
LEMMA HearReplyKeeps ==
    ASSUME LegsInv, NEW p \in Paths, NEW i, HearReply(p, i) PROVE LegsInv'
<1> DEFINE l == outstanding[p][i].at
<1>1. /\ outstanding[p] \in Seq(Probes) /\ ListOK(outstanding[p]) /\ Len(outstanding[p]) \in Nat
      /\ DOMAIN outstanding[p] = 1 .. Len(outstanding[p])
    BY LenProperties DEF LegsInv
<1>2. i \in 1 .. Len(outstanding[p]) /\ l # NoAddress
    BY <1>1 DEF HearReply
<1>3. outstanding[p][i] \in Probes
    BY <1>1, <1>2, ElementOfSeq
<1>4. l \in Legs /\ l \in Paths
    BY <1>2, <1>3 DEF Probes, Paths
<1>5. Credit(l, l) /\ UNCHANGED <<probe_age, state>>
    BY DEF HearReply
<1>6. LinksOK' /\ OwnRemote'
    BY <1>4, <1>5, CreditKeeps DEF LegsInv
<1>7. CASE l = p
  <2> DEFINE after == SubSeq(outstanding[p], i + 1, Len(outstanding[p]))
  <2>1. outstanding' = [outstanding EXCEPT ![p] = after] /\ answered' = TRUE
        /\ healthy' = [healthy EXCEPT ![p] = TRUE]
      BY <1>7 DEF HearReply
  <2>2. /\ after \in Seq(Probes) /\ Len(after) = Len(outstanding[p]) - i
        /\ \A j \in 1 .. Len(after) :
              j + i \in 1 .. Len(outstanding[p]) /\ after[j] = outstanding[p][j + i]
      BY <1>1, <1>2, AfterAnswer
  <2> HIDE DEF after
  <2>3. outstanding'[p] = after /\ \A q \in Paths \ {p} : outstanding'[q] = outstanding[q]
      BY <2>1 DEF LegsInv
  <2>4. outstanding' \in [Paths -> Seq(Probes)]
      BY <2>1, <2>2 DEF LegsInv
  <2>5. ListOK(outstanding[p])'
      BY <1>1, <1>2, <2>2, <2>3, TimesAre DEF ListOK
  <2>6. OwnProbes(p)'
      BY <2>2, <2>3 DEF LegsInv, OwnProbes
  <2>7. Spaced(outstanding[p])'
    <3>1. ASSUME NEW j \in 1 .. Len(after)
          PROVE  \/ after[j].age >= StanddownAge
                 \/ after[j].age >= probe_age + (Len(after) - j) * ProbeInterval
      <4>1. j + i \in 1 .. Len(outstanding[p]) /\ after[j] = outstanding[p][j + i]
          BY <2>2
      <4>2. Len(after) - j = Len(outstanding[p]) - (j + i)
          BY <1>1, <1>2, <2>2
      <4> QED
          BY <4>1, <4>2 DEF LegsInv, Spaced
    <3> QED
        BY <1>5, <2>3, <3>1 DEF Spaced
  <2>8. \A q \in Paths \ {p} : ListOK(outstanding[q])' /\ OwnProbes(q)' /\ Spaced(outstanding[q])'
      BY <1>5, <2>3 DEF LegsInv, ListOK, OwnProbes, Spaced
  <2>9. healthy' \in [Paths -> BOOLEAN] /\ answered' \in BOOLEAN
      BY <2>1 DEF LegsInv
  <2> QED
      BY <1>5, <1>6, <2>4, <2>5, <2>6, <2>7, <2>8, <2>9 DEF LegsInv
<1>8. CASE l # p
  <2>1. healthy' = [healthy EXCEPT ![l] = Believes(l)] /\ UNCHANGED <<outstanding, answered>>
      BY <1>8 DEF HearReply
  <2>2. healthy' \in [Paths -> BOOLEAN]
      BY <1>4, <2>1 DEF LegsInv, Believes
  <2>3. UNCHANGED probeVars /\ state' \in [Legs -> States]
      BY <1>5, <2>1 DEF probeVars, LegsInv
  <2> QED
      BY <1>6, <2>2, <2>3, ProbesAloneKeep
<1> QED
    BY <1>7, <1>8

\* A round of probes keeps a list in its bound, of its own leg and spaced.
LEMMA RoundKeeps ==
    ASSUME LegsInv, probe_age >= ProbeInterval, NEW p \in Paths,
           outstanding' \in [Paths -> Seq(Probes)], outstanding'[p] = Probed(p), probe_age' = 0
    PROVE  ListOK(outstanding[p])' /\ OwnProbes(p)' /\ Spaced(outstanding[p])'
<1> DEFINE old == outstanding[p]
           n == Len(outstanding[p])
<1>1. ListOK(old) /\ OwnProbes(p) /\ Spaced(old) /\ n \in Nat /\ probe_age = ProbeInterval
    BY LenProperties, TimesAre DEF LegsInv, ListOK
<1>2. CASE Probed(p) = old
  <2>1. ASSUME NEW i \in 1 .. n
        PROVE  \/ old[i].age >= StanddownAge
               \/ old[i].age >= 0 + (n - i) * ProbeInterval
    <3>1. old[i] \in Probes /\ n - i \in Nat
        BY <1>1, ElementOfSeq DEF ListOK
    <3>2. (n - i) * ProbeInterval \in Nat
        BY <3>1, OneMore, TimesAre
    <3> QED
        BY <1>1, <3>1, <3>2, TimesAre DEF Spaced, Probes
  <2> QED
      BY <1>1, <1>2, <2>1 DEF ListOK, OwnProbes, Spaced
<1>3. ASSUME NEW new \in Probes, new.age = 0, new.at \in {remote[p], NoAddress},
             Probed(p) = Newest(Append(old, new))
      PROVE  ListOK(outstanding[p])' /\ OwnProbes(p)' /\ Spaced(outstanding[p])'
  <2> DEFINE gone == IF n = MaxOutstanding THEN 1 ELSE 0
             after == Newest(Append(old, new))
  <2>1. /\ after \in Seq(Probes) /\ Len(after) = n + 1 - gone /\ Len(after) <= MaxOutstanding
        /\ \A i \in 1 .. Len(after) : after[i] = IF i + gone <= n THEN old[i + gone] ELSE new
      BY <1>1, NewestAre DEF ListOK
  <2>2. gone \in Nat /\ outstanding'[p] = after
      BY <1>3
  <2> HIDE DEF gone, after
  <2>3. OwnProbes(p)'
    <3>1. ASSUME p \in Legs \ {Listener}, NEW i \in 1 .. Len(after)
          PROVE  after[i].at \in {p, NoAddress}
      <4>1. CASE i + gone <= n
          BY <1>1, <2>1, <2>2, <3>1, <4>1 DEF OwnProbes
      <4>2. CASE ~ (i + gone <= n)
          BY <1>3, <2>1, <3>1, <4>2 DEF LegsInv, OwnRemote
      <4> QED
          BY <4>1, <4>2
    <3> QED
        BY <2>2, <3>1 DEF OwnProbes
  <2>4. Spaced(outstanding[p])'
    <3>1. ASSUME NEW i \in 1 .. Len(after)
          PROVE  \/ after[i].age >= StanddownAge
                 \/ after[i].age >= 0 + (Len(after) - i) * ProbeInterval
      <4>1. CASE i + gone <= n
        <5>1. /\ i + gone \in 1 .. n /\ after[i] = old[i + gone] /\ old[i + gone] \in Probes
              /\ n - (i + gone) \in Nat /\ Len(after) - i = n - (i + gone) + 1
          <6>1. Len(after) = n + 1 - gone /\ after[i] = old[i + gone]
              BY <2>1, <4>1
          <6>2. i \in Nat /\ i >= 1 /\ n \in Nat /\ gone \in Nat
              BY <1>1, <2>1, <2>2
          <6>3. i + gone \in 1 .. n /\ n - (i + gone) \in Nat /\ Len(after) - i = n - (i + gone) + 1
            <7>1. \A m, g, j, k \in Int :
                    k = m + 1 - g /\ j >= 1 /\ g >= 0 /\ j + g <= m =>
                        j + g \in 1 .. m /\ m - (j + g) \in Nat /\ k - j = m - (j + g) + 1
                OBVIOUS
            <7> QED
                BY <4>1, <6>1, <6>2, <7>1
          <6>4. old[i + gone] \in Probes
              BY <1>1, <6>3, ElementOfSeq DEF ListOK
          <6> QED
              BY <6>1, <6>3, <6>4
        <5>2. /\ (Len(after) - i) * ProbeInterval = ProbeInterval + (n - (i + gone)) * ProbeInterval
              /\ (n - (i + gone)) * ProbeInterval \in Nat
            BY <5>1, OneMore, TimesAre
        <5>3. \/ old[i + gone].age >= StanddownAge
              \/ old[i + gone].age >= ProbeInterval + (n - (i + gone)) * ProbeInterval
            BY <1>1, <5>1 DEF Spaced
        <5> QED
            BY <5>1, <5>2, <5>3, TimesAre
      <4>2. CASE ~ (i + gone <= n)
        <5>1. after[i] = new /\ i \in Nat /\ Len(after) = n + 1 - gone /\ n \in Nat /\ i <= Len(after)
            BY <1>1, <2>1, <2>2, <4>2
        <5>2. Len(after) - i = 0
          <6>1. \A k, m, g, j \in Int : k = m + 1 - g /\ j <= k /\ ~ (j + g <= m) => k - j = 0
              OBVIOUS
          <6>2. Len(after) \in Int /\ gone \in Int /\ n \in Int /\ i \in Int
              BY <2>2, <5>1
          <6> QED
              BY <4>2, <5>1, <6>1, <6>2
        <5>3. 0 + 0 * ProbeInterval = 0
            BY TimesAre
        <5> QED
            BY <1>3, <5>1, <5>2, <5>3
      <4> QED
          BY <4>1, <4>2
    <3> QED
        BY <2>2, <3>1 DEF Spaced
  <2> QED
      BY <2>1, <2>2, <2>3, <2>4 DEF ListOK
<1> QED
    BY <1>2, <1>3, ProbedAre

\* One pass of the loop.
LEMMA TickKeeps == ASSUME LegsInv, Tick PROVE LegsInv'
<1>1. LinksOK' /\ OwnRemote' /\ answered' \in BOOLEAN /\ state' \in [Legs -> States]
    BY DEF Tick, linkVars, LegsInv, LinksOK, OwnRemote
<1>2. healthy' \in [Paths -> BOOLEAN]
  <2>1. \A p \in Paths : healthy[p] \in BOOLEAN
      BY DEF LegsInv
  <2> QED
      BY <2>1 DEF Tick, TickWith
<1>3. outstanding' = [p \in Paths |-> IF probe_age >= ProbeInterval THEN Probed(p) ELSE outstanding[p]]
    BY DEF Tick, TickWith
<1>4. CASE probe_age >= ProbeInterval
  <2>1. probe_age' = 0 /\ \A p \in Paths : outstanding'[p] = Probed(p)
      BY <1>3, <1>4 DEF Tick
  <2>2. ASSUME NEW p \in Paths PROVE Probed(p) \in Seq(Probes)
    <3>1. outstanding[p] \in Seq(Probes) /\ Len(outstanding[p]) <= MaxOutstanding
        BY DEF LegsInv, ListOK
    <3>2. ASSUME NEW new \in Probes PROVE Newest(Append(outstanding[p], new)) \in Seq(Probes)
        BY <3>1, NewestAre
    <3> QED
        BY <3>1, <3>2, ProbedAre
  <2>3. outstanding' \in [Paths -> Seq(Probes)]
      BY <1>3, <1>4, <2>2
  <2>4. \A p \in Paths : ListOK(outstanding[p])' /\ OwnProbes(p)' /\ Spaced(outstanding[p])'
      BY <1>4, <2>1, <2>3, RoundKeeps
  <2>5. probe_age' \in 0 .. ProbeInterval
      BY <2>1, TimesAre
  <2> QED
      BY <1>1, <1>2, <2>3, <2>4, <2>5 DEF LegsInv
<1>5. CASE ~ (probe_age >= ProbeInterval)
  <2>1. probe_age' = probe_age /\ \A p \in Paths : outstanding'[p] = outstanding[p]
      BY <1>3, <1>5 DEF Tick
  <2>2. outstanding' \in [Paths -> Seq(Probes)] /\ probe_age' \in 0 .. ProbeInterval
      BY <1>3, <2>1 DEF LegsInv
  <2>3. \A p \in Paths : ListOK(outstanding[p])' /\ OwnProbes(p)' /\ Spaced(outstanding[p])'
      BY <2>1 DEF LegsInv, ListOK, OwnProbes, Spaced
  <2> QED
      BY <1>1, <1>2, <2>2, <2>3 DEF LegsInv
<1> QED
    BY <1>4, <1>5

\* Time passes for the probes and for the round alike.
LEMMA ClockStepKeeps == ASSUME LegsInv, ClockStep PROVE LegsInv'
<1>1. /\ UNCHANGED <<links, remote, heard, healthy, answered, state>>
      /\ rx_age' = [p \in Paths |-> Aged(rx_age[p], SilentAge)]
      /\ probe_age' = Aged(probe_age, ProbeInterval)
      /\ outstanding' = [p \in Paths |-> Older(outstanding[p])]
    BY DEF ClockStep, Older
<1>2. \A p \in Paths : outstanding[p] \in Seq(Probes) /\ ListOK(outstanding[p])
    BY DEF LegsInv
<1>3. \A p \in Paths : rx_age'[p] \in 0 .. SilentAge
    BY <1>1, AgedStays, TimesAre DEF LegsInv, LinksOK
<1>4. LinksOK' /\ OwnRemote'
    BY <1>1, <1>3 DEF LegsInv, LinksOK, OwnRemote
<1>5. outstanding' \in [Paths -> Seq(Probes)]
    BY <1>1, <1>2, OlderAre
<1>6. probe_age' \in 0 .. ProbeInterval /\ probe_age \in Nat
    BY <1>1, AgedStays, TimesAre DEF LegsInv
<1>7. ASSUME NEW p \in Paths
      PROVE  ListOK(outstanding[p])' /\ OwnProbes(p)' /\ Spaced(outstanding[p])'
  <2>1. /\ outstanding'[p] = Older(outstanding[p])
        /\ Older(outstanding[p]) \in Seq(Probes) /\ Len(Older(outstanding[p])) = Len(outstanding[p])
        /\ \A i \in 1 .. Len(outstanding[p]) :
              /\ Older(outstanding[p])[i].age = Aged(outstanding[p][i].age, StanddownAge)
              /\ Older(outstanding[p])[i].at = outstanding[p][i].at
      BY <1>1, <1>2, OlderAre
  <2>2. ListOK(outstanding[p])' /\ OwnProbes(p)'
      BY <1>2, <2>1 DEF LegsInv, ListOK, OwnProbes
  <2>3. ASSUME NEW i \in 1 .. Len(outstanding[p])
        PROVE  LET age == Older(outstanding[p])[i].age
               IN  \/ age >= StanddownAge
                   \/ age >= probe_age' + (Len(outstanding[p]) - i) * ProbeInterval
    <3> DEFINE age == outstanding[p][i].age
               rest == (Len(outstanding[p]) - i) * ProbeInterval
    <3>1. age \in 0 .. StanddownAge
      <4>1. outstanding[p][i] \in Probes
          BY <1>2, ElementOfSeq
      <4> QED
          BY <4>1 DEF Probes
    <3>2. rest \in Nat
      <4>1. Len(outstanding[p]) - i \in Nat
          BY <1>2, LenProperties
      <4> QED
          BY <4>1, OneMore, TimesAre
    <3>3. age >= StanddownAge \/ age >= probe_age + rest
        BY DEF LegsInv, Spaced
    <3>4. probe_age' <= probe_age + 1
        BY <1>1, <1>6, TimesAre DEF Aged
    <3>5. Older(outstanding[p])[i].age = Aged(age, StanddownAge)
        BY <2>1
    <3> HIDE DEF age, rest
    <3>6. Aged(age, StanddownAge) >= StanddownAge \/ Aged(age, StanddownAge) = age + 1
        BY <3>1, TimesAre DEF Aged
    <3>7. CASE age >= StanddownAge
        BY <3>1, <3>5, <3>7, AgedStays, TimesAre
    <3>8. CASE age >= probe_age + rest
        BY <1>6, <3>1, <3>2, <3>4, <3>5, <3>6, <3>8, TimesAre DEF rest
    <3> QED
        BY <3>3, <3>7, <3>8
  <2>4. Spaced(outstanding[p])'
      BY <2>1, <2>3 DEF Spaced
  <2> QED
      BY <2>2, <2>4
<1>8. healthy' \in [Paths -> BOOLEAN] /\ answered' \in BOOLEAN /\ state' \in [Legs -> States]
    BY <1>1 DEF LegsInv
<1> QED
    BY <1>4, <1>5, <1>6, <1>7, <1>8 DEF LegsInv

\* Every step keeps it.
LEMMA LegsStepInv == ASSUME LegsInv, [Next]_vars PROVE LegsInv'
<1>1. ASSUME NEW l \in Legs, HearData(l) \/ HearProbe(l) \/ HearNack(l) PROVE LegsInv'
    BY <1>1, HearKeeps
<1>2. ASSUME NEW l \in Legs, NEW s \in States, Change(l, s) PROVE LegsInv'
    BY <1>2, ChangeKeeps
<1>3. ASSUME NEW p \in Paths, SendFails(p) PROVE LegsInv'
    BY <1>3, SendFailsKeeps
<1>4. ASSUME NEW p \in Paths, NEW i \in 1 .. MaxOutstanding, HearReply(p, i) PROVE LegsInv'
    BY <1>4, HearReplyKeeps
<1>5. CASE UNCHANGED vars
  <2>1. LinksOK' /\ OwnRemote' /\ healthy' \in [Paths -> BOOLEAN] /\ state' \in [Legs -> States]
      BY <1>5 DEF vars, linkVars, LegsInv, LinksOK, OwnRemote
  <2>2. UNCHANGED probeVars
      BY <1>5 DEF vars
  <2> QED
      BY <2>1, <2>2, ProbesAloneKeep
<1> QED
    BY <1>1, <1>2, <1>3, <1>4, <1>5, TickKeeps, ClockStepKeeps DEF Next

-----------------------------------------------------------------------------
\* A standdown holds.

\* What p owes, and that it stays down for it or answers.
Owes(p) == Overdue(outstanding[p], answered) /\ ~ healthy[p]
Answers(p) == \E i \in DOMAIN outstanding[p] : outstanding[p][i].at = p /\ HearReply(p, i)

\* What is merely heard on l changes no verdict on a leg that owes answers.
LEMMA HearingKeepsDown ==
    ASSUME LegsInv, NEW p \in Paths, Owes(p), NEW l \in Paths, UNCHANGED <<outstanding, answered>>,
           \E b \in BOOLEAN : healthy' = [healthy EXCEPT ![l] = Believes(l) /\ b]
    PROVE  Owes(p)'
<1>1. PICK b \in BOOLEAN : healthy' = [healthy EXCEPT ![l] = Believes(l) /\ b]
    OBVIOUS
<1>2. l = p => ~ Believes(l)
    BY DEF Owes, Believes
<1>3. ~ healthy'[p]
    BY <1>1, <1>2 DEF LegsInv, Owes
<1>4. Overdue(outstanding[p], answered)'
    BY DEF Owes, Overdue
<1> QED
    BY <1>3, <1>4 DEF Owes

\* A round of probes: where the list is full, its second probe is now the first, and as old
\* as a standdown asks for.
LEMMA RoundKeepsDown ==
    ASSUME ListOutlastsStanddown, LegsInv, NEW p \in Paths, Overdue(outstanding[p], answered),
           probe_age >= ProbeInterval
    PROVE  Overdue(Probed(p), answered)
<1> DEFINE old == outstanding[p]
           n == Len(outstanding[p])
<1>1. /\ answered /\ n \in Nat /\ n >= StanddownCount /\ n <= MaxOutstanding
      /\ old \in Seq(Probes) /\ old[1].age >= StanddownAge
      /\ Spaced(old) /\ probe_age = ProbeInterval
    BY LenProperties, TimesAre DEF LegsInv, ListOK, Overdue
<1>2. ASSUME NEW new \in Probes, new.age = 0 PROVE Overdue(Newest(Append(old, new)), answered)
  <2> DEFINE gone == IF n = MaxOutstanding THEN 1 ELSE 0
             after == Newest(Append(old, new))
  <2>1. /\ Len(after) = n + 1 - gone
        /\ \A i \in 1 .. Len(after) : after[i] = IF i + gone <= n THEN old[i + gone] ELSE new
      BY <1>1, NewestAre
  <2>2. Len(after) >= StanddownCount /\ 1 \in 1 .. Len(after)
      BY <1>1, <2>1, TimesAre
  <2>3. after[1] = IF 1 + gone <= n THEN old[1 + gone] ELSE new
      BY <2>1, <2>2
  <2>4. CASE n # MaxOutstanding
    <3>1. after[1] = old[1]
        BY <1>1, <2>3, <2>4, TimesAre
    <3> QED
        BY <1>1, <2>2, <3>1 DEF Overdue
  <2>5. CASE n = MaxOutstanding /\ n > 1
    <3>1. after[1] = old[2] /\ 2 \in 1 .. n /\ n - 2 \in Nat
        BY <1>1, <2>3, <2>5
    <3>2. old[2].age \in Nat
      <4>1. old[2] \in Probes
          BY <1>1, <3>1, ElementOfSeq
      <4> QED
          BY <4>1, TimesAre DEF Probes
    <3>3. old[2].age >= StanddownAge \/ old[2].age >= ProbeInterval + (n - 2) * ProbeInterval
        BY <1>1, <3>1 DEF Spaced
    <3>4. (n - 2) + 1 = MaxOutstanding - 1
        BY <1>1, <2>5
    <3>5. (MaxOutstanding - 1) * ProbeInterval = ProbeInterval + (n - 2) * ProbeInterval
        BY <3>1, <3>4, OneMore, TimesAre
    <3>6. old[2].age >= StanddownAge
        BY <3>2, <3>3, <3>5, TimesAre DEF ListOutlastsStanddown
    <3> QED
        BY <1>1, <2>2, <3>1, <3>6 DEF Overdue
  <2>6. CASE n = MaxOutstanding /\ ~ (n > 1)
    <3>1. after[1] = new /\ MaxOutstanding = 1
        BY <1>1, <2>3, <2>6, TimesAre
    <3>2. StanddownAge = 0
      <4>1. (MaxOutstanding - 1) * ProbeInterval = 0
          BY <3>1, TimesAre
      <4> QED
          BY <4>1, TimesAre DEF ListOutlastsStanddown
    <3> QED
        BY <1>1, <1>2, <2>2, <3>1, <3>2 DEF Overdue
  <2> QED
      BY <2>4, <2>5, <2>6
<1> QED
    BY <1>2, ProbedAre

LEMMA StanddownStepHolds ==
    ASSUME ListOutlastsStanddown, LegsInv, [Next]_vars, NEW p \in Paths, Owes(p)
    PROVE  Owes(p)' \/ Answers(p)
<1>0. Legs \subseteq Paths /\ Listener \in Paths /\ \A q \in Paths : healthy[q] \in BOOLEAN
    BY DEF Paths, LegsInv
<1>1. ASSUME NEW l \in Legs, HearData(l) \/ HearProbe(l) \/ HearNack(l) PROVE Owes(p)'
  <2>1. UNCHANGED <<outstanding, answered>>
      BY <1>1 DEF HearData, HearProbe, HearNack, probeVars
  <2>2. PICK q \in {l, Listener}, b \in BOOLEAN : healthy' = [healthy EXCEPT ![q] = Believes(q) /\ b]
    <3>1. CASE HearData(l)
      <4>1. healthy' = [healthy EXCEPT ![l] = Believes(l) /\ TRUE]
          BY <3>1 DEF HearData, Believes
      <4> QED
          BY <4>1
    <3>2. CASE HearProbe(l)
        BY <3>2 DEF HearProbe
    <3>3. CASE HearNack(l)
      <4>1. healthy' = [healthy EXCEPT ![Listener] = Believes(Listener) /\ TRUE]
          BY <3>3 DEF HearNack, Believes
      <4> QED
          BY <4>1
    <3> QED
        BY <1>1, <3>1, <3>2, <3>3
  <2> QED
      BY <1>0, <2>1, <2>2, HearingKeepsDown
<1>2. ASSUME NEW q \in Paths, NEW i, HearReply(q, i) PROVE Owes(p)' \/ Answers(p)
  <2> DEFINE l == outstanding[q][i].at
  <2>1. CASE l = q /\ q = p
      BY <1>2, <2>1 DEF Answers, HearReply
  <2>2. CASE l = q /\ q # p
    <3>1. /\ outstanding' = [outstanding EXCEPT ![q] = SubSeq(@, i + 1, Len(@))]
          /\ answered' = TRUE /\ healthy' = [healthy EXCEPT ![q] = TRUE]
        BY <1>2, <2>2 DEF HearReply
    <3>2. outstanding'[p] = outstanding[p] /\ healthy'[p] = healthy[p]
        BY <2>2, <3>1 DEF LegsInv
    <3> QED
        BY <3>1, <3>2 DEF Owes, Overdue
  <2>3. CASE l # q
    <3>1. /\ healthy' = [healthy EXCEPT ![l] = Believes(l)]
          /\ UNCHANGED <<outstanding, answered>>
        BY <1>2, <2>3 DEF HearReply
    <3>2. l \in Paths
      <4>1. outstanding[q] \in Seq(Probes) /\ i \in 1 .. Len(outstanding[q]) /\ l # NoAddress
          BY <1>2, LenProperties DEF HearReply, LegsInv
      <4>2. outstanding[q][i] \in Probes
          BY <4>1, ElementOfSeq
      <4> QED
          BY <1>0, <4>1, <4>2 DEF Probes
    <3> HIDE DEF l
    <3>3. healthy' = [healthy EXCEPT ![l] = Believes(l) /\ TRUE]
        BY <3>1 DEF Believes
    <3> QED
        BY <3>1, <3>2, <3>3, HearingKeepsDown
  <2> QED
      BY <2>1, <2>2, <2>3
<1>3. ASSUME NEW q \in Paths, SendFails(q) PROVE Owes(p)'
  <2>1. UNCHANGED <<outstanding, answered>> /\ ~ healthy'[p]
      BY <1>0, <1>3 DEF SendFails, probeVars, LegsInv, Owes
  <2> QED
      BY <2>1 DEF Owes, Overdue
<1>4. ASSUME Tick PROVE Owes(p)'
  <2>1. answered' = answered /\ ~ healthy'[p]
      BY <1>4 DEF Tick, TickWith, Owes
  <2>2. outstanding'[p] = IF probe_age >= ProbeInterval THEN Probed(p) ELSE outstanding[p]
      BY <1>4 DEF Tick, TickWith
  <2>3. CASE probe_age >= ProbeInterval
    <3>1. Overdue(Probed(p), answered)
        BY <2>3, RoundKeepsDown DEF Owes
    <3> QED
        BY <2>1, <2>2, <2>3, <3>1 DEF Owes, Overdue
  <2>4. CASE ~ (probe_age >= ProbeInterval)
      BY <2>1, <2>2, <2>4 DEF Owes, Overdue
  <2> QED
      BY <2>3, <2>4
<1>5. ASSUME ClockStep PROVE Owes(p)'
  <2>1. outstanding'[p] = Older(outstanding[p]) /\ answered' = answered /\ healthy' = healthy
      BY <1>5 DEF ClockStep, Older
  <2>2. /\ Len(Older(outstanding[p])) = Len(outstanding[p])
        /\ \A i \in 1 .. Len(outstanding[p]) :
              Older(outstanding[p])[i].age = Aged(outstanding[p][i].age, StanddownAge)
    <3>1. outstanding[p] \in Seq(Probes)
        BY DEF LegsInv
    <3> QED
        BY <3>1, OlderAre
  <2>3. Len(outstanding[p]) \in Nat /\ Len(outstanding[p]) >= StanddownCount /\ outstanding[p] \in Seq(Probes)
      BY LenProperties DEF LegsInv, Owes, Overdue
  <2>4. 1 \in 1 .. Len(outstanding[p])
      BY <2>3, TimesAre
  <2>5. outstanding[p][1].age \in 0 .. StanddownAge /\ outstanding[p][1].age >= StanddownAge
    <3>1. outstanding[p][1] \in Probes
        BY <2>3, <2>4, ElementOfSeq
    <3> QED
        BY <3>1 DEF Probes, Owes, Overdue
  <2>6. Aged(outstanding[p][1].age, StanddownAge) >= StanddownAge
      BY <2>5, TimesAre DEF Aged
  <2> QED
      BY <2>1, <2>2, <2>4, <2>6 DEF Owes, Overdue
<1>6. ASSUME NEW l \in Legs, NEW s \in States, Change(l, s) PROVE Owes(p)'
    BY <1>6 DEF Change, probeVars, Owes, Overdue
<1>7. CASE UNCHANGED vars
    BY <1>7 DEF vars, probeVars, Owes, Overdue
<1> QED
    BY <1>1, <1>2, <1>3, <1>4, <1>5, <1>6, <1>7 DEF Next

-----------------------------------------------------------------------------
\* Home's links keep their types, with as many probes outstanding as _KA_OUTSTANDING_MAX
\* at most, and no leg but one with the listener's id is mixed up with another: its address
\* is its own and its probes are answered under its own id (_roam_link, send_keepalives).
THEOREM HomeLegsStayApart == Spec => [](TypeOK /\ LegsStayApart)
<1>1. LegsInv => TypeOK /\ LegsStayApart
  <2> SUFFICES ASSUME LegsInv PROVE TypeOK /\ LegsStayApart
      OBVIOUS
  <2>1. \A p \in Paths : DOMAIN outstanding[p] = 1 .. Len(outstanding[p])
      BY LenProperties DEF LegsInv
  <2>2. TypeOK
      BY DEF LegsInv, TypeOK, LinksOK, ListOK
  <2>3. LegsStayApart
      BY <2>1 DEF LegsInv, LegsStayApart, OwnRemote, OwnProbes, Paths
  <2> QED
      BY <2>2, <2>3
<1> QED
    BY <1>1, LegsInitInv, LegsStepInv, PTL DEF Spec

\* Where no leg has the id of the listener's, home sends a leg's share to that leg's own
\* address, whatever NACKs arrive on which leg (_roam_link).
THEOREM AddressesAreOwn == ASSUME Listener \notin Legs PROVE Spec => []OwnAddress
<1>1. LegsInv => OwnAddress
    BY DEF LegsInv, OwnRemote, OwnAddress
<1> QED
    BY <1>1, LegsInitInv, LegsStepInv, PTL DEF Spec

\* A link stood down for the answers it owes stays down until it answers a probe: neither
\* what is heard on it nor the bound on the probes home remembers undoes it
\* (_credit_leg, _home_probe_overdue).
THEOREM StanddownAlwaysHolds == ASSUME ListOutlastsStanddown PROVE Spec => StanddownHolds
<1>1. LegsInv /\ [Next]_vars =>
        [\A p \in Paths :
            Overdue(outstanding[p], answered) /\ ~ healthy[p] =>
                \/ Overdue(outstanding[p], answered)' /\ ~ healthy'[p]
                \/ \E i \in DOMAIN outstanding[p] : outstanding[p][i].at = p /\ HearReply(p, i)]_vars
  <2>1. ASSUME LegsInv, [Next]_vars, NEW p \in Paths, Overdue(outstanding[p], answered), ~ healthy[p]
        PROVE  \/ Overdue(outstanding[p], answered)' /\ ~ healthy'[p]
               \/ \E i \in DOMAIN outstanding[p] : outstanding[p][i].at = p /\ HearReply(p, i)
      BY <2>1, StanddownStepHolds DEF Owes, Answers
  <2> QED
      BY <2>1
<1>2. LegsInv /\ [Next]_vars => LegsInv'
    BY LegsStepInv
<1> QED
    BY <1>1, <1>2, LegsInitInv, PTL DEF Spec, StanddownHolds

=============================================================================
