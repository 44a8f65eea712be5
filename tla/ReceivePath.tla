---------------------------- MODULE ReceivePath ----------------------------
(***************************************************************************)
(* The receive path of the transport (travel/bond-agent/zippie/            *)
(* transport.py) behind its gates: every data frame is resolved in the     *)
(* NACK tracker, pushed into the reassembler and used to extend the scan   *)
(* for gaps; every pass of the loop ticks the reassembler and asks for     *)
(* what is due.                                                            *)
(***************************************************************************)
EXTENDS Reassembler, NackTracker

CONSTANTS
    MaxGapScans,    \* the values MAX_GAP_SCAN may have
    Ceiling         \* the NACK ceiling that goes with each reorder deadline

ASSUME MaxGapScansAssumption == MaxGapScans \subseteq Nat
ASSUME CeilingAssumption == Ceiling \in [Deadlines -> Ceilings]

VARIABLES
    gap_high_water, \* _gap_high_water
    gap_scanned_to, \* _gap_scanned_to
    max_gap_scan    \* MAX_GAP_SCAN, fixed for the life of the process

gapVars == <<gap_high_water, gap_scanned_to>>
pathVars == <<vars, nacks, gapVars, max_gap_scan>>

PathInit ==
    /\ Init
    /\ \E m \in MaxPendings : nacks = NewTracker(Ceiling[reorder_deadline], m)
    /\ gap_high_water = -1
    /\ gap_scanned_to = -1
    /\ max_gap_scan \in MaxGapScans

Larger(a, b) == IF a > b THEN a ELSE b

-----------------------------------------------------------------------------
\* _note_gaps after the frame was pushed: the strip between the cursor and
\* the high-water mark, at most max_gap_scan of its newest numbers, is looked at
\* once; t is the tracker so far.  Before the stream has an origin there is
\* nothing to look for.
NoteGaps(seq, t) ==
    LET high  == Larger(gap_high_water, seq)
        below == Larger(gap_scanned_to, next_seq' - 1)
        start == Larger(below + 1, high - max_gap_scan)
        found == (start .. high - 1) \ buffer'
    IN  IF next_seq' = None
        THEN nacks' = t /\ UNCHANGED gapVars
        ELSE /\ gap_high_water' = high
             /\ gap_scanned_to' = Larger(below, high - 1)
             /\ nacks' = ForgetBefore(NoteGap(t, found), next_seq')

\* Mutant: a frame is pushed without telling the tracker.
OnLinkDataUnresolved(seq, leg, resend) ==
    Push(seq) /\ NoteGaps(seq, nacks) /\ UNCHANGED max_gap_scan

\* The data path of _on_link_data.  A resend was routed away from the leg
\* that lost the packet and says nothing about the leg it came in on.
OnLinkData(seq, leg, resend) ==
    /\ Push(seq)
    /\ NoteGaps(seq, Resolve(nacks, seq, IF resend THEN NoLeg ELSE leg))
    /\ UNCHANGED max_gap_scan

\* tick: release what waited too long, ask for what is due, and let adaptive
\* recovery set the deadline, and with it the ceiling, for the next pass.
TransportTick(d) ==
    /\ Release
    /\ reorder_deadline' = d
    /\ nacks' = SetMaxDelay(Due(nacks), Ceiling[d])
    /\ UNCHANGED <<gapVars, max_gap_scan>>

\* _adopt_epoch: the peer restarted, as an answered probe says.  A data frame
\* that says so is then handled as any other: this step and OnLinkData.
PeerRestart ==
    /\ ResetStream
    /\ gap_high_water' = -1
    /\ gap_scanned_to' = -1
    /\ nacks' = ResetTracker(nacks)
    /\ UNCHANGED max_gap_scan

PathClock ==
    /\ ClockStep
    /\ nacks' = AgedTracker(nacks)
    /\ UNCHANGED <<gapVars, max_gap_scan>>

PathNext ==
    \/ \E seq \in SeqNumbers, leg \in Legs : OnLinkData(seq, leg, FALSE)
    \/ \E seq \in SeqNumbers : OnLinkData(seq, NoLeg, TRUE)
    \/ \E d \in Deadlines : TransportTick(d)
    \/ PeerRestart
    \/ PathClock

PathSpec == PathInit /\ [][PathNext]_pathVars

-----------------------------------------------------------------------------
(***************************************************************************)
(* Properties.                                                             *)
(***************************************************************************)

PathTypeOK ==
    /\ TypeOK
    /\ gap_high_water \in -1 .. SeqMax
    /\ gap_scanned_to \in -1 .. SeqMax
    /\ DOMAIN nacks.pending \subseteq SeqNumbers
    /\ \A s \in DOMAIN nacks.pending : nacks.pending[s] \in 0 .. OldestAge
    /\ ToSet(nacks.order) \subseteq SeqNumbers
    /\ nacks.asked \subseteq SeqNumbers
    /\ nacks.forgotten_below \in 0 .. SeqMax + 1
    /\ DOMAIN nacks.leg_watch \subseteq DOMAIN nacks.leg_seq
    /\ DOMAIN nacks.leg_seq \subseteq Legs
    /\ nacks.max_delay \in Ceilings
    /\ Cardinality(DOMAIN nacks.pending) <= nacks.max_pending
    /\ nacks.max_pending \in MaxPendings
    /\ max_gap_scan \in MaxGapScans

\* A number the tracker would ask for has not arrived in this stream: the
\* cursor never reports a held or delivered number, and every arrival is
\* resolved before it can be asked for again.
PendingIsMissing ==
    \A s \in DOMAIN nacks.pending :
        s \notin buffer /\ \A i \in DOMAIN delivered : delivered[i] # s

\* Nothing is lost inside the tracker: what is pending was asked for or is
\* still queued to be, and what was asked for is still pending.
PendingIsQueued ==
    /\ nacks.asked \subseteq DOMAIN nacks.pending
    /\ DOMAIN nacks.pending \ nacks.asked \subseteq ToSet(nacks.order)

\* While the table does not fill up, each number missing within a scan of the
\* highest one seen is pending: the one-pass cursor finds exactly what the full
\* scan it replaced would find, whichever way the bound on one pass cuts it.
NoGapMissed ==
    next_seq # None /\ nacks.max_pending > SeqMax =>
        (Larger(next_seq, gap_high_water - max_gap_scan) .. gap_high_water) \ buffer
            \subseteq DOMAIN nacks.pending

\* The gap cursor, the tracker and the reassembler agree on what is missing.
PendingTracksGaps == PathTypeOK /\ PendingIsMissing /\ PendingIsQueued /\ NoGapMissed

\* One look at the head of the queue finds all that is due: each pass asks for
\* exactly what a scan of the whole table would, although the legs' marks and
\* the ceiling move (due stops at the first entry that must wait).
AsksWhatIsDue ==
    [][ \/ nacks'.asked = nacks.asked \cup DueReference(nacks)
        \/ \A d \in Deadlines : ~ TransportTick(d) ]_pathVars

=============================================================================
