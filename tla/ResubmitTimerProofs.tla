------------------------- MODULE ResubmitTimerProofs -------------------------
(***************************************************************************)
(* Under the monotonic clock spec §2 assumes, a log sync is abandoned     *)
(* only after more than ABANDON_THRESHOLD resubmit timeouts of real time, *)
(* for every timeout, threshold and word width.                           *)
(*                                                                         *)
(* AbandonNotEarly is not inductive: it speaks of the moment of abandon,  *)
(* and what makes it true is the spacing of the requests before it.  The  *)
(* strengthening says that the clock reads StartTime + real, that a       *)
(* stamp exists exactly when a request was counted, and that the real     *)
(* time since the first request covers a full timeout plus one ms for     *)
(* every resubmission after it, plus the time since the last one.         *)
(***************************************************************************)
EXTENDS ResubmitTimer, TLAPS

(* The clock is the real time shifted by the start reading.               *)
ClockTracksReal == now = StartTime + real

(* A request has been stamped exactly when one has been counted.          *)
StampCounted ==
    /\ (requestedOn = 0) <=> (submissions = 0)
    /\ firstAt <= real

(* Each resubmission came more than a timeout after the request before.   *)
RequestSpacing ==
    requestedOn # 0 =>
        /\ StartTime <= requestedOn /\ requestedOn <= now
        /\ real - firstAt >=
               (submissions - 1) * (ResubmitTimeout + 1) + (now - requestedOn)

IInv ==
    /\ TypeOK
    /\ ClockTracksReal
    /\ StampCounted
    /\ RequestSpacing
    /\ AbandonNotEarly

USE TimerConstantsAssumption

(* Under a monotonic clock, the difference the code computes is the real  *)
(* time since the stamp: it never wraps.                                  *)
LEMMA ElapsedNoWrap ==
    ASSUME NEW t \in Nat, NEW t0 \in Nat, t0 <= t, t < 2^Width
    PROVE  Elapsed(t, t0) = t - t0
<1>1. 2^Width \in Nat \ {0}
  BY TimerConstantsAssumption
<1>2. t - t0 \in 0..(2^Width - 1)
  BY <1>1
<1>. QED
  BY <1>1, <1>2 DEF Elapsed

LEMMA InitIInv == Init => IInv
BY DEF Init, IInv, TypeOK, ClockTracksReal, StampCounted, RequestSpacing,
       AbandonNotEarly

LEMMA TickIInv ==
    ASSUME IInv, ClockMonotonic, Tick
    PROVE  IInv'
<1>1. now' = now + 1
  BY DEF Tick, ClockReadings
<1>. QED
  BY <1>1 DEF Tick, IInv, TypeOK, ClockTracksReal, StampCounted,
             RequestSpacing, AbandonNotEarly

LEMMA SetSyncTargetIInv ==
    ASSUME IInv, SetSyncTarget
    PROVE  IInv'
BY DEF SetSyncTarget, IInv, TypeOK, ClockTracksReal, StampCounted,
       RequestSpacing, AbandonNotEarly

LEMMA SyncEndsIInv ==
    ASSUME IInv, SyncEnds
    PROVE  IInv'
BY DEF SyncEnds, IInv, TypeOK, ClockTracksReal, StampCounted,
       RequestSpacing, AbandonNotEarly

LEMMA SendRequestIInv ==
    ASSUME IInv, SendRequest
    PROVE  IInv'
<1>1. /\ now \in Nat /\ real \in Nat /\ firstAt \in Nat /\ submissions \in Nat
      /\ requestedOn \in Nat /\ now < 2^Width
      /\ now = StartTime + real
  BY DEF IInv, TypeOK, ClockTracksReal
<1>2. requestedOn # 0 => Elapsed(now, requestedOn) = now - requestedOn
  BY <1>1, ElapsedNoWrap DEF IInv, RequestSpacing
<1>3. requestedOn # 0 => now - requestedOn >= ResubmitTimeout + 1
  BY <1>1, <1>2 DEF SendRequest, ResubmitDue
<1>4. CASE BelowThreshold(submissions)
  <2>1. CASE requestedOn = 0
    BY <1>1, <1>4, <2>1 DEF SendRequest, BelowThreshold, IInv, TypeOK,
       ClockTracksReal, StampCounted, RequestSpacing, AbandonNotEarly
  <2>2. CASE requestedOn # 0
    <3>1. submissions >= 1
      BY <1>1, <2>2 DEF IInv, StampCounted
    <3>2. real - firstAt >= (submissions - 1) * (ResubmitTimeout + 1) + (ResubmitTimeout + 1)
      BY <1>1, <1>3, <2>2 DEF IInv, RequestSpacing
    <3>3. (submissions - 1) * (ResubmitTimeout + 1) + (ResubmitTimeout + 1) = ((submissions + 1) - 1) * (ResubmitTimeout + 1) + 0
      BY <1>1, <3>1
    <3>. QED
      BY <1>1, <1>4, <2>2, <3>1, <3>2, <3>3
      DEF SendRequest, BelowThreshold, IInv, TypeOK, ClockTracksReal,
          StampCounted, RequestSpacing, AbandonNotEarly
  <2>. QED
    BY <2>1, <2>2
<1>5. CASE ~BelowThreshold(submissions)
  <2>1. submissions = AbandonThreshold
    BY <1>5 DEF IInv, TypeOK, BelowThreshold
  <2>2. requestedOn # 0
    BY <2>1 DEF IInv, StampCounted
  <2>3. real - firstAt >= (submissions - 1) * (ResubmitTimeout + 1) + (ResubmitTimeout + 1)
    BY <1>1, <1>3, <2>2 DEF IInv, RequestSpacing
  <2>4. (submissions - 1) * (ResubmitTimeout + 1) + (ResubmitTimeout + 1) > submissions * ResubmitTimeout
    BY <1>1, <2>1
  <2>. QED
    BY <1>5, <2>1, <2>3, <2>4
    DEF SendRequest, IInv, TypeOK, ClockTracksReal, StampCounted,
        RequestSpacing, AbandonNotEarly
<1>. QED
  BY <1>4, <1>5

LEMMA NextIInv ==
    ASSUME IInv, ClockMonotonic, [Next]_vars
    PROVE  IInv'
<1>1. CASE Tick
  BY <1>1, TickIInv
<1>2. CASE SetSyncTarget
  BY <1>2, SetSyncTargetIInv
<1>3. CASE SendRequest
  BY <1>3, SendRequestIInv
<1>4. CASE SyncEnds
  BY <1>4, SyncEndsIInv
<1>5. CASE UNCHANGED vars
  BY <1>5 DEF vars, IInv, TypeOK, ClockTracksReal, StampCounted,
             RequestSpacing, AbandonNotEarly
<1>. QED
  BY <1>1, <1>2, <1>3, <1>4, <1>5 DEF Next

(* Under a monotonic clock, a sync is never abandoned before more than    *)
(* ABANDON_THRESHOLD resubmit timeouts of real time passed since its      *)
(* first request (send_hpfs_log_sync_request).                            *)
THEOREM AbandonNotEarlyHolds ==
    ClockMonotonic => (Spec => []AbandonNotEarly)
<1> SUFFICES ASSUME ClockMonotonic PROVE Spec => []AbandonNotEarly
  OBVIOUS
<1>1. Init => IInv
  BY InitIInv
<1>2. IInv /\ [Next]_vars => IInv'
  BY NextIInv
<1>3. IInv => AbandonNotEarly
  BY DEF IInv
<1>. QED
  BY <1>1, <1>2, <1>3, PTL DEF Spec


-----------------------------------------------------------------------------
(***************************************************************************)
(* Types under any clock.  A clock that steps back still never reads more *)
(* than the start reading plus the real time, and never below 1, so the   *)
(* stamps and the counters keep their ranges whether or not the clock is  *)
(* monotonic.                                                             *)
(***************************************************************************)
ClockBehindReal == now <= StartTime + real

TInv ==
    /\ TypeOK
    /\ ClockBehindReal
    /\ firstAt <= real

(* Every reading a tick can produce is at least 1 and at most one more    *)
(* than the reading before.                                               *)
LEMMA ClockReadingsBound ==
    ASSUME NEW t \in Nat, NEW u \in ClockReadings(t), t >= 1
    PROVE  u \in 1..(t + 1)
<1>1. CASE ClockMonotonic
  BY <1>1 DEF ClockReadings
<1>2. CASE ~ClockMonotonic
  <2>1. u = t + 1 \/ \E d \in 1..MaxStepBack : t - d >= 1 /\ u = t - d
    BY <1>2 DEF ClockReadings
  <2>. QED
    BY <2>1
<1>. QED
  BY <1>1, <1>2

LEMMA NextTInv ==
    ASSUME TInv, [Next]_vars
    PROVE  TInv'
<1>1. CASE Tick
  <2>1. now' \in 1..(now + 1)
    BY <1>1, ClockReadingsBound DEF Tick, TInv, TypeOK
  <2>. QED
    BY <1>1, <2>1 DEF Tick, TInv, TypeOK, ClockBehindReal
<1>2. CASE SetSyncTarget
  BY <1>2 DEF SetSyncTarget, TInv, TypeOK, ClockBehindReal
<1>3. CASE SendRequest
  BY <1>3 DEF SendRequest, BelowThreshold, TInv, TypeOK, ClockBehindReal
<1>4. CASE SyncEnds
  BY <1>4 DEF SyncEnds, TInv, TypeOK, ClockBehindReal
<1>5. CASE UNCHANGED vars
  BY <1>5 DEF vars, TInv, TypeOK, ClockBehindReal
<1>. QED
  BY <1>1, <1>2, <1>3, <1>4, <1>5 DEF Next

(* Whatever the clock does, the stamp, the submission counter and the    *)
(* ghost times keep their ranges: request_submissions never passes        *)
(* ABANDON_THRESHOLD (send_hpfs_log_sync_request).                        *)
THEOREM TypeCorrect == Spec => []TypeOK
<1>1. Init => TInv
  BY DEF Init, TInv, TypeOK, ClockBehindReal
<1>2. TInv /\ [Next]_vars => TInv'
  BY NextTInv
<1>3. TInv => TypeOK
  BY DEF TInv
<1>. QED
  BY <1>1, <1>2, <1>3, PTL DEF Spec

=============================================================================
