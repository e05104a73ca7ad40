----------------------------- MODULE ResubmitTimer -----------------------------
(***************************************************************************)
(* The resubmission and abandon timer of full-history log sync            *)
(* (send_hpfs_log_sync_request and the reset in set_sync_target, in the   *)
(* concatenated hpfs_log_sync.cpp of p2pmsg_conversion.cpp), under the    *)
(* clock it reads.                                                        *)
(*                                                                         *)
(* A request is sent when none was sent for the target yet, or when more  *)
(* than request_resubmit_timeout ms passed since the last one, measured   *)
(* as the unsigned difference of two get_epoch_milliseconds readings.     *)
(* After ABANDON_THRESHOLD requests the next due one abandons the sync.   *)
(*                                                                         *)
(* The model keeps the wall clock the code reads (now) apart from the     *)
(* time that really passed (real, a ghost).  The clock is monotonic when  *)
(* ClockMonotonic holds, as spec §2 assumes; otherwise a tick may also    *)
(* step it back, as an epoch clock can be set back.  Differences are      *)
(* taken modulo 2^Width, as the code's uint64_t arithmetic does; the      *)
(* clock stays below 2^Width, so only a backward step can wrap.           *)
(***************************************************************************)
EXTENDS Integers

CONSTANTS
    Width,             \* bits of the time arithmetic (64 in the code)
    ResubmitTimeout,   \* request_resubmit_timeout in ms
    AbandonThreshold,  \* ABANDON_THRESHOLD
    ClockMonotonic,    \* does the clock only move forward?
    StartTime,         \* the clock reading when the node starts
    MaxStepBack,       \* bound: the largest backward step of the clock
    MaxTime            \* bound: ms of real time explored

ASSUME TimerConstantsAssumption ==
    /\ Width \in Nat
    /\ ResubmitTimeout \in Nat
    /\ AbandonThreshold \in Nat \ {0}
    /\ ClockMonotonic \in BOOLEAN
    /\ StartTime \in Nat \ {0}
    /\ MaxStepBack \in Nat
    /\ MaxTime \in Nat
    /\ StartTime + MaxTime < 2^Width

VARIABLES
    now,          \* the wall clock reading, in ms
    real,         \* ghost: ms that really passed since the start
    status,       \* "idle", "syncing", or "abandoned" (target cleared by the threshold)
    requestedOn,  \* sync_ctx.target_requested_on
    submissions,  \* sync_ctx.request_submissions
    firstAt       \* ghost: real time of the target's first request

vars == <<now, real, status, requestedOn, submissions, firstAt>>

-----------------------------------------------------------------------------
(* The next clock reading one ms later: forward, or set back.             *)
ClockReadings(t) ==
    IF ClockMonotonic THEN {t + 1}
    ELSE {t + 1} \cup {t - d : d \in {d \in 1..MaxStepBack : t - d >= 1}}

(* time_now - sync_ctx.target_requested_on on uint64_t.                   *)
Elapsed(t, t0) == (t - t0) % (2^Width)

\* Fault variant: a request is resubmitted once the timeout has been reached.
ResubmitDueInclusive(t) ==
    requestedOn = 0 \/ Elapsed(t, requestedOn) >= ResubmitTimeout

(* The initial request, or a resubmission after the timeout.             *)
ResubmitDue(t) ==
    requestedOn = 0 \/ Elapsed(t, requestedOn) > ResubmitTimeout

\* Fault variant: the threshold test lets one request too many through.
BelowThresholdInclusive(n) == n <= AbandonThreshold

(* request_submissions < ABANDON_THRESHOLD                               *)
BelowThreshold(n) == n < AbandonThreshold

-----------------------------------------------------------------------------
Init ==
    /\ now = StartTime
    /\ real = 0
    /\ status = "idle"
    /\ requestedOn = 0
    /\ submissions = 0
    /\ firstAt = 0

(* One ms passes.                                                         *)
Tick ==
    /\ real < MaxTime
    /\ real' = real + 1
    /\ now' \in ClockReadings(now)
    /\ UNCHANGED <<status, requestedOn, submissions, firstAt>>

(* set_sync_target starts a sync for a new target, replacing the current *)
(* one if any.                                                            *)
SetSyncTarget ==
    /\ status' = "syncing"
    /\ requestedOn' = 0
    /\ submissions' = 0
    /\ UNCHANGED <<now, real, firstAt>>

(* send_hpfs_log_sync_request when a request is due: send it and stamp    *)
(* it, or abandon the sync at the threshold.                              *)
SendRequest ==
    /\ status = "syncing"
    /\ ResubmitDue(now)
    /\ IF BelowThreshold(submissions)
         THEN /\ requestedOn' = now
              /\ submissions' = submissions + 1
              /\ firstAt' = IF requestedOn = 0 THEN real ELSE firstAt
              /\ UNCHANGED status
         ELSE /\ status' = "abandoned"
              /\ UNCHANGED <<requestedOn, submissions, firstAt>>
    /\ UNCHANGED <<now, real>>

(* The syncer loop finds the target archived after a response and clears *)
(* it.                                                                    *)
SyncEnds ==
    /\ status = "syncing"
    /\ status' = "idle"
    /\ UNCHANGED <<now, real, requestedOn, submissions, firstAt>>

Next == Tick \/ SetSyncTarget \/ SendRequest \/ SyncEnds

Spec == Init /\ [][Next]_vars

-----------------------------------------------------------------------------
TypeOK ==
    /\ now \in 1..(StartTime + MaxTime)
    /\ real \in 0..MaxTime
    /\ status \in {"idle", "syncing", "abandoned"}
    /\ requestedOn \in 0..(StartTime + MaxTime)
    /\ submissions \in 0..AbandonThreshold
    /\ firstAt \in 0..MaxTime

(***************************************************************************)
(* Spec §4.H: a request is abandoned after ABANDON_THRESHOLD              *)
(* resubmissions, each after the resubmit timeout without a response.     *)
(* So a sync is abandoned only after more than ABANDON_THRESHOLD timeouts *)
(* of real time have passed since its first request.  It needs the        *)
(* timeout test of every resubmission, the stamp of each request and the  *)
(* threshold test to agree over the whole sequence of requests.           *)
(***************************************************************************)
AbandonNotEarly ==
    status = "abandoned" => real - firstAt > AbandonThreshold * ResubmitTimeout

=============================================================================
