---------------------------- MODULE MCHeartbeat ----------------------------
(* Heartbeat with one command beside the loop, on a coarse scale of times. *)
(* That the times of const.py satisfy AMissedWriteFits too is worked out   *)
(* here in seconds.                                                        *)
EXTENDS Heartbeat

(* retry_delays: a retry waits out a poll, within HEARTBEAT_RETRY_TOTAL_S. *)
RetryDelays(scan) ==
    LET delay == Larger(1, IF scan < 15 THEN scan ELSE 15)
    IN  [delay |-> delay, count |-> 15 \div delay]

(* One write whose requests each take t, in HEARTBEAT_WINDOW_S of 60.      *)
Fits(scan, t) ==
    LET retries == RetryDelays(scan)
    IN  20 + 2 + (t + retries.count * (retries.delay + t)) + 5 + 2 + t <= 60

(* Of the scan intervals the options flow takes, every one leaves room for *)
(* a missed write if requests fail within a second, and those of at least  *)
(* four seconds also if they run into MODBUS_REQUEST_TIMEOUT_S, which the  *)
(* retry budget does not count.                                            *)
ASSUME TheTimesFit ==
    \A scan \in 2 .. 30 : Fits(scan, 1) /\ (Fits(scan, 3) <=> scan >= 4)
=============================================================================
