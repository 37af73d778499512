--------------------------- MODULE DeviceHistory ---------------------------
(***************************************************************************)
(* The state machine of DeviceState driven by an arbitrary sequence of     *)
(* poll results, next to the sequence itself.  The row kept between two    *)
(* results is what processor.go stores: the state and the two counters.    *)
(* The whole sequence is kept only to say, without any counter, in which   *)
(* state the device ought to be.                                           *)
(***************************************************************************)
EXTENDS DeviceState, Sequences

CONSTANT MaxPolls          \* longest sequence of results

ASSUME MaxPollsAssumption == MaxPolls \in Nat

VARIABLES polls,           \* the results so far: TRUE for a success
          row              \* device_state: current_state and the counters

historyVars == <<polls, row>>

HistoryInit ==
    /\ polls = <<>>
    /\ row = [current_state |-> "UNKNOWN", failures |-> 0, successes |-> 0]

(* One poll result folded into the row.                                    *)
Result(ok) ==
    LET tr == ComputeTransition([CurrentState         |-> row.current_state,
                                 ConsecutiveFailures  |-> row.failures,
                                 ConsecutiveSuccesses |-> row.successes,
                                 PollSuccess          |-> ok])
    IN  /\ Len(polls) < MaxPolls
        /\ polls' = Append(polls, ok)
        /\ row' = [current_state |-> tr.NextState,
                   failures      |-> tr.ConsecutiveFailures,
                   successes     |-> tr.ConsecutiveSuccesses]

HistoryNext == \E ok \in BOOLEAN : Result(ok)

HistorySpec == HistoryInit /\ [][HistoryNext]_historyVars
-----------------------------------------------------------------------------
(* The reference: results i-2, i-1 and i were all failures.                *)
ThreeFailuresAt(i) == /\ i \in 3..Len(polls)
                      /\ ~polls[i] /\ ~polls[i - 1] /\ ~polls[i - 2]

(* After result i there were two successes next to each other.             *)
TwoSuccessesAfter(i) == \E j \in (i + 2)..Len(polls) : polls[j] /\ polls[j - 1]

ShouldBeDown == \E i \in 3..Len(polls) :
                    ThreeFailuresAt(i) /\ ~TwoSuccessesAfter(i)

HasFallen == \E i \in 3..Len(polls) : ThreeFailuresAt(i)

HistoryTypeOK ==
    /\ polls \in Seq(BOOLEAN)
    /\ row \in [current_state: States, failures: Nat, successes: Nat]

(* The machine remembers two counters and a state; they must decide the    *)
(* same as the whole history does: DOWN exactly when three failures in a   *)
(* row were not yet followed by two successes in a row, UP once such an    *)
(* incident is over, UNKNOWN before the first one (logic.go:17).           *)
StateMatchesHistory ==
    row.current_state = IF ShouldBeDown THEN "DOWN"
                        ELSE IF HasFallen THEN "UP" ELSE "UNKNOWN"

(* The counters count the trailing run of equal results, and nothing else: *)
(* a result of the other kind resets them (logic.go:20).                   *)
CountersMatchHistory ==
    LET n == Len(polls) IN
    /\ row.failures <= n /\ row.successes <= n
    /\ row.failures = 0 \/ row.successes = 0
    /\ n > 0 => row.failures + row.successes > 0
    /\ \A i \in 1..n : /\ i > n - row.failures  => ~polls[i]
                       /\ i > n - row.successes => polls[i]
    /\ row.failures  \in 1..(n - 1) => polls[n - row.failures]
    /\ row.successes \in 1..(n - 1) => ~polls[n - row.successes]
=============================================================================
