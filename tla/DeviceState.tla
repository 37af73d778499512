---------------------------- MODULE DeviceState ----------------------------
(***************************************************************************)
(* The availability state machine of one device, internal/alerts/logic.go: *)
(* a pure function from the stored state and one poll result to the next   *)
(* state and the transition that decides whether an incident is opened or  *)
(* closed.  The thresholds are literals of the code; the FailThreshold and *)
(* ClearThreshold fields of a PollResult are only reported.                *)
(***************************************************************************)
EXTENDS Integers

FailThreshold  == 3
ClearThreshold == 2

(* The values of device_state.current_state, constrained by the schema.    *)
States == {"UP", "DOWN", "UNKNOWN"}

StateInput == [CurrentState: States, ConsecutiveFailures: Nat,
               ConsecutiveSuccesses: Nat, PollSuccess: BOOLEAN]

StateOutput == [NextState: States, ConsecutiveFailures: Nat,
                ConsecutiveSuccesses: Nat, Transition: {"none", "down", "up"}]

(* Mutants of Failures: a success does not clear the count, or takes one   *)
(* failure off it.                                                         *)
StickyFailures(in) == in.ConsecutiveFailures + (IF in.PollSuccess THEN 0 ELSE 1)
DecayingFailures(in) == in.ConsecutiveFailures + (IF in.PollSuccess THEN -1 ELSE 1)

(* A result of one kind extends its own run and ends the run of the other. *)
Failures(in)  == IF in.PollSuccess THEN 0 ELSE in.ConsecutiveFailures + 1
Successes(in) == IF in.PollSuccess THEN in.ConsecutiveSuccesses + 1 ELSE 0

(* Mutant of Rises: the first answer ends the outage.                      *)
RisesAtOnce(in) == in.CurrentState = "DOWN" /\ in.PollSuccess

(* Three failures in a row take a device that is not DOWN to DOWN; two     *)
(* successes in a row take a DOWN device to UP.  A device that never       *)
(* failed three times stays UNKNOWN however often it answers.              *)
Falls(in) == in.CurrentState # "DOWN" /\ Failures(in) >= FailThreshold
Rises(in) == in.CurrentState = "DOWN" /\ Successes(in) >= ClearThreshold

ComputeTransition(in) ==
    [NextState            |-> IF Falls(in) THEN "DOWN"
                              ELSE IF Rises(in) THEN "UP" ELSE in.CurrentState,
     ConsecutiveFailures  |-> Failures(in),
     ConsecutiveSuccesses |-> Successes(in),
     Transition           |-> IF Falls(in) THEN "down"
                              ELSE IF Rises(in) THEN "up" ELSE "none"]
=============================================================================
