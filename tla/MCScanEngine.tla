---------------------------- MODULE MCScanEngine ----------------------------
(* Small instances of the scan engine for TLC.                             *)
EXTENDS ScanEngine, TLC

CONSTANTS q1, q2, p1, p2

(* Periods of the tasks, in schedule order. *)
OnePeriod   == <<2>>
FastSlow    == <<2, 4>>
EqualRates  == <<2, 2>>

(* safe_state is 1, so it differs from the cold value 0. *)
SafeOne  == [o \in Outputs |-> 1]
AllForce == [o \in Outputs |-> "ForceSafe"]
AllHold  == [o \in Outputs |-> "HoldLast"]

AnyStore == SUBSET Outputs
NoStore  == {{}}
AllStore == {Outputs}

ProgramSymmetry == Permutations(Programs)
=============================================================================
