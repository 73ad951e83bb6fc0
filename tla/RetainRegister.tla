--------------------------- MODULE RetainRegister ---------------------------
(***************************************************************************)
(* What the retain store of one program promises: a register that a power  *)
(* cut never tears.  `possible' is the set of images a restart at this     *)
(* moment may load; outside of a flush it does not grow, a flush may only  *)
(* add the image being flushed, and a flush that reports success leaves    *)
(* that image as the only one.                                             *)
(*                                                                         *)
(* A flush may also fail and damage the register.  Until the next success  *)
(* a restart then loads any of the images or the zero image, but still     *)
(* nothing else.                                                           *)
(***************************************************************************)
CONSTANTS Images, Cold

VARIABLES
  possible,  \* images that a restart may load, Cold being the zero image
  writing,   \* images whose flush has begun and not returned
  sound      \* no flush has done damage since the last success

vars == <<possible, writing, sound>>

Init == possible = {Cold} /\ writing = {} /\ sound = TRUE

(* RetainStore::flush is called.                                           *)
Begin(v) == writing' = writing \cup {v} /\ UNCHANGED <<possible, sound>>

(* Some bytes of a running flush reach the disk.                           *)
Reachable == IF sound THEN possible \cup writing ELSE Images \cup {Cold}
Progress ==
  /\ possible' \in SUBSET Reachable /\ possible' # {}
  /\ UNCHANGED <<writing, sound>>

(* flush returns Ok, or an I/O error, the second kind doing damage.        *)
Return(v) == v \in writing /\ writing' = writing \ {v}
Succeed(v)   == Return(v) /\ possible' = {v} /\ sound' = TRUE
Fail(v)      == Return(v) /\ UNCHANGED <<possible, sound>>
FailBadly(v) == Return(v) /\ UNCHANGED possible /\ sound' = FALSE

(* Power is lost; the next boot loads one of the possible images.          *)
Restart ==
  /\ \E v \in possible : possible' = {v}
  /\ writing' = {} /\ UNCHANGED sound

Next ==
  \/ \E v \in Images : Begin(v) \/ Succeed(v) \/ Fail(v) \/ FailBadly(v)
  \/ Progress
  \/ Restart

Spec == Init /\ [][Next]_vars
=============================================================================
