------------------------------ MODULE ClientOp -------------------------------
(***************************************************************************)
(* What an instrumented client promises of one operation: either it leaves *)
(* the call alone, or it opens one span, ends it once, and takes one       *)
(* duration sample with it, the two agreeing on whether the operation      *)
(* failed.  Every facade that owns an operation implements this            *)
(* specification.                                                          *)
(***************************************************************************)

VARIABLES stage,         \* "idle", "open", "quiet" (left alone), "reported"
          spanFailed,    \* the span's status is Error
          sampleFailed   \* the sample carries error.type

vars == <<stage, spanFailed, sampleFailed>>

Init == stage = "idle" /\ spanFailed = FALSE /\ sampleFailed = FALSE

Open  == stage = "idle" /\ stage' = "open"  /\ UNCHANGED <<spanFailed, sampleFailed>>
Leave == stage = "idle" /\ stage' = "quiet" /\ UNCHANGED <<spanFailed, sampleFailed>>

Report ==
  /\ stage = "open"
  /\ stage' = "reported"
  /\ spanFailed' \in BOOLEAN
  /\ sampleFailed' = spanFailed'

Next == Open \/ Leave \/ Report

Spec == Init /\ [][Next]_vars
=============================================================================
