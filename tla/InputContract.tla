--------------------------- MODULE InputContract ---------------------------
(***************************************************************************)
(* What an upload request promises: its file is promoted to the input of a *)
(* job at most once, it stays that job's input until the job is over, and  *)
(* an input that was given up is never attached afterwards.                *)
(***************************************************************************)

VARIABLES
    input,  \* "none", "reserved", "attached", "released"
    job     \* "absent", "active", "over"

vars == <<input, job>>

Init == input = "none" /\ job = "absent"

Reserve == input = "none" /\ input' = "reserved" /\ UNCHANGED job

Attach ==
    /\ input = "reserved" /\ job = "absent"
    /\ input' = "attached" /\ job' = "active"

FinishJob == job = "active" /\ job' = "over" /\ UNCHANGED input

Release ==
    /\ \/ input = "reserved"
       \/ input = "attached" /\ job = "over"
    /\ input' = "released"
    /\ UNCHANGED job

Next == Reserve \/ Attach \/ FinishJob \/ Release

Spec == Init /\ [][Next]_vars
=============================================================================
