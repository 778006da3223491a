---------------------------- MODULE OTADownload ----------------------------
(***************************************************************************)
(* What a download promises the OTA agent, over whichever transport: the   *)
(* parts of the image come into their places, none of them is lost again,  *)
(* and the download is a success only when every one of them is in place.  *)
(***************************************************************************)

VARIABLES
  parts,                \* the parts of the image the server holds
  stored,               \* the parts in their place in the secondary slot
  outcome               \* "none" while it runs, then "success" or "failure"

vars == <<parts, stored, outcome>>

TypeOK == stored \subseteq parts /\ outcome \in {"none", "success", "failure"}

Init == stored = {} /\ outcome = "none"

\* A part may still come while, or after, the download fails.
Store ==
  /\ outcome # "success"
  /\ stored' \in SUBSET parts /\ stored \subseteq stored'
  /\ UNCHANGED <<parts, outcome>>

Succeed ==
  /\ outcome = "none" /\ outcome' = "success"
  /\ stored' = parts /\ UNCHANGED parts

Fail ==
  /\ outcome = "none" /\ outcome' = "failure"
  /\ stored' \in SUBSET parts /\ stored \subseteq stored'
  /\ UNCHANGED parts

Next == Store \/ Succeed \/ Fail

Spec == Init /\ [][Next]_vars
=============================================================================
