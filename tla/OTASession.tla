----------------------------- MODULE OTASession -----------------------------
(***************************************************************************)
(* What the OTA agent promises about an update session, whatever happens   *)
(* on the network, in the storage or in the application's callbacks: the   *)
(* order of its phases, a bounded number of downloads, and no reset of the *)
(* device but for an image verified in the same session.  (The ids of      *)
(* cy_ota_agent_state_t in include/cy_ota_api.h name the phases' states.)  *)
(***************************************************************************)
EXTENDS Naturals

CONSTANT Tries          \* downloads one session may begin, a positive number

VARIABLES
  phase,                \* what the agent is doing
  verified,             \* this session's image has been verified
  attempts              \* downloads this session has begun

vars == <<phase, verified, attempts>>

Phases == {"off", "idle", "preparing", "downloading", "verifying",
           "reporting", "ending", "reset"}

TypeOK == phase \in Phases /\ verified \in BOOLEAN /\ attempts \in 0..Tries

Fresh == verified' = FALSE /\ attempts' = 0

Init == phase = "off" /\ verified = FALSE /\ attempts = 0

\* The agent rests, and forgets the session; from an error it may come back to
\* rest at any time.
Rest == phase # "reset" /\ phase' = "idle" /\ Fresh

Begin == phase = "idle" /\ phase' = "preparing" /\ UNCHANGED <<verified, attempts>>

Download ==
  \/ phase = "preparing" /\ phase' = "downloading" /\ UNCHANGED <<verified, attempts>>
  \/ /\ phase = "downloading" /\ attempts < Tries
     /\ attempts' = attempts + 1 /\ UNCHANGED <<phase, verified>>

Retry == phase = "downloading" /\ phase' = "preparing" /\ UNCHANGED <<verified, attempts>>

Verify ==
  \/ phase = "downloading" /\ phase' = "verifying" /\ UNCHANGED <<verified, attempts>>
  \/ phase = "verifying" /\ verified' = TRUE /\ UNCHANGED <<phase, attempts>>

Report == phase = "verifying" /\ phase' = "reporting" /\ UNCHANGED <<verified, attempts>>

End ==
  /\ phase \in {"preparing", "downloading", "reporting"}
  /\ phase' = "ending"
  /\ UNCHANGED <<verified, attempts>>

Reset == phase = "ending" /\ verified /\ phase' = "reset" /\ UNCHANGED <<verified, attempts>>

\* The agent's thread ends, or the device starts again.
Off == phase' = "off" /\ (UNCHANGED <<verified, attempts>> \/ Fresh)

Next == Rest \/ Begin \/ Download \/ Retry \/ Verify \/ Report \/ End \/ Reset \/ Off

Spec == Init /\ [][Next]_vars
=============================================================================
