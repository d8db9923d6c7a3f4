---------------------------- MODULE CampaignSpec ----------------------------
(***************************************************************************)
(* What a campaign promises its caller, however it is driven: the fault    *)
(* sets it was asked about are answered, each once, in any order; it       *)
(* returns when all are answered, and it raises instead of returning when  *)
(* one cannot be.                                                          *)
(***************************************************************************)
EXTENDS Integers

VARIABLES asked,      \* number of fault sets
          answered,   \* positions of those answered
          status

Init == asked = 0 /\ answered = {} /\ status = "idle"

Ask == /\ status # "open"
       /\ asked' \in Nat
       /\ status' = "open"
       /\ answered' = {}

Answer == /\ status = "open"
          /\ answered' \in SUBSET (1..asked)
          /\ answered \subseteq answered'
          /\ UNCHANGED <<asked, status>>

Return == /\ status = "open" /\ answered = 1..asked
          /\ status' = "returned"
          /\ UNCHANGED <<asked, answered>>

Raise == /\ status = "open" /\ answered # 1..asked
         /\ status' = "raised"
         /\ UNCHANGED <<asked, answered>>

Next == Ask \/ Answer \/ Return \/ Raise

Spec == Init /\ [][Next]_<<asked, answered, status>>
=============================================================================
