--------------------------- MODULE ContactHandler ---------------------------
(***************************************************************************)
(* The contact states of solver/modules/ContactHandler.cpp.                *)
(*                                                                         *)
(* Each contact point is served by one of four handlers.  Two questions    *)
(* are put to a handler after every QP: has the contact reached the        *)
(* boundary of its state (hasReachedBoundary), and which state replaces it *)
(* if it is the one to pivot (getNewContactHandler).  Both look at the     *)
(* forces and displacements of the contact only through comparisons with   *)
(* m_epsilon, so an answer of the QP is the record of these comparisons.   *)
(***************************************************************************)
EXTENDS Naturals

(* ln0   |lambda_n| <= epsilon                                             *)
(* cone  ||lambda_t| + |lambda_o| - mu lambda_n| <= epsilon                *)
(* dn0   |delta_n| <= epsilon                                              *)
(* dt0   |delta_t| <= epsilon and |delta_o| <= epsilon                     *)
Answer == [ln0 : BOOLEAN, cone : BOOLEAN, dn0 : BOOLEAN, dt0 : BOOLEAN]

(***************************************************************************)
(* The states a contact may take: the handlers of allowedContactStates,    *)
(* less the sliding one, which is listed but never chosen when sliding is  *)
(* disabled.                                                               *)
(***************************************************************************)
AllowedStates(friction, slide) ==
  IF friction THEN {"inactive", "stick"} \cup (IF slide THEN {"sliding"} ELSE {})
              ELSE {"active", "inactive"}

(***************************************************************************)
(* What a QP may answer for a contact in state s.  Comparisons that the    *)
(* handler of s does not make are TRUE.  The others are free, except that  *)
(* the forces of an open contact are fixed to zero, on its cone, if the QP *)
(* was solved.                                                             *)
(***************************************************************************)
AnswersIn(s, solved) ==
  {a \in Answer :
     /\ s \notin {"active", "stick", "sliding"} => a.ln0
     /\ (s # "stick" /\ (s = "inactive" => solved)) => a.cone
     /\ s # "inactive" => a.dn0
     /\ s # "sliding" => a.dt0}

(***************************************************************************)
(* hasReachedBoundary, with the candidateId it returns spelled out as the  *)
(* lines (0 normal, 1 and 2 tangential) that checkAndUpdatePivot marks for *)
(* the contact: candidateId 3 marks both tangential lines.                 *)
(***************************************************************************)
CandidateLines(s, slide, a) ==
  CASE s = "active"   -> IF a.ln0 THEN {0} ELSE {}
    [] s = "inactive" -> IF a.dn0 THEN {0} ELSE {}
    [] s = "stick"    -> IF slide /\ a.cone THEN {1, 2} ELSE IF a.ln0 THEN {0} ELSE {}
    [] s = "sliding"  -> IF a.ln0 THEN {0} ELSE IF a.dt0 THEN {1, 2} ELSE {}

(* allowSliding not looked at.                                             *)
GetNewContactHandlerIgnoringCone(s, friction, slide, a) ==
  CASE s = "active"   -> "inactive"
    [] s = "inactive" -> IF ~friction THEN "active" ELSE "sliding"
    [] s = "stick"    -> IF a.cone THEN "sliding" ELSE "inactive"
    [] s = "sliding"  -> IF a.ln0 THEN "inactive" ELSE "stick"

(***************************************************************************)
(* getNewContactHandler: the state that replaces s.                        *)
(***************************************************************************)
GetNewContactHandler(s, friction, slide, a) ==
  CASE s = "active"   -> "inactive"
    [] s = "inactive" -> IF ~friction THEN "active"
                         ELSE IF slide /\ a.cone THEN "sliding" ELSE "stick"
    [] s = "stick"    -> IF slide /\ a.cone THEN "sliding" ELSE "inactive"
    [] s = "sliding"  -> IF a.ln0 THEN "inactive" ELSE "stick"
=============================================================================
