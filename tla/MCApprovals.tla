----------------------------- MODULE MCApprovals -----------------------------
(* Two calls of terminal commands, one that asks and one that is refused,  *)
(* in the kinds of turns that the code tells apart.  One remembered        *)
(* resolution and one token, so that the limits are reached.               *)
EXTENDS Approvals

Command(outside, mutating) ==
  [terminal |-> TRUE, outside |-> outside, mutating |-> mutating, risky |-> mutating,
   confirmable |-> FALSE, forced |-> FALSE]

MCTool == {Command(FALSE, TRUE), Command(TRUE, TRUE)}

MCTurn ==
  {[auto |-> auto, unattended |-> unattended, full |-> full] :
     <<auto, unattended, full>> \in {<<FALSE, FALSE, FALSE>>, <<FALSE, TRUE, FALSE>>,
                                     <<TRUE, FALSE, FALSE>>, <<TRUE, FALSE, TRUE>>}}
=============================================================================
