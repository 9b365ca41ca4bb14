---------------------------- MODULE ApprovalGate ----------------------------
(***************************************************************************)
(* What an approval chain promises, whoever decides and however requests   *)
(* overlap: a brief is issued with all its steps open; steps leave the     *)
(* chain from its front, one at a time, or all at once when somebody       *)
(* refuses; the brief is closed at the very step that leaves no step open, *)
(* and stays closed.                                                       *)
(***************************************************************************)
EXTENDS Integers

CONSTANTS BriefIds, Positions

VARIABLES open,   \* the open steps of each brief
          phase   \* "none", "open" or "closed"

gateVars == <<open, phase>>

GateInit ==
    /\ open = [b \in BriefIds |-> {}]
    /\ phase = [b \in BriefIds |-> "none"]

Issue(b) ==
    /\ phase[b] = "none"
    /\ \E last \in Positions :
         open' = [open EXCEPT ![b] = {i \in Positions : i <= last}]
    /\ phase' = [phase EXCEPT ![b] = "open"]

\* the brief stays open exactly while a step does
LeaveOpen(b, rest) ==
    /\ open' = [open EXCEPT ![b] = rest]
    /\ phase' = [phase EXCEPT ![b] = IF rest = {} THEN "closed" ELSE "open"]

Pass(b) ==
    /\ phase[b] = "open"
    /\ \E i \in open[b] :
         /\ \A j \in open[b] : i <= j
         /\ LeaveOpen(b, open[b] \ {i})

Refuse(b) ==
    /\ phase[b] = "open"
    /\ LeaveOpen(b, {})

GateNext == \E b \in BriefIds : Issue(b) \/ Pass(b) \/ Refuse(b)

GateSpec == GateInit /\ [][GateNext]_gateVars
=============================================================================
