---------------------------- MODULE ReviewLedger ----------------------------
(***************************************************************************)
(* What the question-answering pipeline promises about what it remembers:  *)
(* a question is settled once, as answered or as refused; only an answered *)
(* question becomes a precedent of the contract graph; and a later         *)
(* question is grounded only in questions that were answered before it.    *)
(***************************************************************************)
CONSTANT Questions

VARIABLES verdict,    \* "open", "answered" or "refused"
          context,    \* the questions each question remembers
          precedent   \* the questions recorded in the contract graph

ledgerVars == <<verdict, context, precedent>>

LedgerInit ==
    /\ verdict = [q \in Questions |-> "open"]
    /\ context = [q \in Questions |-> {}]
    /\ precedent = {}

Answered == {q \in Questions : verdict[q] = "answered"}

Ground(q) ==
    /\ verdict[q] = "open"
    /\ context[q] = {}
    /\ \E S \in SUBSET Answered : context' = [context EXCEPT ![q] = S]
    /\ UNCHANGED <<verdict, precedent>>

Settle(q) ==
    /\ verdict[q] = "open"
    /\ \E v \in {"answered", "refused"} :
         verdict' = [verdict EXCEPT ![q] = v]
    /\ UNCHANGED <<context, precedent>>

Record(q) ==
    /\ q \in Answered
    /\ precedent' = precedent \union {q}
    /\ UNCHANGED <<verdict, context>>

LedgerNext == \E q \in Questions : Ground(q) \/ Settle(q) \/ Record(q)

LedgerSpec == LedgerInit /\ [][LedgerNext]_ledgerVars
=============================================================================
