------------------------------- MODULE GridWalk -------------------------------
(***************************************************************************)
(* One step of the grid coder's walk as a function of its state.           *)
(*                                                                         *)
(* GridCoder's actions are relations, and each is the encoder's and the    *)
(* decoder's.  What they have in common is stated here once: the bit that  *)
(* is true of the question, and where the walk stands when it is answered. *)
(* Proofs compare the decoder with what the encoder was at the same place; *)
(* for that this module is instantiated at a state of the past.            *)
(***************************************************************************)
EXTENDS GridCoder

(* The bit that answers the question *)
TrueBit ==
  IF at.stage = "head" THEN IF Truth = PrimaryValue(Neighbors) THEN 1 ELSE 0
  ELSE IF at.stage = "candidate" THEN IF Truth = Candidate THEN 1 ELSE 0
  ELSE (SlotOf(Truth) \div 2 ^ at.bit_pos) % 2

(* The coder knows the cell's value after this step. *)
Completes ==
  \/ at.stage = "head" /\ Truth = PrimaryValue(Neighbors)
  \/ at.stage = "candidate" /\ Truth = Candidate
  \/ at.stage = "tree" /\ at.bit_pos < 0

(* Where a section's header leads *)
AfterHeader(header) ==
  IF header.bits = 0
  THEN [at |-> [at EXCEPT !.section = @ + 1], run |-> run, miss |-> miss, memo |-> memo]
  ELSE [at |-> [at EXCEPT !.stage = "head"], run |-> run, miss |-> miss, memo |-> NoMemo]

AfterHead ==
  IF Truth = PrimaryValue(Neighbors)
  THEN [at |-> NextCell, run |-> Min({run + 1, 255}), miss |-> [miss EXCEPT ![Here] = 0],
        memo |-> Memorized]
  ELSE [at |-> Residual, run |-> 0, miss |-> [miss EXCEPT ![Here] = 1], memo |-> Memorized]

AfterCandidate ==
  [at |-> IF Truth = Candidate THEN NextCell ELSE NextCandidate,
   run |-> run, miss |-> miss, memo |-> memo]

(* The tree goes to the half that has the cell's value. *)
AfterBranch ==
  [at |-> [at EXCEPT !.bit_pos = @ - 1,
                     !.partial = IF SlotOf(Truth) >= Node THEN Node ELSE @],
   run |-> run, miss |-> miss, memo |-> memo]

AfterLeaf == [at |-> NextCell, run |-> run, miss |-> miss, memo |-> memo]

Onward ==
  IF at.stage = "section" THEN AfterHeader(headers[at.section + 1])
  ELSE IF at.stage = "head" THEN AfterHead
  ELSE IF at.stage = "candidate" THEN AfterCandidate
  ELSE IF at.bit_pos >= 0 THEN AfterBranch ELSE AfterLeaf
=============================================================================
