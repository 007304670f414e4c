-------------------------- MODULE MCOperationSlot --------------------------
(***************************************************************************)
(* Instances of OperationSlot for TLC, checked in one run: two requests and *)
(* two failures beside one result and one boundary, one request beside      *)
(* three of them, and two results and two boundaries alone.                 *)
(***************************************************************************)
EXTENDS OperationSlot, TLC

CONSTANTS f1, f2, t1, t2

MCInit ==
  \/ InitWith({f1}, {t1}, 0, 0)
  \/ InitWith({f1, f2}, {t1}, 1, 2)
  \/ InitWith({f1}, {t1, t2}, 1, 2)
  \/ InitWith({f1, f2}, {t1, t2}, 2, 2)
MCSpec == MCInit /\ [][Next]_vars /\ Fairness
=============================================================================
