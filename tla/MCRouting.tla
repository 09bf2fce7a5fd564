----------------------------- MODULE MCRouting -----------------------------
(***************************************************************************)
(* Files of up to three entries with the names p1, p2, p3, a reference to  *)
(* the environment or none, one kind of entry without `use`, and a timeout *)
(* of -1, 0 or 30; every configured order of up to three names.            *)
(***************************************************************************)
EXTENDS Routing

CONSTANTS p1, p2, p3, local, given, mock

MCEntries == [name : {p1, p2, p3, Var}, use : {mock}]
               \cup {[name |-> Empty, use |-> mock], [name |-> p1, use |-> Empty]}
MCFiles == {[address |-> IF t > 0 THEN local ELSE Empty, timeout |-> t,
             providers |-> ps, router |-> Empty] :
              t \in {-1, 0, 30}, ps \in BoundedSeq(MCEntries, 3)}
MCEnvs == [VAR : {Empty, p1, p3}, CONDUCTOR_ADDRESS : {Empty, given}]
MCTexts == {Empty, local, given, mock}
MCOrders == BoundedSeq(Names, 3)
=============================================================================
