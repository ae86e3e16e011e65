----------------------------- MODULE MCReadScope -----------------------------
(***************************************************************************)
(* An instance of ReadScope for TLC: two drives, one of which may be empty.*)
(* The account owns the data folder, and everyone may traverse the root.   *)
(***************************************************************************)
EXTENDS ReadScope, TLC

Parent ==
    [sys |-> "c", users |-> "c", data |-> "c", profile |-> "users", other |-> "users",
     w1 |-> "data", w2 |-> "data"]

Tree == DOMAIN Parent \cup {"c", "e"}
Paths[d \in Tree] == IF d \in DOMAIN Parent THEN {d} \cup Paths[Parent[d]] ELSE {d}

Empty == {"e"}
SystemAndProfile == {"sys", "profile"}
Working == {"profile", "w1", "data"}
Namespace == {"session"}
Own == {"data"}
AtFirst == [o \in Tree \cup Namespace |->
              IF o = "c" THEN {"traverse"} ELSE IF o = "other" THEN {"full"} ELSE {}]

Symmetry == Permutations(Sessions)
=============================================================================
