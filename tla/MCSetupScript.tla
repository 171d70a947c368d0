---------------------------- MODULE MCSetupScript ----------------------------
(***************************************************************************)
(* Every script of up to four lines, and every script of five or six lines *)
(* made of the six lines that interact.  A is predefined, B is not: a      *)
(* value can be the text of a reference to B.                              *)
(***************************************************************************)
EXTENDS SetupScript

A == "A"
B == "B"
Core == {If("==", Ref(A), Lit("x")), If("!=", Ref(B), Lit("x")), Endif,
         Var(A, Lit("y")), Var(B, Ref(A)), Do}
Lines == Core \cup {If("!=", Ref(A), Lit("x")), If("set", Ref(A), Nil),
                   Var(A, Ref(B)), Var(B, Lit("x")), Bad, Empty}
MCScripts == UNION {[1..n -> Lines] : n \in 0..4} \cup UNION {[1..n -> Core] : n \in 5..6}
MCWords == {"x", "y"}
MCOrder == <<A, B>>
MCPredefined == [v \in {A, B} |-> IF v = A THEN Lit("x") ELSE Unset]
=============================================================================
