------------------------------ MODULE MC_UldGdb ------------------------------
(***************************************************************************)
(* Model values for UldGdb: a program that starts on an instruction, stops *)
(* at two bkpts and ends on an instruction, and the arguments of 'uld      *)
(* example set' around both ends of its range and one that is no int.      *)
(***************************************************************************)
EXTENDS UldGdb

MC_Prog == <<"insn", "bkpt", "insn", "bkpt", "insn">>

MC_ExampleArgs ==
    {[int |-> FALSE, val |-> 0]}
    \cup {[int |-> TRUE, val |-> v] : v \in {-2, 0, 6, 7}}

=============================================================================
