------------------------------ MODULE MCServer ------------------------------
(* An instance of Server for TLC: a user, the same with a blank before the   *)
(* name, a user whose name is blank, a superuser and a read superuser.       *)
EXTENDS Server, TLC

CONSTANTS ann, annBlank, blank, root, guest

MCUsers == {ann, annBlank, blank, root, guest}
MCTrimmed == [u \in MCUsers |-> CASE u = annBlank -> ann
                                  [] u = blank -> Nobody
                                  [] OTHER -> u]
ServerSymmetry == Permutations(Jobs) \cup Permutations(Threads)
=============================================================================
