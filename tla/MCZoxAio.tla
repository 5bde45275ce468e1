------------------------------ MODULE MCZoxAio ------------------------------
(* ZoxAio for TLC: the contents of a file that is not a text.              *)
EXTENDS ZoxAio

(* One file starts with the byte '\0'.                                     *)
FirstZero == {<<CHOOSE f \in File : TRUE, 0>>}
=============================================================================
