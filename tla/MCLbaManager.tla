---------------------------- MODULE MCLbaManager ----------------------------
(* Ranges for model checking LbaManager.                                   *)
EXTENDS LbaManager

\* The default, a part of the namespace, and a start and an end beyond the namespace.
MCRanges == {<<0, 0>>, <<1, 3>>, <<15, 9>>}
=============================================================================
