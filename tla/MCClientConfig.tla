--------------------------- MODULE MCClientConfig ---------------------------
(***************************************************************************)
(* Small instances of ClientConfig: two PEMs that can be told apart, and   *)
(* one certificate in a binary encoding.                                   *)
(***************************************************************************)
EXTENDS ClientConfig, TLC

CONSTANTS p, q, der

MCTexts == {Empty, p, q, der}
MCUndecodable == {der}

\* No property tells one PEM from another.
Symmetry == Permutations({p, q})
=============================================================================
