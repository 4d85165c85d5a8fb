--------------------------- MODULE MCClientConfig ---------------------------
(* Instances of ClientConfig for TLC. *)
EXTENDS ClientConfig, TLC

CONSTANTS n1, n2

MCSymmetry == Permutations(Nodes)

\* No step reads the file: what follows a first written one follows the empty one as well.
FirstFile == file.w = NoWindow
=============================================================================
