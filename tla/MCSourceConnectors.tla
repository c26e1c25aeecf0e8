------------------------ MODULE MCSourceConnectors ------------------------
(* Instances of SourceConnectors for TLC.                                  *)
EXTENDS SourceConnectors, TLC

CONSTANTS h1, h2, h3, h4, k1, k2

\* Handlers are interchangeable: nothing orders them.
HandlerSymmetry == Permutations({h1, h2, h3, h4})
=============================================================================
