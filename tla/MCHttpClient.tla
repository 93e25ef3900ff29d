---------------------------- MODULE MCHttpClient ----------------------------
(***************************************************************************)
(* Instances of HttpClient for TLC.                                        *)
(***************************************************************************)
EXTENDS HttpClient, TLC

\* Requests are interchangeable, and so are callers.
Symmetry == Permutations(Requests) \cup Permutations(Callers)
=============================================================================
