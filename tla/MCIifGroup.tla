------------------------------ MODULE MCIifGroup ------------------------------
(***************************************************************************)
(* An instance of IifGroup: which session configures what.                 *)
(***************************************************************************)
EXTENDS IifGroup, TLC

CONSTANTS s1, s2

\* The sessions share group 1, where they may meet, and interfaces 0 and 1, which they may
\* move between groups 0 and 1 at the same time.  With masks of two bits, interfaces
\* 0 and 2 share one.
ConfiguresShared ==
  (s1 :> ({0, 1} \X {0, 1, 2})) @@ (s2 :> ({1} \X {0, 1}))
=============================================================================
