----------------------------- MODULE MCOifGroup -----------------------------
(***************************************************************************)
(* Instances of OifGroup: what the CLI configures, and where to stop.      *)
(***************************************************************************)
EXTENDS OifGroup

\* Interface 1 is in both groups, where the monitor may skip one of them.  In group 1 it is
\* joined by interface 2, which shares its bit with interface 0 if a mask has two bits.
ConfiguresBoth == {<<0, 1>>, <<1, 1>>, <<1, 2>>}

ConfiguresAll == Group \X If

\* The histories never go back, and nothing is claimed once the threads have met; only
\* InUseLeftAlone is if the monitor has gone astray and a bit was treated twice.
Claimed == ~ met /\ ~ (astray /\ doubled)
=============================================================================
