---------------------------- MODULE MCInstaller ----------------------------
(***************************************************************************)
(* The options people choose from.                                         *)
(***************************************************************************)
EXTENDS Installer, TLC

Kind(ns) == [kind |-> TRUE, registry |-> FALSE, create |-> FALSE, tag |-> "dev",
             ns |-> ns, creds |-> FALSE, expose |-> FALSE]
Registry(tag, ns, create, extras) ==
  [kind |-> FALSE, registry |-> TRUE, create |-> create, tag |-> tag,
   ns |-> ns, creds |-> extras, expose |-> extras]
Both == [Kind("wren-runs") EXCEPT !.registry = TRUE]

Installs == {Both, Registry("v1", "wren-runs", TRUE, TRUE), Registry("v1", "team", FALSE, FALSE),
             Kind("team")}
Uninstalls == {[ns |-> "wren-runs", delete |-> TRUE], [ns |-> "team", delete |-> FALSE]}

\* The people are interchangeable.
Symmetry == Permutations(People)

=============================================================================
