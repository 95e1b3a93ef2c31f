------------------------------- MODULE MCInitd -------------------------------
(* Instances of Initd for TLC. *)
EXTENDS Initd

\* 1: an adaptor with the control socket; 2 and 3: start-stop tasks that depend on
\* it; 4: an adaptor that declares a dependency twice; 5: a start-stop task on top,
\* with a side branch to 3.
DiamondDeps == <<<<>>, <<1>>, <<1>>, <<2, 3, 2>>, <<4, 3>>>>
DiamondLevels == {[default |-> {5}, middle |-> {2}, base |-> {1}],
                  [default |-> {3}, middle |-> {}, base |-> {5}],
                  [base |-> {1}]}

\* 1 - 2 - 3 is a chain; 4 and 5 depend on each other and can never start.
CycleDeps == <<<<>>, <<1>>, <<2, 1>>, <<5, 1>>, <<4>>>>
CycleLevels == {[default |-> {3, 5}, low |-> {1, 2}], [default |-> {2}, low |-> {4}]}

\* Two start-stop tasks that need nothing: both are forked while booting.
BootDeps == <<<<>>, <<>>, <<>>, <<2, 3>>>>
BootLevels == {[default |-> {1, 4}]}

=============================================================================
