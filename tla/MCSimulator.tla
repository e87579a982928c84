---------------------------- MODULE MCSimulator ----------------------------
(* The simulator alone for TLC, with the scheduler of one algorithm.          *)
EXTENDS Simulator

\* One task with a long burst that arrives first, and shorter ones behind it.
J(p, t, r, b) == [priority |-> p, arrive |-> t, runs |-> r, blocks |-> b]
SimulatedJobs == {J(0, 0, <<3>>, <<>>), J(1, 1, <<2>>, <<>>), J(3, 1, <<1, 1>>, <<1>>)}
SimulatorSpec == Init /\ [][Next]_vars
=============================================================================
