------------------------------ MODULE MCStartup ------------------------------
(* TLC instances of Startup. *)
EXTENDS Startup

R(prefix, client) == [name |-> "c", prefix |-> prefix, kubeconfig |-> TRUE,
                      api |-> FALSE, client |-> client]
F(remotes) == [settings |-> {"mirrorNamespace"}, local |-> "local", remotes |-> remotes,
               labelParses |-> TRUE, localClient |-> TRUE, serviceSync |-> TRUE]
A == <<"cluster", "A">>
B == <<"cluster", "B">>
Good == F(<<R(A, TRUE), R(B, TRUE)>>)
\* Configs that lack something, and prefixes that run into each other.
SomeFiles == {
    Good,
    F(<<R(A, TRUE), R(B, FALSE)>>),
    F(<<R(A, TRUE), R(<<>>, TRUE)>>)}
TwoSettings == {"mirrorNamespace", "globalSvcLabelSelector"}
OneFlag == {"globalSvcLabelSelector"}
\* Without the separator the two would have the same mirror.
web == [namespace |-> <<"a", "b">>, name |-> <<"c">>]
TwoOriginals == {web, [namespace |-> <<"a">>, name |-> <<"b", "c">>]}
Of(change, outage, crash) == [change |-> change, outage |-> outage, crash |-> crash]
\* A service goes and comes back; or an outage meets a change or a restart.
SmallBudgets == {Of(2, 0, 0), Of(1, 1, 0), Of(0, 1, 1)}

\* Cluster 2 has lost the service of a mirror while no process ran.
LiveInit ==
    /\ Init
    /\ answering = Clusters /\ mirrors = {MirrorOf(2, web)}
    /\ originals = [i \in Remotes |-> IF i = 1 THEN {web} ELSE {}]
LiveSpec == LiveInit /\ [][Next]_vars /\ Fairness
=============================================================================
