------------------------------- MODULE MCProbe -------------------------------
(* Probe on small port lists: absent, single, fewer and more ports than    *)
(* threads, overlapping and unordered ranges, and each rejected form.      *)
EXTENDS Probe

Ports(a, b) == [first |-> a, last |-> b]
Port(p) == Ports(p, p)

MCPortArguments == {<<>>, <<Port(3)>>, <<Port(5), Port(2)>>,
                    <<Ports(4, 5), Port(2), Port(4)>>,
                    <<Ports(2, 5)>>, <<Port(2), Ports(1, 5)>>,
                    <<Port(0)>>, <<Ports(5, 4)>>}

MCDestinations == {<<"v6">>, <<"v6", "v4">>}
=============================================================================
