---------------------------- MODULE MCServiceRun -----------------------------
(* Four runs: two clients who install; one client and all the services; one client *)
(* while writes fail; and the datagram services, which also break, while writes    *)
(* fail.                                                                           *)
EXTENDS ServiceRun

CONSTANTS c1, c2, h1, h2

Each(x1, x2) == [c \in Conns |-> IF c = c1 THEN x1 ELSE x2]

MCPlans ==
  { [services |-> {"rsh"}, from |-> Each({h1}, {h1, h2}), commands |-> Each(2, 1), faults |-> 0, breaks |-> {}],
    [services |-> Services, from |-> Each({h1}, {}), commands |-> Each(0, 0), faults |-> 0, breaks |-> {}],
    [services |-> {"rsh"}, from |-> Each({h1}, {}), commands |-> Each(2, 0), faults |-> 1, breaks |-> {"rsh"}],
    [services |-> {"bootp", "tftp"}, from |-> Each({}, {}), commands |-> Each(0, 0), faults |-> 2,
     breaks |-> {"bootp", "tftp"}] }
=============================================================================
