------------------------------ MODULE MCFrontend ------------------------------
(* Bounds of the frontend's runs.  A behaviour has one of these budgets:    *)
(* two requests under a stop; a death of either worker under a stop or under *)
(* a rebuild; one client that leaves, is refused or meets a send that raises *)
(* while prepare-stop is retried; a rebuild that meets prepare-stop.         *)
EXTENDS Frontend

B(users, tokens, leaves, prepares, rebuilds, stops, rejects, deaths, faults, preempts) ==
    [users |-> users, tokens |-> tokens, leaves |-> leaves,
     prepares |-> prepares, rebuilds |-> rebuilds, stops |-> stops,
     rejects |-> rejects, deaths |-> deaths, faults |-> faults,
     preempts |-> preempts]

MCBudgets ==
    {B(2, 1, 0, 1, 0, 0, {}, {}, 0, FALSE),
     B(1, 1, 0, 1, 0, 1, {}, Workers, 0, TRUE),
     B(1, 1, 0, 0, 1, 0, {}, Workers, 0, TRUE),
     B(1, 2, 1, 2, 0, 0, {0}, {}, 1, TRUE),
     B(1, 1, 0, 1, 1, 1, {}, {}, 0, TRUE)}

\* One request, one call of prepare-stop and one SIGTERM.
OneStop == {B(1, 1, 0, 1, 0, 1, {}, {}, 0, TRUE)}
=============================================================================
