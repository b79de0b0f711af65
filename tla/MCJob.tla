-------------------------------- MODULE MCJob --------------------------------
(* Names with and without dashes, one and two groups that differ in any   *)
(* one field, with, without and with a disabled health check.             *)
EXTENDS Job

Base == [count |-> 1, cpu |-> 100, memory |-> 256, args |-> <<>>,
         volumes |-> <<>>, usernsMode |-> FALSE, distinctHosts |-> FALSE]

MCDetails ==
    {Nil, Base, [Base EXCEPT !.count = 2], [Base EXCEPT !.cpu = 200],
     [Base EXCEPT !.memory = 100], [Base EXCEPT !.args = <<"a">>],
     [Base EXCEPT !.volumes = <<"a">>], [Base EXCEPT !.usernsMode = TRUE],
     [Base EXCEPT !.distinctHosts = TRUE]}

With(names, java, details, revisions) ==
    [job : names, java : java, publishing : details, web : details,
     healthcheck : {Nil, [enabled |-> FALSE, path |-> "/health"],
                    [enabled |-> TRUE, path |-> "/health"],
                    [enabled |-> TRUE, path |-> "/"]},
     revision : revisions]

MCMessages ==
    With({<<"app">>, <<"app", "web">>, <<"app", "web", "publishing">>}, {FALSE},
         MCDetails, {"abc"})
    \cup With({<<"app">>}, BOOLEAN, {Nil, Base}, {"abc", "def"})
=============================================================================
