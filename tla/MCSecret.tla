------------------------------- MODULE MCSecret -------------------------------
(* Two names for the path of one secret, in either order, and a name with  *)
(* no path.                                                                *)
EXTENDS Secret

CONSTANTS h1, h2, h3

app == <<<<"secrets">>, <<"app", "json", "asc">>>>
appToo == <<<<"more">>, <<"app", "asc">>>>
bare == <<<<"app", "json", "asc">>>>

MCHandlers == {h1, h2, h3}
MCArtifactsOf == [h \in MCHandlers |->
    CASE h = h1 -> <<app, bare>> [] h = h2 -> <<appToo, app>> [] h = h3 -> <<app>>]
=============================================================================
