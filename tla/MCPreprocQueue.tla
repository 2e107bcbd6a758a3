--------------------------- MODULE MCPreprocQueue ---------------------------
(* Item p has the dependent items c and d, item s has none. *)
EXTENDS PreprocQueue

MCItems == {"p", "c", "d", "s"}
MCDeps == [i \in MCItems |-> IF i = "p" THEN <<"d", "c">> ELSE <<>>]
Conf(p, c, d, s, cacheable) ==
  [mode |-> [i \in MCItems |-> CASE i = "p" -> p [] i = "c" -> c
                                 [] i = "d" -> d [] i = "s" -> s],
   cacheable |-> cacheable]
MCConfigs ==
  {Conf("parallel", "serial", "parallel", "serial", {"c"}),
   Conf("serial", "parallel", "parallel", "none", {})}
MCChanges ==
  {Conf("parallel", "none", "parallel", "none", {}),
   Conf("serial", "parallel", "parallel", "none", {"c"})}
MCDiscarded == {<<"c", 1>>}
=============================================================================
