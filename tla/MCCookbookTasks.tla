--------------------------- MODULE MCCookbookTasks ---------------------------
(***************************************************************************)
(* The instances of CookbookTasks that are model-checked, one record per   *)
(* budget: two models for one host, and a second device that may join.     *)
(***************************************************************************)
EXTENDS CookbookTasks, TLC

Budget(f) == f @@ [what \in Spendable |-> 0]

MCHostOf == "m1" :> "local" @@ "m2" :> "local"

MCBudgets ==
    { Budget("downloads" :> 1 @@ "watches" :> 1 @@ "stalls" :> 2),
      Budget("downloads" :> 1 @@ "watches" :> 1 @@ "stalls" :> 1 @@ "errors" :> 1),
      Budget("downloads" :> 1 @@ "removes" :> 1 @@ "watches" :> 1),
      Budget("downloads" :> 1 @@ "stops" :> 1 @@ "watches" :> 1 @@ "fails" :> 1),
      Budget("downloads" :> 1 @@ "restarts" :> 1 @@ "errors" :> 2),
      Budget("downloads" :> 1 @@ "removes" :> 1 @@ "errors" :> 1),
      Budget("downloads" :> 1 @@ "fails" :> 3 @@ "watches" :> 2),
      Budget("downloads" :> 2 @@ "shows" :> 1 @@ "watches" :> 1),
      Budget("downloads" :> 2 @@ "shows" :> 1 @@ "pills" :> 1),
      Budget("downloads" :> 1 @@ "pills" :> 1 @@ "watches" :> 1),
      Budget("downloads" :> 1 @@ "watches" :> 1 @@ "deaths" :> 1),
      Budget("downloads" :> 1 @@ "opens" :> 1 @@ "shows" :> 1 @@ "watches" :> 1 @@ "deaths" :> 1),
      Budget("downloads" :> 2 @@ "opens" :> 1),
      Budget("downloads" :> 1 @@ "lost" :> 1 @@ "watches" :> 1 @@ "deaths" :> 1),
      Budget("downloads" :> 1 @@ "lost" :> 1 @@ "removes" :> 1 @@ "loads" :> 1),
      Budget("downloads" :> 2 @@ "lost" :> 1 @@ "fails" :> 1),
      Budget("downloads" :> 1 @@ "slow" :> 1 @@ "removes" :> 1),
      Budget("downloads" :> 1 @@ "slow" :> 1 @@ "pills" :> 1),
      Budget("downloads" :> 1 @@ "clears" :> 1 @@ "fails" :> 1 @@ "loads" :> 1),
      Budget("downloads" :> 1 @@ "removes" :> 1 @@ "loads" :> 1),
      Budget("downloads" :> 1 @@ "stops" :> 1 @@ "loads" :> 1),
      Budget("downloads" :> 2 @@ "loads" :> 1),
      Budget("downloads" :> 1 @@ "joins" :> 1 @@ "watches" :> 1),
      Budget("downloads" :> 1 @@ "joins" :> 1 @@ "clears" :> 1 @@ "fails" :> 1),
      Budget("downloads" :> 2 @@ "shows" :> 1 @@ "starts" :> 1 @@ "watches" :> 1 @@ "busy" :> 1),
      Budget("downloads" :> 2 @@ "shows" :> 1 @@ "starts" :> 2 @@ "errors" :> 1 @@ "busy" :> 1),
      Budget("downloads" :> 2 @@ "shows" :> 1 @@ "starts" :> 1 @@ "removes" :> 1 @@ "busy" :> 1),
      Budget("downloads" :> 2 @@ "shows" :> 1 @@ "starts" :> 1 @@ "stops" :> 1 @@ "busy" :> 1),
      Budget("downloads" :> 2 @@ "shows" :> 1 @@ "watches" :> 1 @@ "fails" :> 1 @@ "busy" :> 1),
      Budget("downloads" :> 2 @@ "shows" :> 1 @@ "restarts" :> 1 @@ "busy" :> 1),
      Budget("downloads" :> 1 @@ "restarts" :> 1 @@ "fails" :> 1 @@ "watches" :> 1 @@ "busy" :> 1),
      Budget("downloads" :> 1 @@ "restarts" :> 2 @@ "busy" :> 1) }
=============================================================================
