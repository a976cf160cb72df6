---------------------------- MODULE MCChatClient ----------------------------
(* The budgets for ChatClient: switching and stopping, recovering, queueing, *)
(* a history that fails, sends that wait before their POST, a reload, POSTs  *)
(* that are refused, and errors read in the background.                      *)
EXTENDS ChatClient, TLC

Budget(f) == f @@ [what \in Spendable |-> 0]

MCBudgets ==
    {Budget("typed" :> 1 @@ "turns" :> 1 @@ "selects" :> 2 @@ "stops" :> 1),
     Budget("typed" :> 1 @@ "turns" :> 3 @@ "selects" :> 1 @@ "losses" :> 2),
     Budget("typed" :> 2 @@ "turns" :> 2 @@ "selects" :> 1 @@ "losses" :> 2 @@ "stops" :> 1),
     Budget("typed" :> 3 @@ "turns" :> 3 @@ "stops" :> 1 @@ "promotes" :> 1),
     Budget("typed" :> 2 @@ "turns" :> 3 @@ "losses" :> 2 @@ "stops" :> 1 @@ "promotes" :> 1),
     Budget("typed" :> 1 @@ "turns" :> 1 @@ "selects" :> 2 @@ "losses" :> 1 @@ "failures" :> 1),
     Budget("typed" :> 2 @@ "turns" :> 3 @@ "losses" :> 1 @@ "stops" :> 1 @@ "gaps" :> 1),
     Budget("typed" :> 2 @@ "turns" :> 4 @@ "losses" :> 2 @@ "stops" :> 1),
     Budget("typed" :> 1 @@ "turns" :> 2 @@ "selects" :> 1 @@ "stops" :> 1 @@ "reloads" :> 1),
     Budget("typed" :> 2 @@ "turns" :> 3 @@ "losses" :> 1 @@ "stops" :> 1 @@ "refusals" :> 1),
     Budget("typed" :> 2 @@ "turns" :> 2 @@ "stops" :> 1 @@ "gaps" :> 1 @@ "refusals" :> 1),
     Budget("typed" :> 1 @@ "turns" :> 1 @@ "selects" :> 2 @@ "refusals" :> 1),
     Budget("typed" :> 2 @@ "turns" :> 2 @@ "selects" :> 2 @@ "errors" :> 1)}
=============================================================================
