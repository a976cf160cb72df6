-------------------------- MODULE MCDocumentEditor --------------------------
(***************************************************************************)
(* The instances of DocumentEditor that are model-checked, one record per  *)
(* budget: two stored documents and one the agent may create.              *)
(***************************************************************************)
EXTENDS DocumentEditor, TLC

Budget(f) == f @@ [what \in Spendable |-> 0]

MCBudgets ==
    { Budget("typed" :> 2 @@ "edits" :> 1),
      Budget("typed" :> 1 @@ "edits" :> 1 @@ "repeats" :> 1),
      Budget("typed" :> 1 @@ "switches" :> 1 @@ "edits" :> 1),
      Budget("switches" :> 1 @@ "edits" :> 1 @@ "streams" :> 1),
      Budget("typed" :> 1 @@ "switches" :> 1 @@ "streams" :> 1),
      Budget("typed" :> 1 @@ "streams" :> 2 @@ "closes" :> 1),
      Budget("typed" :> 1 @@ "leaves" :> 1 @@ "streams" :> 1),
      Budget("leaves" :> 1 @@ "streams" :> 1 @@ "edits" :> 1),
      Budget("leaves" :> 1 @@ "streams" :> 2),
      Budget("typed" :> 1 @@ "edits" :> 1 @@ "smalls" :> 1),
      Budget("typed" :> 1 @@ "versions" :> 1 @@ "saves" :> 2),
      Budget("typed" :> 2 @@ "compares" :> 1 @@ "saves" :> 1),
      Budget("typed" :> 1 @@ "docks" :> 1 @@ "opens" :> 1 @@ "closes" :> 2),
      Budget("docks" :> 1 @@ "edits" :> 1 @@ "closes" :> 1),
      Budget("deletes" :> 1 @@ "edits" :> 1 @@ "errors" :> 1),
      Budget("deletes" :> 1 @@ "streams" :> 1),
      Budget("deletes" :> 2 @@ "closes" :> 1 @@ "leaves" :> 1) }
=============================================================================
