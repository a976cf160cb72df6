--------------------------- MODULE MCEmailLibrary ---------------------------
(***************************************************************************)
(* The instances of EmailLibrary that are model-checked, one record per    *)
(* budget.  The second account has no Sent folder; uids 1 and 2 name mails *)
(* in each of the three mailboxes.                                         *)
(***************************************************************************)
EXTENDS EmailLibrary, TLC

Budget(f) == f @@ [what \in Spendable |-> 0]

Mail(a, f, u) == [acct |-> a, folder |-> f, uid |-> u]

MCHas == {<<"a1", "Inbox">>, <<"a1", "Sent">>, <<"a2", "Inbox">>}

MCStored == {Mail("a1", "Inbox", 1), Mail("a1", "Inbox", 2), Mail("a1", "Sent", 1),
             Mail("a2", "Inbox", 1)}
MCAnswered == {Mail("a1", "Inbox", 2)}

\* Two queries share a mail; one finds the body of another.  The third finds nothing.
MCHits == "q" :> {Mail("a1", "Inbox", 1), Mail("a1", "Inbox", 2), Mail("a2", "Inbox", 1)} @@
          "p" :> {Mail("a1", "Inbox", 1), Mail("a1", "Sent", 1), Mail("a2", "Inbox", 1)} @@
          "z" :> {}
MCBodies == {Mail("a1", "Inbox", 2)}

\* Folders, filters, accounts and deletions; then searches, which may fail; then a user
\* who does not wait.  No budget lets three pills stand, nor combines searches with lists
\* and deletions that fail.
MCBudgets == {
      Budget("opens" :> 1 @@ "folders" :> 2 @@ "filters" :> 2 @@ "refreshes" :> 1),
      Budget("opens" :> 2 @@ "folders" :> 2 @@ "refreshes" :> 1 @@ "fails" :> 1),
      Budget("opens" :> 2 @@ "accounts" :> 2 @@ "folders" :> 1),
      Budget("opens" :> 1 @@ "ticks" :> 2 @@ "bulks" :> 1 @@ "folders" :> 2),
      Budget("opens" :> 1 @@ "ticks" :> 2 @@ "bulks" :> 2 @@ "filters" :> 1),
      Budget("opens" :> 2 @@ "ticks" :> 2 @@ "bulks" :> 1 @@ "refreshes" :> 1 @@ "fails" :> 1),
      Budget("opens" :> 2 @@ "deletes" :> 2 @@ "refreshes" :> 1),
      Budget("opens" :> 2 @@ "deletes" :> 1 @@ "folders" :> 1 @@ "refreshes" :> 1),
      Budget("opens" :> 1 @@ "deletes" :> 1 @@ "accounts" :> 2),
      Budget("opens" :> 1 @@ "deletes" :> 1 @@ "fails" :> 1 @@ "refreshes" :> 1),
      Budget("opens" :> 1 @@ "accounts" :> 1 @@ "fails" :> 1 @@ "filters" :> 1),
      Budget("opens" :> 2 @@ "warms" :> 2 @@ "deletes" :> 1 @@ "refreshes" :> 1),
      Budget("opens" :> 2 @@ "filters" :> 2 @@ "deletes" :> 1 @@ "refreshes" :> 1 @@ "fails" :> 1),
      Budget("opens" :> 2 @@ "filters" :> 1 @@ "deletes" :> 2),
      Budget("opens" :> 2 @@ "filters" :> 1 @@ "ticks" :> 1 @@ "bulks" :> 1),
      Budget("opens" :> 1 @@ "types" :> 2 @@ "clears" :> 1 @@ "misses" :> 2),
      Budget("opens" :> 2 @@ "types" :> 1 @@ "enters" :> 1 @@ "unpills" :> 1 @@ "misses" :> 1),
      Budget("opens" :> 1 @@ "types" :> 1 @@ "folders" :> 1 @@ "accounts" :> 1 @@ "misses" :> 1),
      Budget("opens" :> 2 @@ "filters" :> 1 @@ "deletes" :> 1 @@ "types" :> 1 @@ "clears" :> 1),
      Budget("opens" :> 1 @@ "types" :> 2 @@ "enters" :> 2 @@ "unpills" :> 2),
      Budget("opens" :> 1 @@ "types" :> 1 @@ "enters" :> 1 @@ "senders" :> 1 @@ "unpills" :> 2),
      Budget("opens" :> 2 @@ "types" :> 1 @@ "clears" :> 1 @@ "refreshes" :> 1),
      Budget("opens" :> 2 @@ "types" :> 1 @@ "folders" :> 1),
      Budget("opens" :> 1 @@ "types" :> 1 @@ "accounts" :> 1),
      Budget("opens" :> 1 @@ "types" :> 1 @@ "deletes" :> 1 @@ "folders" :> 1),
      Budget("opens" :> 1 @@ "senders" :> 2 @@ "unpills" :> 2 @@ "refreshes" :> 1 @@ "deletes" :> 1),
      Budget("opens" :> 2 @@ "senders" :> 2 @@ "unpills" :> 1 @@ "folders" :> 1),
      Budget("opens" :> 1 @@ "types" :> 1 @@ "enters" :> 1 @@ "unpills" :> 1 @@ "accounts" :> 1),
      Budget("opens" :> 1 @@ "types" :> 1 @@ "ticks" :> 2 @@ "bulks" :> 1 @@ "hasty" :> 1),
      Budget("opens" :> 1 @@ "types" :> 1 @@ "deletes" :> 1 @@ "folders" :> 1 @@ "hasty" :> 1),
      Budget("opens" :> 2 @@ "types" :> 1 @@ "enters" :> 1 @@ "unpills" :> 1 @@ "hasty" :> 1)
    }

\* The budget of EmailDelete.cfg.
MCSearchThenDelete == {Budget("opens" :> 1 @@ "types" :> 1 @@ "deletes" :> 1)}
=============================================================================
