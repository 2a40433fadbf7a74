--------------------------- MODULE MCTenantIsolation ---------------------------
(* One request of the API at a time, while two forms with one email are        *)
(* submitted, or next to two applies of one workspace that may wait for each   *)
(* other; and the start in any environment.                                    *)
EXTENDS TenantIsolation, TLC

CONSTANTS s1, s2, s3, s4, r1, r2, r3, j1, j2, api, w1, w2, a1, b1, b2

MCEmailOf == (s1 :> "a@x" @@ s2 :> "a@x" @@ s3 :> "b@x" @@ s4 :> "c@x")
MCPasswordOf == (s1 :> "p" @@ s2 :> "p" @@ s3 :> "p" @@ s4 :> "p")
MCHomeOf == (r1 :> s3 @@ r2 :> s3 @@ r3 :> None)
MCReceiptOf == (j1 :> r1 @@ j2 :> r2)
MCNamesOf == (j1 :> <<"Food", "Drink">> @@ j2 :> <<"Drink", "Food">>)
MCProcessOf == [t \in Tasks |-> IF t = j1 THEN w1 ELSE IF t = j2 THEN w2 ELSE api]
MCPoolOf == (a1 :> api @@ b1 :> w1 @@ b2 :> w2)

\* A start in any environment; two users have their tokens.
FreshStart ==
  /\ StartUpInit
  /\ accounts = {s3, s4} /\ form[s1] = "refused" /\ form[s2] = "refused"
  /\ \A j \in Jobs : task[j] = Idle

\* Some processes have come to serve, the others are to start.
Served(started) ==
  /\ bypass = FALSE /\ postgresUp = TRUE /\ storageUp = TRUE /\ mayCreate = TRUE
  /\ bucket = "ours"
  /\ prismaHook = [p \in Processes |-> IF p \in started THEN "done" ELSE "todo"]
  /\ storageHook = prismaHook
  /\ exited = [p \in Processes |-> FALSE]

TwoSignUps ==
  /\ Served(Processes)
  /\ accounts = {s3} /\ form[s4] = "refused" /\ form[s1] = "open" /\ form[s2] = "open"
  /\ \A j \in Jobs : task[j] = Idle

\* The workers find their jobs in the queue.
TwoJobs ==
  /\ Served({api})
  /\ accounts = {s3} /\ \A s \in Forms \ accounts : form[s] = "refused"
  /\ \A j \in Jobs : task[j] # Idle

MCInit == AccountsInit /\ TenantInit /\ (FreshStart \/ TwoSignUps \/ TwoJobs)
MCSpec == MCInit /\ [][Next]_vars /\ Fairness

=============================================================================
