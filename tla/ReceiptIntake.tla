----------------------------- MODULE ReceiptIntake -----------------------------
(***************************************************************************)
(* What every way into the system promises the rest of it: the image is    *)
(* in the bucket before the row names it, the row is there before the      *)
(* job is, and nothing happens after an intake was given up.               *)
(***************************************************************************)
CONSTANT Intakes
VARIABLE intake

Init == intake = [i \in Intakes |-> "new"]

Moves(i, from, to) ==
  /\ intake[i] = from
  /\ intake' = [intake EXCEPT ![i] = to]

UploadImages(i) == Moves(i, "new", "stored")
CreatePending(i) == Moves(i, "stored", "created")
Enqueue(i) == Moves(i, "created", "enqueued")

\* Any number of intakes end half-way at once: the API process dies.
UnderWay == {i \in Intakes : intake[i] \in {"new", "stored", "created"}}
Abort ==
  \E gone \in SUBSET UnderWay :
    intake' = [i \in Intakes |-> IF i \in gone THEN "aborted" ELSE intake[i]]

Next ==
  \/ \E i \in Intakes : UploadImages(i) \/ CreatePending(i) \/ Enqueue(i)
  \/ Abort

Spec == Init /\ [][Next]_intake

=============================================================================
