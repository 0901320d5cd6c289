----------------------------- MODULE StepLedger -----------------------------
(***************************************************************************)
(* What the receipts of run_idempotent_step promise to the rest of the     *)
(* system, without workers, transactions or retries: while a job exists    *)
(* its steps are recorded in order, each at most once, and what the first  *)
(* step recorded never changes; the record vanishes with the job.          *)
(***************************************************************************)
EXTENDS Integers

CONSTANTS Jobs, Steps, Payloads, NoPayload

VARIABLES
    state,   \* "none", "open" or "closed" record of each job
    done,    \* steps recorded for each job
    first    \* payload recorded by the first step

ledger == <<state, done, first>>

FirstStep == CHOOSE s \in Steps : \A t \in Steps : s <= t

Init ==
    /\ state = [j \in Jobs |-> "none"]
    /\ done = [j \in Jobs |-> {}]
    /\ first = [j \in Jobs |-> NoPayload]

Open(j) ==
    /\ state[j] = "none"
    /\ state' = [state EXCEPT ![j] = "open"]
    /\ UNCHANGED <<done, first>>

Record(j, s, p) ==
    /\ state[j] = "open"
    /\ s \notin done[j]
    /\ \A t \in Steps : t < s => t \in done[j]
    /\ done' = [done EXCEPT ![j] = @ \cup {s}]
    /\ first' = IF s = FirstStep THEN [first EXCEPT ![j] = p] ELSE first
    /\ UNCHANGED state

\* Deleting a document closes the records of all its jobs at once.
Close(J) ==
    /\ \A j \in J : state[j] = "open"
    /\ state' = [j \in Jobs |-> IF j \in J THEN "closed" ELSE state[j]]
    /\ done' = [j \in Jobs |-> IF j \in J THEN {} ELSE done[j]]
    /\ first' = [j \in Jobs |-> IF j \in J THEN NoPayload ELSE first[j]]

Next ==
    \/ \E j \in Jobs : Open(j)
    \/ \E j \in Jobs, s \in Steps, p \in Payloads : Record(j, s, p)
    \/ \E J \in SUBSET Jobs : Close(J)

Spec == Init /\ [][Next]_ledger
=============================================================================
