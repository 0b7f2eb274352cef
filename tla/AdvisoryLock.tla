---------------------------- MODULE AdvisoryLock ----------------------------
(***************************************************************************)
(* What with_advisory_lock promises, whatever holds the lock: one closure  *)
(* for a payment runs at a time, and as long as it runs nobody takes its   *)
(* lock away.  It does not promise that the lock is free when no closure   *)
(* runs: a session may have kept it, or got it for a request that never    *)
(* heard of it.                                                            *)
(***************************************************************************)
CONSTANTS Requests, Payments

VARIABLES
  about,      \* the payment of each request
  inside,     \* requests whose closure runs
  held        \* payments whose lock some session has

lockVars == <<about, inside, held>>

Init ==
  /\ about \in [Requests -> Payments]
  /\ inside = {}
  /\ held = {}

(* Who holds a session ends its transaction; never one that guards a closure. *)
Keeps == held' \subseteq held /\ \A q \in inside' : about[q] \in held'

(* Granted if no closure has it: a lock that was left behind may be taken over
   by a request that gets the same session. *)
Enter(r) ==
  /\ r \notin inside
  /\ \A q \in inside : about[q] # about[r]
  /\ inside' = inside \union {r}
  /\ held' = held \union {about[r]}
  /\ UNCHANGED about

(* The probe is granted, its answer lost: no closure runs with this lock. *)
Strand(r) ==
  /\ held' = held \union {about[r]}
  /\ UNCHANGED <<about, inside>>

(* The closure ends or is dropped, with or without its lock. *)
Exit(r) ==
  /\ inside' = inside \ {r}
  /\ Keeps
  /\ UNCHANGED about

(* Locks left behind go with their sessions' transactions. *)
Release == Keeps /\ UNCHANGED <<about, inside>>

(* The process ends, with its sessions. *)
Crash ==
  /\ inside' = {}
  /\ held' = {}
  /\ UNCHANGED about

Next ==
  \/ \E r \in Requests : Enter(r) \/ Strand(r) \/ Exit(r)
  \/ Release
  \/ Crash

Spec == Init /\ [][Next]_lockVars
=============================================================================
