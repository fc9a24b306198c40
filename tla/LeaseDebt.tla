----------------------------- MODULE LeaseDebt -----------------------------
(***************************************************************************)
(* What the lease promises about containers, without descriptors, clients  *)
(* and cleanups that fail half-way: a container comes into the world by    *)
(* the tenant of a lease that says so, and while there is no other; a      *)
(* lease that says nothing is owed was cleared by a tenant when nothing    *)
(* was; and a worker that has retired owes nothing and takes no lease.     *)
(***************************************************************************)
CONSTANTS Worker, None

VARIABLES tenant,  \* who holds the lease
          says,    \* "free" or "owing"
          owed,    \* the workers whose container exists or will
          retired  \* the workers closed for good

vars == <<tenant, says, owed, retired>>

Init == tenant = None /\ says = "free" /\ owed = {} /\ retired = {}

Take(w) ==
  /\ tenant = None /\ says = "free" /\ owed = {} /\ w \notin retired
  /\ tenant' = w
  /\ UNCHANGED <<says, owed, retired>>

Declare ==
  /\ tenant # None /\ says' = "owing"
  /\ UNCHANGED <<tenant, owed, retired>>

\* The tenant's process may die with it, but not before the lease says so.
Incur(w) ==
  /\ tenant = w /\ says = "owing" /\ owed = {}
  /\ owed' = {w} /\ tenant' \in {w, None}
  /\ UNCHANGED <<says, retired>>

\* A container is removed, by its worker or by an engine that never made it.
Settle ==
  /\ owed # {} /\ owed' = {}
  /\ UNCHANGED <<tenant, says, retired>>

MayRetire(w) == retired' = retired \/ (w \notin owed /\ retired' = retired \cup {w})

\* A tenant leaves, or dies: what the lease says may have been spoiled.
Leave(w) ==
  /\ tenant = w /\ tenant' = None /\ says' \in {says, "owing"}
  /\ MayRetire(w)
  /\ UNCHANGED owed

Clear(w) ==
  /\ tenant = w /\ tenant' = None /\ owed = {} /\ says' = "free"
  /\ MayRetire(w)
  /\ UNCHANGED owed

Retire(w) == MayRetire(w) /\ UNCHANGED <<tenant, says, owed>>

Next ==
  \/ \E w \in Worker : Take(w) \/ Incur(w) \/ Leave(w) \/ Clear(w) \/ Retire(w)
  \/ Declare \/ Settle

Spec == Init /\ [][Next]_vars
=============================================================================
