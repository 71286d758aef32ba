------------------------------ MODULE IssueLease ------------------------------
(***************************************************************************)
(* What the run store promises about an issue, without its tables: at any  *)
(* time an issue is free, held by one run, or parked by a run that ended   *)
(* blocked.  A run gets an issue at most once and only when it is free;    *)
(* a held issue is released or parked; a parked issue stays out of reach   *)
(* until somebody unparks it.  RunStore implements this specification.     *)
(***************************************************************************)
CONSTANTS
  Issues,     \* Linear issue identifiers
  Runs,       \* run identifiers, each made by one call of execute()
  IssueOf,    \* the issue a run is for
  NoRun       \* no run

VARIABLES
  lease,      \* lease[i]: how issue i is taken, and by which run
  used        \* the runs that ever held an issue

leaseVars == <<lease, used>>

Free == [mode |-> "free", run |-> NoRun]
Held(r) == [mode |-> "held", run |-> r]
Parked(r) == [mode |-> "parked", run |-> r]

LeaseInit ==
  /\ lease = [i \in Issues |-> Free]
  /\ used = {}

(* A fresh run takes a free issue. *)
Grant(r) ==
  /\ r \notin used
  /\ lease[IssueOf[r]] = Free
  /\ lease' = [lease EXCEPT ![IssueOf[r]] = Held(r)]
  /\ used' = used \cup {r}

(* The holder's lease ends: the run ended, or its lock expired. *)
Release(i) ==
  /\ lease[i].mode = "held"
  /\ lease' = [lease EXCEPT ![i] = Free]
  /\ UNCHANGED used

(* The holder ends blocked and takes the issue out of circulation. *)
Park(i) ==
  /\ lease[i].mode = "held"
  /\ lease' = [lease EXCEPT ![i] = Parked(lease[i].run)]
  /\ UNCHANGED used

(* An operator gives a parked issue back. *)
Unpark(i) ==
  /\ lease[i].mode = "parked"
  /\ lease' = [lease EXCEPT ![i] = Free]
  /\ UNCHANGED used

LeaseNext ==
  \/ \E r \in Runs : Grant(r)
  \/ \E i \in Issues : Release(i) \/ Park(i) \/ Unpark(i)

LeaseSpec == LeaseInit /\ [][LeaseNext]_leaseVars
===============================================================================
