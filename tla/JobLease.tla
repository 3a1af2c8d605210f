------------------------------- MODULE JobLease -------------------------------
(***************************************************************************)
(* What the automation queue promises about every job, whatever its        *)
(* clients do.  Leases are handed out one at a time, each to a job that is *)
(* open and that nobody holds.  A job is given up as exhausted only after  *)
(* all its attempts, and once they are used up it returns to the queue     *)
(* only on account of a claim that read the counter before.  The event a   *)
(* job keeps was sent by someone who held the job when the backend began   *)
(* to look at it.                                                          *)
(***************************************************************************)
EXTENDS Naturals

CONSTANTS Jobs, MaxAttempts

VARIABLES
  lease,   \* lease[j]: leases granted, current holder, state, event delivered
  under    \* under[j]: what requests under way have read of job j: the leases
           \* of results to be stored, and the counters recovery may compare

Row(granted, holder, state, event) ==
  [granted |-> granted, holder |-> holder, state |-> state, event |-> event]

NoOne == 0

Init ==
  /\ lease = [j \in Jobs |-> Row(0, NoOne, "open", NoOne)]
  /\ under = [j \in Jobs |-> [due |-> {}, known |-> {}]]

Grant(s, t) ==
  /\ s.state = "open" /\ s.holder = NoOne
  /\ t = Row(s.granted + 1, s.granted + 1, "open", NoOne)

\* The holder let its lease expire and recovery counts an attempt left.
Revoke(s, u, t) ==
  /\ s.holder # NoOne
  /\ \E n \in u.known \cup {s.granted} : n < MaxAttempts
  /\ t = Row(s.granted, NoOne, "open", NoOne)

\* The last holder let its lease expire.
TimeOut(s, t) ==
  /\ s.holder # NoOne /\ s.granted >= MaxAttempts
  /\ t = Row(s.granted, NoOne, "exhausted", NoOne)

\* The row was read while its sender was the holder; it may have moved on.
Deliver(s, u, t) == \E l \in u.due : t = Row(s.granted, NoOne, "closed", l)

\* Blocked or cancelled; an event stays.
Withdraw(s, t) == t = Row(s.granted, NoOne, "closed", s.event)

Move(s, u, t) ==
  t = s \/ Grant(s, t) \/ Revoke(s, u, t) \/ TimeOut(s, t) \/ Deliver(s, u, t) \/ Withdraw(s, t)

\* Requests read the row as it is, and end.
Learn(s, u, v) ==
  /\ v.due \subseteq u.due \cup ({s.holder} \ {NoOne})
  /\ v.known \subseteq u.known \cup {s.granted}

\* One transaction may move several jobs.
Next ==
  /\ DOMAIN lease' = Jobs
  /\ \A j \in Jobs : Move(lease[j], under[j], lease'[j]) /\ Learn(lease[j], under[j], under'[j])

Spec == Init /\ [][Next]_<<lease, under>>

===============================================================================
