------------------------------ MODULE NodeLease ------------------------------
(***************************************************************************)
(* What the status of a NodeDeploy promises the managers: a lease on the   *)
(* machine behind it.  One manager takes the lease for a launch or a       *)
(* deprecation, may renew it as long as nobody has touched the object, and *)
(* gives it back; a lease that has run out may be called off by anybody.   *)
(* Who loses track of the lease (a crash, an edit by the user, a lost      *)
(* answer) can neither renew it nor give it back, but until it runs out    *)
(* nobody else gets it.  The user may delete the object, and with it the   *)
(* lease and the claims of everybody, and create it anew.                  *)
(***************************************************************************)
EXTENDS Integers, TLAPS

CONSTANTS
  Managers,   \* who may take the lease
  Duration    \* how long it lasts unless it is renewed

VARIABLES
  present,    \* the object is there
  lease,      \* the operation the lease was taken for, or Free
  left,       \* the time left of it
  owners,     \* who may renew it or give it back
  workers     \* who operates on the machine while the lease lasts

leaseVars == <<present, lease, left, owners, workers>>

Free == "free"
Jobs == { "launching", "deprecating" }

Init ==
  /\ present = TRUE
  /\ lease = Free
  /\ left = 0
  /\ owners = {}
  /\ workers = {}

-----------------------------------------------------------------------------
\* The lease is written for m and m goes to work; or it is written and m
\* does not learn of it.
Grant(m) ==
  /\ left' = Duration
  /\ \/ owners' = { m } /\ workers' = { m }
     \/ owners' = {} /\ workers' = {}

Take(m) ==
  /\ present /\ lease = Free
  /\ lease' \in Jobs
  /\ Grant(m)

Renew(m) ==
  /\ m \in owners
  /\ lease' = lease
  /\ Grant(m)

Stop(m) ==
  /\ m \in workers
  /\ workers' = workers \ { m }
  /\ UNCHANGED <<lease, left, owners>>

GiveBack(m) ==
  /\ m \in owners \ workers
  /\ lease' = Free /\ left' = 0
  /\ owners' = {}
  /\ UNCHANGED workers

\* m dies, or ends its call after a write of it was refused.
Leave(m) ==
  /\ owners' = owners \ { m }
  /\ workers' = workers \ { m }
  /\ UNCHANGED <<lease, left>>

\* The object is edited: nobody's copy of it is good for a write any more.
Disown ==
  /\ owners' = {}
  /\ UNCHANGED <<lease, left, workers>>

\* The object is deleted, and the lease with it: the only way in which a
\* lease ends early without its owner.
Revoke ==
  /\ present /\ present' = FALSE
  /\ lease' = Free /\ left' = 0
  /\ owners' = {} /\ workers' = {}

Create ==
  /\ ~ present /\ present' = TRUE
  /\ UNCHANGED <<lease, left, owners, workers>>

Expire ==
  /\ lease # Free
  /\ left = 0
  /\ lease' = Free /\ left' = 0
  /\ owners' = {}
  /\ UNCHANGED workers

\* Nobody works under a lease that has run out.
Tick ==
  /\ left' = IF left > 0 THEN left - 1 ELSE left
  /\ workers' \in SUBSET workers
  /\ workers' # {} => left' > 0
  /\ UNCHANGED <<lease, owners>>

\* What becomes of the lease while the object stays.
Lend ==
  \/ \E m \in Managers : \/ Take(m) \/ Renew(m) \/ Stop(m)
                         \/ GiveBack(m) \/ Leave(m)
  \/ Disown \/ Expire \/ Tick

Next ==
  \/ Lend /\ UNCHANGED present
  \/ Revoke \/ Create

Spec == Init /\ [][Next]_leaseVars

-----------------------------------------------------------------------------
\* One at a time, and only under a lease that lasts, on an object that is
\* there: what a lease is for.
Exclusive ==
  /\ lease # Free => present
  /\ workers # {} => lease # Free /\ left > 0
  /\ owners # {} => lease # Free
  /\ \A m, n \in workers \cup owners : m = n

\* A lease of some duration keeps its promise: never two at work, and nobody
\* at work without a lease that lasts.
THEOREM LeaseExcludes ==
  ASSUME Duration \in Nat \ { 0 }
  PROVE  Spec => []Exclusive
<1>1. Init => Exclusive
  BY DEF Init, Exclusive
<1>2. Exclusive /\ [Next]_leaseVars => Exclusive'
  <2> SUFFICES ASSUME Exclusive, [Next]_leaseVars PROVE Exclusive'
    OBVIOUS
  <2>1. ASSUME NEW m \in Managers, Take(m) \/ Renew(m), UNCHANGED present PROVE Exclusive'
    <3>1. lease' # Free /\ present'
      BY <2>1 DEF Take, Renew, Jobs, Free, Exclusive
    <3> QED
      BY <2>1, <3>1 DEF Take, Renew, Grant, Exclusive
  <2>2. ASSUME NEW m \in Managers, Stop(m) \/ GiveBack(m) \/ Leave(m), UNCHANGED present
        PROVE  Exclusive'
    BY <2>2 DEF Stop, GiveBack, Leave, Exclusive
  <2>3. CASE (Disown \/ Expire) /\ UNCHANGED present
    BY <2>3 DEF Disown, Expire, Exclusive
  <2>4. CASE Tick /\ UNCHANGED present
    BY <2>4 DEF Tick, Exclusive
  <2>5. CASE Revoke \/ Create
    BY <2>5 DEF Revoke, Create, Exclusive
  <2>6. CASE UNCHANGED leaseVars
    BY <2>6 DEF leaseVars, Exclusive
  <2> QED
    BY <2>1, <2>2, <2>3, <2>4, <2>5, <2>6 DEF Next, Lend
<1> QED
  BY <1>1, <1>2, PTL DEF Spec

=============================================================================
