------------------------------ MODULE Dispatch ------------------------------
(***************************************************************************)
(* What the auction of a transfer job promises, without its handlers,      *)
(* queues and tables: operators bid once while bidding is open, an offer   *)
(* goes to an operator whose bid stands and who loses that standing with   *)
(* it, the administrators are called when no bid stands, and only the      *)
(* operator who holds the offer, or an administrator, can assign the job.  *)
(* An operator is therefore offered the job at most once, however often    *)
(* bidding is reopened, so that a chain of refusals ends.                  *)
(***************************************************************************)
CONSTANTS
    Operators,   \* operators allowed to bid
    None

VARIABLES
    phase,       \* what is being waited for
    holder,      \* who holds the offer, or the job
    standing,    \* operators who may still be offered the job
    bidders      \* operators who have ever bid

vars == <<phase, holder, standing, bidders>>

Phase == {"none", "open", "offered", "escalated", "assigned", "cancelled"}

Init ==
    /\ phase = "none" /\ holder = None
    /\ standing = {} /\ bidders = {}

Open ==
    /\ phase = "none" /\ phase' = "open"
    /\ UNCHANGED <<holder, standing, bidders>>

Bid(o) ==
    /\ phase = "open" /\ o \notin bidders
    /\ standing' = standing \union {o}
    /\ bidders' = bidders \union {o}
    /\ UNCHANGED <<phase, holder>>

\* Operators withdraw, lose or are set aside.
Drop ==
    /\ standing' \in SUBSET standing
    /\ UNCHANGED <<phase, holder, bidders>>

Offer(o) ==
    /\ phase \in {"open", "offered"} /\ o \in standing
    /\ phase' = "offered" /\ holder' = o
    /\ standing' = standing \ {o}
    /\ UNCHANGED bidders

Escalate ==
    /\ phase \in {"open", "offered"} /\ standing = {}
    /\ phase' = "escalated" /\ holder' = None
    /\ UNCHANGED <<standing, bidders>>

Reopen ==
    /\ phase = "escalated" /\ phase' = "open"
    /\ UNCHANGED <<holder, standing, bidders>>

Accept ==
    /\ phase = "offered" /\ phase' = "assigned"
    /\ standing' = {}
    /\ UNCHANGED <<holder, bidders>>

\* An administrator gives the job to anybody, with a bid entered for an
\* operator who made none.
Assign(o) ==
    /\ phase \notin {"none", "assigned"}
    /\ phase' = "assigned" /\ holder' = o
    /\ standing' = {}
    /\ UNCHANGED bidders

EnterBid(o) ==
    /\ phase \notin {"none", "assigned"}
    /\ bidders' = bidders \union {o}
    /\ standing' = standing \ {o}
    /\ UNCHANGED <<phase, holder>>

Cancel ==
    /\ phase # "none"
    /\ phase' = "cancelled" /\ holder' = None
    /\ UNCHANGED <<standing, bidders>>

Next ==
    \/ Open \/ Drop \/ Escalate \/ Reopen \/ Accept \/ Cancel
    \/ \E o \in Operators : Bid(o) \/ Offer(o) \/ Assign(o) \/ EnterBid(o)

Spec == Init /\ [][Next]_vars
=============================================================================
