--------------------------- MODULE TicketLifecycle ---------------------------
(***************************************************************************)
(* What the ticket table promises its users: a ticket comes into being in   *)
(* one step under an existing credential, is live until it expires or is    *)
(* redeemed, never becomes live again, and disappears only when it is no    *)
(* longer live or together with its credential.  No clock, no columns, no   *)
(* callers and no broker round trips.                                       *)
(***************************************************************************)
CONSTANTS Uuids, CredentialIds

VARIABLES
    credentials,    \* credentials that exist
    life            \* credential and status of each ticket that exists

lifeVars == <<credentials, life>>

Statuses == {"live", "expired", "redeemed"}
Lives    == [cred : CredentialIds, status : Statuses]

Drop(gone) == [i \in DOMAIN life \ gone |-> life[i]]

(* A ticket may be past its expiry when it is issued. *)
Issue(i, k, s) ==
    /\ i \notin DOMAIN life
    /\ k \in credentials
    /\ s # "redeemed"
    /\ life' = [j \in DOMAIN life \cup {i} |->
                   IF j = i THEN [cred |-> k, status |-> s] ELSE life[j]]
    /\ UNCHANGED credentials

(* Time passes for any number of live tickets at once. *)
Expire(S) ==
    /\ \A i \in S : life[i].status = "live"
    /\ life' = [i \in DOMAIN life |->
                   IF i \in S THEN [life[i] EXCEPT !.status = "expired"] ELSE life[i]]
    /\ UNCHANGED credentials

Redeem(i) ==
    /\ life' = [life EXCEPT ![i].status = "redeemed"]
    /\ UNCHANGED credentials

Collect(S) ==
    /\ \A i \in S : life[i].status # "live"
    /\ life' = Drop(S)
    /\ UNCHANGED credentials

Create(k) ==
    /\ k \notin credentials
    /\ credentials' = credentials \cup {k}
    /\ UNCHANGED life

Revoke(k) ==
    /\ k \in credentials
    /\ credentials' = credentials \ {k}
    /\ life' = Drop({i \in DOMAIN life : life[i].cred = k})

LifeInit ==
    /\ credentials = {}
    /\ life = [i \in {} |-> [cred |-> i, status |-> "live"]]

LifeNext ==
    \/ \E i \in Uuids, k \in CredentialIds, s \in Statuses : Issue(i, k, s)
    \/ \E S \in SUBSET DOMAIN life : Expire(S) \/ Collect(S)
    \/ \E i \in DOMAIN life : Redeem(i)
    \/ \E k \in CredentialIds : Create(k) \/ Revoke(k)

LifeSpec == LifeInit /\ [][LifeNext]_lifeVars
=============================================================================
