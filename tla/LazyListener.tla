---------------------------- MODULE LazyListener ----------------------------
(***************************************************************************)
(* What the controller may rely on for a node that is not an Xray inbound: *)
(* a listener that binds with its first users and lets in the users it was *)
(* given.  Runner shows that all six protocol packages implement it.       *)
(***************************************************************************)
CONSTANTS Listeners, Users

VARIABLES
    users,      \* users the controller added and did not remove
    bound,      \* listeners that hold the port
    accepted    \* users whose new connections are let in

Init ==
    /\ users = [l \in Listeners |-> {}]
    /\ bound = {}
    /\ accepted = [l \in Listeners |-> {}]

Others(l, f, g) == g = [f EXCEPT ![l] = g[l]]

\* Adding users binds the port unless binding fails, and lets in everyone.  The
\* table of a listener that is not bound need not follow, and is nobody's concern.
AddUsers(l) ==
    /\ \E S \in SUBSET Users : users' = [users EXCEPT ![l] = @ \cup S]
    /\ \/ bound' = bound
       \/ users'[l] # {} /\ bound = {} /\ bound' = {l}
    /\ Others(l, accepted, accepted')
    /\ \/ accepted'[l] = users'[l]
       \/ l \notin bound' /\ accepted' = accepted

\* Removing users lets the others in.  The last ones removed may keep getting in
\* until somebody is added.
DelUsers(l) ==
    /\ \E S \in SUBSET Users : users' = [users EXCEPT ![l] = @ \ S]
    /\ bound' = bound
    /\ Others(l, accepted, accepted')
    /\ \/ accepted'[l] = users'[l]
       \/ accepted' = accepted /\ (users'[l] = {} \/ l \notin bound)

Close(l) == bound' = bound \ {l} /\ UNCHANGED <<users, accepted>>

Next == \E l \in Listeners : AddUsers(l) \/ DelUsers(l) \/ Close(l)

Spec == Init /\ [][Next]_<<users, bound, accepted>>
=============================================================================
