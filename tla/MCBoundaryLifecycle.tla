------------------------ MODULE MCBoundaryLifecycle ------------------------
(***************************************************************************)
(* TLC instance: two servers, one of them an embedded store, the admin     *)
(* boundary and another one whose log begins with an activation of an      *)
(* earlier definition.  Index calls are made on a cluster at rest whose    *)
(* boundary is active, so that the two state spaces add up.                *)
(***************************************************************************)
EXTENDS IndexLifecycle, TLC

CONSTANTS s1, s2, admin, b1, c1, c2, k1, k2, d1

\* The calls are alike.
CommandSymmetry == Permutations(Commands)

MCTarget == [c \in Commands |-> b1]

\* Spellings of which some mean the same index.
MCSpellings ==
    {[type |-> "text", conditions |-> TRUE, combinator |-> c] :
        c \in {"AND", "OR", "unknown"}}
    \cup {[type |-> t, conditions |-> FALSE, combinator |-> "AND"] :
            t \in {"text", "unknown", "numeric"}}

\* A new cluster and one that ran before; both find an activation of b1 that is
\* older than its definition.
New == <<Event("Activated", b1)>>
Restarted == New \o <<Event("Created", admin), Event("Activated", admin)>>
MCHistories == {New, Restarted}

\* A state the lifecycle reaches when both faults were lost leases.
Serving ==
    /\ log = Restarted \o <<Event("Created", b1), Event("Activated", b1)>>
    /\ storage = Boundaries
    /\ command = [c \in Commands |-> IF c = c1 THEN "created" ELSE "exists"]
    /\ main = [s \in Servers |-> "serving"]
    /\ leader = s1
    /\ cursor = [k \in Kinds |-> [s \in Servers |->
                   IF k = "activation" THEN 5 ELSE IF s = s1 THEN 4 ELSE 0]]
    /\ delivering = [k \in Kinds |-> [s \in Servers |-> 0]]
    /\ stage = [k \in Kinds |-> [s \in Servers |-> [b \in Boundaries |-> "idle"]]]
    /\ seen = [s \in Servers |-> [b \in Boundaries |->
                 IF s = s2 THEN 0 ELSE IF b = admin THEN 2 ELSE 4]]
    /\ registry = [s \in Servers |-> Boundaries]
    /\ provisioned = registry
    /\ projectors = [s \in Servers |-> IF s \in Embedded THEN {} ELSE Boundaries]
    /\ gate = registry
    /\ faults = MaxFaults

\* No index call is made.
NoCalls ==
    /\ backend = "postgres"
    /\ spelling = [c \in Creators |-> CHOOSE sp \in Spellings : TRUE]
    /\ call = [c \in Clients |-> "done"]
    /\ reserved = [c \in Creators |-> "none"]
    /\ metadata = Absent
    /\ physical = NoIndex
    /\ builder = {}
    /\ drops = 0
    /\ indexFaults = MaxIndexFaults

\* Two callers race for b1 in the restarted cluster; the new one only bootstraps.
MCInit ==
    \/ (InitFrom(New, {}) \/ InitFrom(Restarted, {c1, c2})) /\ NoCalls
    \/ Serving /\ IndexInit

MCNext == (Next /\ UNCHANGED indexVars) \/ (IndexNext /\ UNCHANGED vars)

MCSpec == MCInit /\ [][MCNext]_<<vars, indexVars>>

=============================================================================
