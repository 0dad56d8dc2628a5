----------------------------- MODULE MCCatalogue -----------------------------
(***************************************************************************)
(* Catalogue for TLC.  A behaviour is of one scene, which bounds what      *)
(* happens in it: the kinds of requests, the statuses, the number of       *)
(* events, the contents.  Together the scenes have every kind of request.  *)
(* Requests keep OneFirstLayout and decisions keep DecisionsApart, which   *)
(* Catalogue itself does not ask.  Everything but None is interchangeable. *)
(***************************************************************************)
EXTENDS Catalogue, FiniteSets, TLC

VARIABLE scene

Statuses == Mutable \cup Decided
Layouts == {"createType", "checkMap", "createMap", "createZones", "checkSections",
            "addSections", "addZones"}
Scene(steps, excluded, events, contents) ==
    [steps |-> steps \cup {"idle"}, excluded |-> excluded, events |-> events, contents |-> contents]
Scenes ==
    {Scene(Layouts \cup {"submit", "edit", "hideType"}, {}, 1, 2),
     Scene(Layouts \cup {"removeType", "order"}, Statuses \ {"DRAFT"}, 2, 1),
     Scene({"edit", "createType", "updateType", "hideType", "removeType", "submit"}, {}, 1, 2),
     Scene({"saveProfile"}, {}, 0, 2)}

MCInit == CatInit /\ scene \in Scenes

MCNext ==
    /\ CatNext
    /\ OneFirstLayout' /\ DecisionsApart
    /\ \A r \in Reqs : req'[r].pc \in scene.steps
    /\ \A e \in Events : status'[e] \notin scene.excluded
    /\ Cardinality({e \in Events : status'[e] # None}) <= scene.events
    /\ Cardinality(({details'[e] : e \in Events} \cup {offer'[t] : t \in TicketTypes}) \ {None})
          <= scene.contents
    /\ UNCHANGED scene
MCSpec == MCInit /\ [][MCNext]_<<cVars, scene>>

Interchangeable ==
    UNION {Permutations(S) : S \in {Events, TicketTypes, Rows, Reqs, Versions}}

=============================================================================
