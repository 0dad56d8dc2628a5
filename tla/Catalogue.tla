------------------------------ MODULE Catalogue ------------------------------
(***************************************************************************)
(* What an organizer prepares (UC14, UC16, UC17, UC19): the profile,       *)
(* events, their ticket types, and their seats or zones; what the public   *)
(* sees of it (UC06, UC08), and what order items refer to.                 *)
(*                                                                         *)
(* Every operation reads a row, decides, and writes in a later call that   *)
(* does not look at the row again.  Only createSeatMap, createZones and    *)
(* orders write in a transaction, and no read is in one.  Approval and the *)
(* opening of the sale are an administrator's, in the database.  A request *)
(* of somebody who does not own the event or the type finds nothing.       *)
(***************************************************************************)
EXTENDS Naturals

CONSTANTS Events,
          TicketTypes,   \* bound: ticket types ever created
          Rows,          \* bound: seat sections and zones ever created
          Reqs,          \* bound: requests in progress
          Versions,      \* bound: contents of a row that are told apart
          None

VARIABLES status,   \* status[e]: events.status, None without a row
          model,    \* model[e]: events.ticketModel
          details,  \* details[e]: the columns that an approval freezes
          owner,    \* owner[t]: the event of type t, None before it, "deleted" after
          offer,    \* offer[t]: price, quantity, name and times of type t
          hidden,   \* hidden: types that are hidden
          row,      \* row[i]: a section of seats, or a zone
          items,    \* items: order items, a seat of a row and a type each
          org,      \* org: the profile, and the name that was approved last
          req       \* req[r]: a request, between two awaits

eventVars == <<status, model, details>>
typeVars == <<owner, offer, hidden>>
cVars == <<status, model, details, owner, offer, hidden, row, items, org, req>>

Mutable == {"DRAFT", "PENDING_APPROVAL", "REJECTED"}
Submittable == {"DRAFT", "REJECTED"}
Decided == {"APPROVED", "ACTIVE", "LOCKED", "CANCELLED", "ENDED"}
Models == {"SEAT_MAP", "ZONE"}

ASSUME CatalogueAssumption ==
    /\ None \notin Events \cup TicketTypes \cup Rows \cup Versions
    /\ None \notin Mutable \cup Decided \cup Models \cup {"deleted"}
    /\ "deleted" \notin Events

NoRow == [kind |-> None, event |-> None, type |-> None]
LayoutRows == [kind : Models, event : Events, type : TicketTypes \cup {None}]
Profiles == [name : Versions, status : {"PENDING", "APPROVED", "REJECTED"},
             approved : Versions \cup {None}]

\* seen: the row that an order prices, or the name that a profile had.
Request(pc, e, t, seen) == [pc |-> pc, event |-> e, type |-> t, seen |-> seen]
NoReq == Request("idle", None, None, None)
Steps == {"idle", "submit", "edit", "createType", "updateType", "hideType", "removeType",
          "checkMap", "createMap", "createZones", "checkSections", "addSections", "addZones",
          "order", "saveProfile"}

CatTypeOK ==
    /\ status \in [Events -> Mutable \cup Decided \cup {None}]
    /\ model \in [Events -> Models \cup {None}]
    /\ details \in [Events -> Versions \cup {None}]
    /\ owner \in [TicketTypes -> Events \cup {None, "deleted"}]
    /\ offer \in [TicketTypes -> Versions \cup {None}]
    /\ hidden \in SUBSET TicketTypes
    /\ row \in [Rows -> LayoutRows \cup {NoRow}]
    /\ items \in SUBSET [row : Rows, type : TicketTypes]
    /\ org \in Profiles
    /\ req \in [Reqs -> [pc : Steps, event : Events \cup {None}, type : TicketTypes \cup {None},
                         seen : Rows \cup Versions \cup {None}]]

CatInit ==
    /\ status = [e \in Events |-> None]
    /\ model = [e \in Events |-> None]
    /\ details = [e \in Events |-> None]
    /\ owner = [t \in TicketTypes |-> None]
    /\ offer = [t \in TicketTypes |-> None]
    /\ hidden = {}
    /\ row = [i \in Rows |-> NoRow]
    /\ items = {}
    /\ org \in [name : Versions, status : {"PENDING"}, approved : {None}]
    /\ req = [r \in Reqs |-> NoReq]

At(r, pc) == req[r].pc = pc
To(r, pc) == req' = [req EXCEPT ![r].pc = pc]
Ends(r) == req' = [req EXCEPT ![r] = NoReq]
Starts(r, q) == At(r, "idle") /\ req' = [req EXCEPT ![r] = q]

Exists(t) == owner[t] \in Events

\* assertEventOwnerAndStatus
IsMutable(e) == status[e] \in Mutable

\* What a request for one event reads and what it will do.
Asks(r, pc, e, t) ==
    Starts(r, Request(pc, e, t, None)) /\ UNCHANGED <<eventVars, typeVars, row, items, org>>

-----------------------------------------------------------------------------
(* EventsService.                                                          *)

\* Mutant of FirstStatus: the action of the request is stored as the status.
ActionItself(action) == action
FirstStatus(action) == IF action = "SUBMIT" THEN "PENDING_APPROVAL" ELSE "DRAFT"

CreateEvent(e, action) ==
    /\ status[e] = None
    /\ status' = [status EXCEPT ![e] = FirstStatus(action)]
    /\ \E v \in Versions : details' = [details EXCEPT ![e] = v]
    /\ UNCHANGED <<model, typeVars, row, items, org, req>>

\* Mutant of CanSubmit: whatever can be edited can be submitted.
CanSubmitApproved(e) == IsMutable(e) \/ status[e] = "APPROVED"
CanSubmit(e) == status[e] \in Submittable

AskSubmit(r, e) == CanSubmit(e) /\ Asks(r, "submit", e, None)

\* The update is by id: the status read before is not a condition of it.
Submit(r) ==
    /\ At(r, "submit")
    /\ status' = [status EXCEPT ![req[r].event] = "PENDING_APPROVAL"]
    /\ Ends(r)
    /\ UNCHANGED <<model, details, typeVars, row, items, org>>

\* Of an APPROVED event description and banner can still be edited: not details.
AskEdit(r, e) == IsMutable(e) /\ Asks(r, "edit", e, None)

Edit(r) ==
    /\ At(r, "edit")
    /\ \E v \in Versions : details' = [details EXCEPT ![req[r].event] = v]
    /\ Ends(r)
    /\ UNCHANGED <<status, model, typeVars, row, items, org>>

-----------------------------------------------------------------------------
(* TicketTypesService.  Only create looks at the status of the event, and  *)
(* no guard on sold ever applies: nothing in the program counts sales.     *)

AskCreateType(r, e) == IsMutable(e) /\ Asks(r, "createType", e, None)

CreateType(r) ==
    /\ At(r, "createType")
    /\ \E t \in TicketTypes, v \in Versions :
          /\ owner[t] = None
          /\ owner' = [owner EXCEPT ![t] = req[r].event]
          /\ offer' = [offer EXCEPT ![t] = v]
    /\ Ends(r)
    /\ UNCHANGED <<eventVars, hidden, row, items, org>>

\* findOwnedTicketType
AskType(r, t) ==
    Exists(t) /\ \E pc \in {"updateType", "hideType", "removeType"} : Asks(r, pc, owner[t], t)

\* An update of a type that is gone fails.
UpdateType(r) ==
    LET t == req[r].type
    IN  /\ At(r, "updateType")
        /\ Exists(t)
        /\ \E v \in Versions : offer' = [offer EXCEPT ![t] = v]
        /\ Ends(r)
        /\ UNCHANGED <<eventVars, owner, hidden, row, items, org>>

HideType(r) ==
    /\ At(r, "hideType")
    /\ Exists(req[r].type)
    /\ hidden' = hidden \cup {req[r].type}
    /\ Ends(r)
    /\ UNCHANGED <<eventVars, owner, offer, row, items, org>>

\* Mutant of Untyped: ON DELETE CASCADE.
Cascade(t) == [i \in Rows |-> IF row[i].type = t THEN NoRow ELSE row[i]]
\* The foreign keys of seats and zones become NULL.
Untyped(t) == [i \in Rows |-> IF row[i].type = t THEN [row[i] EXCEPT !.type = None] ELSE row[i]]

\* Mutant of Unordered: sold is what is looked at, and it is 0.
NotSold(t) == TRUE
\* The foreign key of order items restricts.
Unordered(t) == \A o \in items : o.type # t

RemoveType(r) ==
    LET t == req[r].type
    IN  /\ At(r, "removeType")
        /\ Exists(t) /\ Unordered(t)
        /\ owner' = [owner EXCEPT ![t] = "deleted"]
        /\ row' = Untyped(t)
        /\ Ends(r)
        /\ UNCHANGED <<eventVars, offer, hidden, items, org>>

-----------------------------------------------------------------------------
(* SeatsService.  One section or zone stands for those of a request.       *)

\* createMany, with the foreign key to the ticket type.
Insert(kind, e, t) ==
    /\ t # None => Exists(t)
    /\ \E i \in Rows :
          /\ row[i] = NoRow
          /\ row' = [row EXCEPT ![i] = [kind |-> kind, event |-> e, type |-> t]]

\* Mutant of HasNoModel: an event with zones can get seats, too.
HasNoSeats(e) == model[e] # "SEAT_MAP"
HasNoModel(e) == model[e] = None

AskSeatMap(r, e, t) == IsMutable(e) /\ HasNoModel(e) /\ Asks(r, "checkMap", e, t)

\* Mutant of OwnType: the type has to exist, not to be of this event.
AnyType(r) == Exists(req[r].type)
\* assertTicketTypesOwnership
OwnType(r) == owner[req[r].type] = req[r].event

CheckTypes(r) ==
    /\ \/ At(r, "checkMap") /\ OwnType(r) /\ To(r, "createMap")
       \/ At(r, "checkSections") /\ OwnType(r) /\ To(r, "addSections")
       \/ req[r].pc \in {"checkMap", "checkSections"} /\ ~OwnType(r) /\ Ends(r)
    /\ UNCHANGED <<eventVars, typeVars, row, items, org>>

\* The transaction: the model is set, whatever it is by now, and the seats.
CreateSeatMap(r) ==
    /\ At(r, "createMap")
    /\ Insert("SEAT_MAP", req[r].event, req[r].type)
    /\ model' = [model EXCEPT ![req[r].event] = "SEAT_MAP"]
    /\ Ends(r)
    /\ UNCHANGED <<status, details, typeVars, items, org>>

\* The type of a zone is optional, and nobody checks whose it is.
AskZones(r, e, t) == IsMutable(e) /\ HasNoModel(e) /\ Asks(r, "createZones", e, t)

CreateZones(r) ==
    /\ At(r, "createZones")
    /\ Insert("ZONE", req[r].event, req[r].type)
    /\ model' = [model EXCEPT ![req[r].event] = "ZONE"]
    /\ Ends(r)
    /\ UNCHANGED <<status, details, typeVars, items, org>>

\* updateLayout; the branch is chosen by the model it read.
AskMoreSeats(r, e, t) ==
    IsMutable(e) /\ model[e] = "SEAT_MAP" /\ Asks(r, "checkSections", e, t)
AskMoreZones(r, e, t) == IsMutable(e) /\ model[e] = "ZONE" /\ Asks(r, "addZones", e, t)

AddRows(r) ==
    /\ \/ At(r, "addSections") /\ Insert("SEAT_MAP", req[r].event, req[r].type)
       \/ At(r, "addZones") /\ Insert("ZONE", req[r].event, req[r].type)
    /\ Ends(r)
    /\ UNCHANGED <<eventVars, typeVars, items, org>>

-----------------------------------------------------------------------------
(* POST /orders, of it what it takes from here; Booking has the rest.  The *)
(* type and its price are read before the transaction.  Neither the status *)
(* of the event nor hidden nor the times of the sale are looked at.        *)

AskOrder(r, i) ==
    /\ row[i].kind = "SEAT_MAP" /\ row[i].type # None
    /\ Starts(r, Request("order", None, row[i].type, i))
    /\ UNCHANGED <<eventVars, typeVars, row, items, org>>

\* With the foreign key to the ticket type.
PlaceOrder(r) ==
    /\ At(r, "order")
    /\ Exists(req[r].type)
    /\ items' = items \cup {[row |-> req[r].seen, type |-> req[r].type]}
    /\ Ends(r)
    /\ UNCHANGED <<eventVars, typeVars, row, org>>

-----------------------------------------------------------------------------
(* OrganizerService.updateProfile; the other columns are left out.         *)

AskProfile(r) ==
    /\ Starts(r, Request("saveProfile", None, None, org.name))
    /\ UNCHANGED <<eventVars, typeVars, row, items, org>>

\* A name that is given is to be reviewed, also the same.
SaveProfile(r) ==
    /\ At(r, "saveProfile")
    /\ \E name \in Versions :
          org' = [name |-> name, status |-> "PENDING", approved |-> org.approved]
    /\ Ends(r)
    /\ UNCHANGED <<eventVars, typeVars, row, items>>

\* An administrator decides about the name that is in the row.
Review ==
    /\ org.status = "PENDING"
    /\ \/ org' = [org EXCEPT !.status = "REJECTED"]
       \/ org' = [name |-> org.name, status |-> "APPROVED", approved |-> org.name]
    /\ UNCHANGED <<eventVars, typeVars, row, items, req>>

-----------------------------------------------------------------------------

\* A constraint fails, the database does not answer, or the process dies.
RequestDies(r) ==
    /\ ~At(r, "idle")
    /\ Ends(r)
    /\ UNCHANGED <<eventVars, typeVars, row, items, org>>

\* An administrator decides, opens the sale and ends it.
Decide(e) ==
    /\ \/ status[e] = "PENDING_APPROVAL" /\ status' \in {[status EXCEPT ![e] = d] :
                                                     d \in {"APPROVED", "REJECTED"}}
       \/ status[e] = "APPROVED" /\ status' = [status EXCEPT ![e] = "ACTIVE"]
       \/ status[e] = "ACTIVE" /\ status' \in {[status EXCEPT ![e] = d] :
                                           d \in {"LOCKED", "CANCELLED", "ENDED"}}
    /\ UNCHANGED <<model, details, typeVars, row, items, org, req>>

Arrives(r, e) ==
    \/ AskSubmit(r, e) \/ AskEdit(r, e) \/ AskCreateType(r, e)
    \/ \E t \in TicketTypes : AskSeatMap(r, e, t) \/ AskMoreSeats(r, e, t)
    \/ \E t \in TicketTypes \cup {None} : AskZones(r, e, t) \/ AskMoreZones(r, e, t)

Writes(r) ==
    \/ Submit(r) \/ Edit(r)
    \/ CreateType(r) \/ UpdateType(r) \/ HideType(r) \/ RemoveType(r)
    \/ CreateSeatMap(r) \/ CreateZones(r) \/ AddRows(r)
    \/ PlaceOrder(r) \/ SaveProfile(r)

CatNext ==
    \/ \E e \in Events, action \in {"SUBMIT", "DRAFT"} : CreateEvent(e, action)
    \/ \E r \in Reqs, e \in Events : Arrives(r, e)
    \/ \E r \in Reqs, t \in TicketTypes : AskType(r, t)
    \/ \E r \in Reqs, i \in Rows : AskOrder(r, i)
    \/ \E r \in Reqs : AskProfile(r) \/ CheckTypes(r) \/ Writes(r) \/ RequestDies(r)
    \/ \E e \in Events : Decide(e)
    \/ Review

CatSpec == CatInit /\ [][CatNext]_cVars

-----------------------------------------------------------------------------

\* getLayout: seats or zones, by the model of the event.
Layout(e) == {i \in Rows : row[i].event = e /\ row[i].kind = model[e]}

\* getPublicDetail shows the types that are not hidden.
Offered(e) == {t \in TicketTypes : owner[t] = e /\ t \notin hidden}

\* Seats are priced by a type of their own event, or by none once the type was
\* removed, although the check is over when the seats are written.
SeatsOwnTypes ==
    \A i \in Rows :
        row[i].kind = "SEAT_MAP" /\ row[i].type # None => owner[row[i].type] = row[i].event

\* What nothing in the program sees to, and two of the properties are stated under: an
\* organizer does not send two first layouts of one event at a time...
FirstLayouts == {"checkMap", "createMap", "createZones"}
OneFirstLayout ==
    \A r, q \in Reqs :
        req[r].pc \in FirstLayouts /\ req[q].pc \in FirstLayouts /\ req[r].event = req[q].event
            => r = q

\* ...and an administrator does not decide on an event in the middle of a request on it.
Untouched(e) == \A r \in Reqs : req[r].event # e
DecisionsApart == \A e \in Events : Decide(e) => Untouched(e)

\* While OneFirstLayout: seats and zones that were created are shown, as the layout is of
\* their kind.  seats.service.ts:36 means to refuse a second first layout, but looks
\* before the transaction.
EveryRowIsShown == \A i \in Rows : row[i] # NoRow => i \in Layout(row[i].event)

\* What was ordered stays what it was: the seat is still of the type that the order
\* item names and that its price was read from, although the type may be removed
\* between the read and the insert.
OrdersMatchSeats == \A o \in items : row[o.row].type = o.type

\* An approved organizer bears the name that was approved, however edits and reviews
\* interleave (organizer.service.ts:167).
ApprovedName == org.status = "APPROVED" => org.name = org.approved

\* seats.service.ts:122: layouts are only added to.
LayoutOnlyGrows ==
    [][/\ \A i \in Rows : row[i] # NoRow => row'[i].kind = row[i].kind /\ row'[i].event = row[i].event
       /\ \A e \in Events : model[e] # None => model'[e] # None]_cVars

\* While DecisionsApart: what was decided stays decided until the administrator says
\* otherwise, the event keeps its details and its layout, and the public is offered no
\* ticket type that was not among its own (price, quantity and times of a type change).
DecisionsStand ==
    [][\A e \in Events :
          status[e] \in Decided =>
              /\ status'[e] \in Decided
              /\ details'[e] = details[e]
              /\ Layout(e)' = Layout(e)
              /\ Offered(e)' \subseteq Offered(e)]_cVars

=============================================================================
