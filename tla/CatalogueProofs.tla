--------------------------- MODULE CatalogueProofs ---------------------------
(***************************************************************************)
(* Proofs about Catalogue, for any events, types, rows and requests.       *)
(*                                                                         *)
(* A check that a request made is over when it writes.  What lasts of it:  *)
(* a type never moves to another event, it can only go; a seat only loses  *)
(* its type, and only together with the type.                              *)
(***************************************************************************)
EXTENDS Catalogue, TLAPS

USE CatalogueAssumption

Requests == [pc : Steps, event : Events \cup {None}, type : TicketTypes \cup {None},
             seen : Rows \cup Versions \cup {None}]

Tables ==
    /\ status \in [Events -> Mutable \cup Decided \cup {None}]
    /\ model \in [Events -> Models \cup {None}]
    /\ details \in [Events -> Versions \cup {None}]
    /\ owner \in [TicketTypes -> Events \cup {None, "deleted"}]
    /\ offer \in [TicketTypes -> Versions \cup {None}]
    /\ hidden \in SUBSET TicketTypes
    /\ row \in [Rows -> LayoutRows \cup {NoRow}]
    /\ items \in SUBSET [row : Rows, type : TicketTypes]
    /\ org \in Profiles

\* The requests that write a row of an event.
LayoutSteps == FirstLayouts \cup {"checkSections", "addSections", "addZones"}
\* The ones of them for which the type was found to be of the event.
Checked == {"createMap", "addSections"}
Typed == Checked \cup {"checkMap", "checkSections", "updateType", "hideType", "removeType"}

\* What request q may rely on, given the owners o and the rows w.
Sound(q, o, w) ==
    /\ q \in Requests
    /\ q.pc \in LayoutSteps => q.event \in Events
    /\ q.pc \in Typed => q.type \in TicketTypes
    /\ q.pc \in Checked => o[q.type] \in {q.event, "deleted"}
    /\ q.pc = "order" =>
          /\ q.seen \in Rows /\ q.type \in TicketTypes
          /\ w[q.seen].type = q.type \/ o[q.type] = "deleted"

SeatTyped(i, o, w) ==
    w[i].kind = "SEAT_MAP" /\ w[i].type # None => o[w[i].type] = w[i].event

ItemTyped(x, o, w) == w[x.row].type = x.type

SafeInv ==
    /\ Tables
    /\ req \in [Reqs -> Requests]
    /\ \A r \in Reqs : Sound(req[r], owner, row)
    /\ \A i \in Rows : SeatTyped(i, owner, row)
    /\ \A x \in items : ItemTyped(x, owner, row)

\* Types stay with their event or go; a seat keeps its type or loses it with it.
Lasts(o, w, p, x) ==
    /\ \A t \in TicketTypes : o[t] # None => p[t] \in {o[t], "deleted"}
    /\ \A i \in Rows : w[i].type \in TicketTypes =>
          x[i].type = w[i].type \/ p[w[i].type] = "deleted"

LEMMA SoundLasts ==
    ASSUME NEW o, NEW w, NEW p, NEW x, NEW q, Sound(q, o, w), Lasts(o, w, p, x)
    PROVE  Sound(q, p, x)
  BY DEF Sound, Lasts, Requests, Checked, Typed, LayoutSteps, FirstLayouts

LEMMA IdleIsSound == ASSUME NEW o, NEW w PROVE Sound(NoReq, o, w)
  BY DEF Sound, NoReq, Request, Requests, Steps, Checked, Typed, LayoutSteps, FirstLayouts

LEMMA SafeInit == CatInit => SafeInv
  <1> SUFFICES ASSUME CatInit PROVE SafeInv
    OBVIOUS
  <1>1. Tables
    BY DEF CatInit, Tables, Profiles, NoRow
  <1>2. req \in [Reqs -> Requests] /\ \A r \in Reqs : Sound(req[r], owner, row)
    BY IdleIsSound DEF CatInit, Sound
  <1>3. \A i \in Rows : SeatTyped(i, owner, row)
    BY DEF CatInit, SeatTyped, NoRow
  <1> QED
    BY <1>1, <1>2, <1>3 DEF CatInit, SafeInv

-----------------------------------------------------------------------------
(* One step changes one request.                                           *)

\* Request r goes on as q.
LEMMA OneRequest ==
    ASSUME SafeInv, Lasts(owner, row, owner', row'), Tables',
           NEW r \in Reqs, NEW q, Sound(q, owner', row'), req' = [req EXCEPT ![r] = q],
           \A i \in Rows : SeatTyped(i, owner', row'),
           \A x \in items' : ItemTyped(x, owner', row')
    PROVE  SafeInv'
  <1>1. q \in Requests
    BY DEF Sound
  <1>2. req' \in [Reqs -> Requests]
    BY <1>1 DEF SafeInv
  <1>3. ASSUME NEW s \in Reqs PROVE Sound(req'[s], owner', row')
    BY SoundLasts DEF SafeInv
  <1> QED
    BY <1>2, <1>3 DEF SafeInv

\* Nothing happens to owners, rows and items.
LEMMA Quiet ==
    ASSUME SafeInv, UNCHANGED <<owner, row, items>>, Tables',
           NEW r \in Reqs, NEW q, Sound(q, owner, row), req' = [req EXCEPT ![r] = q]
    PROVE  SafeInv'
  <1>1. Lasts(owner, row, owner', row')
    BY DEF Lasts, SafeInv, Tables
  <1>2. \A i \in Rows : SeatTyped(i, owner', row')
    BY DEF SafeInv
  <1>3. \A x \in items' : ItemTyped(x, owner', row')
    BY DEF SafeInv
  <1> QED
    BY <1>1, <1>2, <1>3, OneRequest

LEMMA SameTables == ASSUME SafeInv, UNCHANGED <<eventVars, typeVars, row, items, org>> PROVE Tables'
  BY DEF SafeInv, Tables, eventVars, typeVars

\* A request has begun.
LEMMA Asked ==
    ASSUME SafeInv, NEW r \in Reqs, NEW pc \in Steps, NEW e \in Events,
           NEW t \in TicketTypes \cup {None}, Asks(r, pc, e, t),
           pc \notin Checked \cup {"order"}, pc \in Typed => t # None
    PROVE  SafeInv'
  <1> DEFINE q == Request(pc, e, t, None)
  <1>1. Sound(q, owner, row)
    BY DEF Sound, Request, Requests, Checked, Typed
  <1>2. Tables' /\ UNCHANGED <<owner, row, items>>
    BY SameTables DEF Asks, typeVars
  <1>3. req' = [req EXCEPT ![r] = q]
    BY DEF Asks, Starts
  <1> QED
    BY <1>1, <1>2, <1>3, Quiet

\* A request ends with a write that is not about owners, rows and items.
LEMMA EndedQuietly ==
    ASSUME SafeInv, NEW r \in Reqs, Ends(r), UNCHANGED <<owner, row, items>>, Tables'
    PROVE  SafeInv'
  <1>1. Sound(NoReq, owner, row)
    BY IdleIsSound
  <1> QED
    BY <1>1, Quiet DEF Ends

\* A row is inserted with a type that exists and was found to be of the event.
LEMMA Inserted ==
    ASSUME SafeInv, NEW r \in Reqs, NEW kind \in Models, req[r].pc \in LayoutSteps,
           kind = "SEAT_MAP" => req[r].pc \in Checked,
           Insert(kind, req[r].event, req[r].type), Ends(r),
           UNCHANGED <<typeVars, items, org, status, details>>,
           model' \in [Events -> Models \cup {None}]
    PROVE  SafeInv'
  <1> DEFINE e == req[r].event
             t == req[r].type
  <1>1. Sound(req[r], owner, row) /\ req[r] \in Requests
    BY DEF SafeInv
  <1>2. e \in Events /\ t \in TicketTypes \cup {None}
    BY <1>1 DEF Sound, Requests
  <1>3. kind = "SEAT_MAP" => t \in TicketTypes /\ owner[t] = e
    BY <1>1 DEF Sound, Checked, Typed, Insert, Exists
  <1> DEFINE new == [kind |-> kind, event |-> e, type |-> t]
  <1>4. new \in LayoutRows
    BY <1>2 DEF LayoutRows
  <1>5. PICK i \in Rows : row[i] = NoRow /\ row' = [row EXCEPT ![i] = new]
    BY DEF Insert
  <1>6. new.kind = kind /\ new.event = e /\ new.type = t
    OBVIOUS
  <1> HIDE DEF new
  <1>7. Tables'
    BY <1>4, <1>5 DEF SafeInv, Tables, typeVars
  <1>8. Lasts(owner, row, owner', row')
    BY <1>5 DEF Lasts, SafeInv, Tables, typeVars, NoRow
  <1>9. ASSUME NEW j \in Rows PROVE SeatTyped(j, owner', row')
    BY <1>3, <1>5, <1>6 DEF SeatTyped, SafeInv, Tables, typeVars
  <1>10. ASSUME NEW x \in items' PROVE ItemTyped(x, owner', row')
    BY <1>5 DEF ItemTyped, SafeInv, Tables, typeVars, NoRow
  <1>11. Sound(NoReq, owner', row')
    BY IdleIsSound
  <1> QED
    BY <1>7, <1>8, <1>9, <1>10, <1>11, OneRequest DEF Ends

-----------------------------------------------------------------------------
(* The steps.                                                              *)

LEMMA CreateEventSafe ==
    ASSUME SafeInv, NEW e \in Events, NEW action, CreateEvent(e, action)
    PROVE  SafeInv'
  <1>1. Tables'
    BY DEF CreateEvent, FirstStatus, SafeInv, Tables, typeVars, Mutable
  <1> QED
    BY <1>1 DEF CreateEvent, SafeInv, typeVars

LEMMA ArrivesSafe ==
    ASSUME SafeInv, NEW r \in Reqs, NEW e \in Events, Arrives(r, e)
    PROVE  SafeInv'
  <1> USE DEF Steps, Checked, Typed
  <1>1. CASE AskSubmit(r, e)
    BY <1>1, Asked DEF AskSubmit
  <1>2. CASE AskEdit(r, e)
    BY <1>2, Asked DEF AskEdit
  <1>3. CASE AskCreateType(r, e)
    BY <1>3, Asked DEF AskCreateType
  <1>4. ASSUME NEW t \in TicketTypes, AskSeatMap(r, e, t) PROVE SafeInv'
    BY <1>4, Asked DEF AskSeatMap
  <1>5. ASSUME NEW t \in TicketTypes, AskMoreSeats(r, e, t) PROVE SafeInv'
    BY <1>5, Asked DEF AskMoreSeats
  <1>6. ASSUME NEW t \in TicketTypes \cup {None}, AskZones(r, e, t) PROVE SafeInv'
    BY <1>6, Asked DEF AskZones
  <1>7. ASSUME NEW t \in TicketTypes \cup {None}, AskMoreZones(r, e, t) PROVE SafeInv'
    BY <1>7, Asked DEF AskMoreZones
  <1> QED
    BY <1>1, <1>2, <1>3, <1>4, <1>5, <1>6, <1>7 DEF Arrives

LEMMA AskTypeSafe ==
    ASSUME SafeInv, NEW r \in Reqs, NEW t \in TicketTypes, AskType(r, t)
    PROVE  SafeInv'
  <1>1. PICK pc \in {"updateType", "hideType", "removeType"} : Asks(r, pc, owner[t], t)
    BY DEF AskType
  <1>2. owner[t] \in Events /\ pc \in Steps /\ pc \notin Checked \cup {"order"}
    BY DEF AskType, Exists, Steps, Checked
  <1> QED
    BY <1>1, <1>2, Asked

LEMMA AskOrderSafe ==
    ASSUME SafeInv, NEW r \in Reqs, NEW i \in Rows, AskOrder(r, i)
    PROVE  SafeInv'
  <1> DEFINE q == Request("order", None, row[i].type, i)
  <1>1. row[i].type \in TicketTypes
    BY DEF AskOrder, SafeInv, Tables, LayoutRows, NoRow
  <1>2. Sound(q, owner, row)
    BY <1>1 DEF Sound, Request, Requests, Steps, Checked, Typed, LayoutSteps, FirstLayouts
  <1>3. Tables' /\ UNCHANGED <<owner, row, items>>
    BY SameTables DEF AskOrder, typeVars
  <1> QED
    BY <1>2, <1>3, Quiet DEF AskOrder, Starts

LEMMA AskProfileSafe ==
    ASSUME SafeInv, NEW r \in Reqs, AskProfile(r)
    PROVE  SafeInv'
  <1> DEFINE q == Request("saveProfile", None, None, org.name)
  <1>1. Sound(q, owner, row)
    BY DEF Sound, Request, Requests, Steps, Checked, Typed, LayoutSteps, FirstLayouts, SafeInv,
           Tables, Profiles
  <1>2. Tables' /\ UNCHANGED <<owner, row, items>>
    BY SameTables DEF AskProfile, typeVars
  <1> QED
    BY <1>1, <1>2, Quiet DEF AskProfile, Starts

LEMMA CheckTypesSafe ==
    ASSUME SafeInv, NEW r \in Reqs, CheckTypes(r)
    PROVE  SafeInv'
  <1>1. Tables' /\ UNCHANGED <<owner, row, items>>
    BY SameTables DEF CheckTypes, typeVars
  <1>2. req[r] \in Requests /\ Sound(req[r], owner, row)
    BY DEF SafeInv
  <1>3. ASSUME NEW pc \in Checked, To(r, pc), OwnType(r), req[r].pc \in {"checkMap", "checkSections"}
        PROVE  SafeInv'
    <2> DEFINE q == [req[r] EXCEPT !.pc = pc]
    <2>1. q \in Requests /\ q.pc = pc /\ q.event = req[r].event /\ q.type = req[r].type
      BY <1>2 DEF Requests, Steps, Checked
    <2>2. req' = [req EXCEPT ![r] = q]
      BY <1>3 DEF To, SafeInv
    <2>3. Sound(q, owner, row)
      BY <1>2, <1>3, <2>1 DEF Sound, OwnType, Checked, Typed, LayoutSteps, FirstLayouts
    <2> QED
      BY <1>1, <2>2, <2>3, Quiet
  <1>4. CASE Ends(r)
    BY <1>1, <1>4, EndedQuietly
  <1> QED
    BY <1>3, <1>4 DEF CheckTypes, At, Checked

LEMMA ContentsSafe ==
    ASSUME SafeInv, NEW r \in Reqs,
           Submit(r) \/ Edit(r) \/ UpdateType(r) \/ HideType(r) \/ SaveProfile(r)
    PROVE  SafeInv'
  <1>1. Sound(req[r], owner, row)
    BY DEF SafeInv
  <1>2. Tables'
    <2> USE DEF SafeInv, Tables
    <2>1. CASE Submit(r)
      BY <2>1 DEF Submit, typeVars, Mutable
    <2>2. CASE Edit(r)
      <3>1. PICK v \in Versions : details' = [details EXCEPT ![req[r].event] = v]
        BY <2>2 DEF Edit
      <3> QED
        BY <2>2, <3>1 DEF Edit, typeVars
    <2>3. CASE UpdateType(r)
      <3>1. PICK v \in Versions : offer' = [offer EXCEPT ![req[r].type] = v]
        BY <2>3 DEF UpdateType
      <3> QED
        BY <2>3, <3>1 DEF UpdateType, eventVars
    <2>4. CASE HideType(r)
      BY <1>1, <2>4 DEF HideType, At, eventVars, Sound, Typed
    <2>5. CASE SaveProfile(r)
      BY <2>5 DEF SaveProfile, Profiles, eventVars, typeVars
    <2> QED
      BY <2>1, <2>2, <2>3, <2>4, <2>5
  <1>3. Ends(r) /\ UNCHANGED <<owner, row, items>>
    BY DEF Submit, Edit, UpdateType, HideType, SaveProfile, typeVars
  <1> QED
    BY <1>2, <1>3, EndedQuietly

LEMMA CreateTypeSafe ==
    ASSUME SafeInv, NEW r \in Reqs, CreateType(r)
    PROVE  SafeInv'
  <1>1. PICK t \in TicketTypes, v \in Versions :
          /\ owner[t] = None
          /\ owner' = [owner EXCEPT ![t] = req[r].event]
          /\ offer' = [offer EXCEPT ![t] = v]
    BY DEF CreateType
  <1>2. req[r].event \in Events \cup {None}
    BY DEF SafeInv, Requests
  <1>3. Tables'
    BY <1>1, <1>2 DEF CreateType, SafeInv, Tables, eventVars
  <1>4. Lasts(owner, row, owner', row')
    BY <1>1 DEF CreateType, Lasts, SafeInv, Tables
  <1>5. ASSUME NEW i \in Rows PROVE SeatTyped(i, owner', row')
    <2>1. row' = row /\ row[i] \in LayoutRows \cup {NoRow}
      BY DEF CreateType, SafeInv, Tables
    <2>2. row[i].kind = "SEAT_MAP" => row[i].event \in Events /\ row[i].type \in TicketTypes \cup {None}
      BY <2>1 DEF LayoutRows, NoRow, Models
    <2>3. SeatTyped(i, owner, row)
      BY DEF SafeInv
    <2> QED
      BY <1>1, <2>1, <2>2, <2>3 DEF SeatTyped, SafeInv, Tables
  <1>6. \A x \in items' : ItemTyped(x, owner', row')
    BY DEF CreateType, SafeInv, ItemTyped
  <1>7. Sound(NoReq, owner', row')
    BY IdleIsSound
  <1> QED
    BY <1>3, <1>4, <1>5, <1>6, <1>7, OneRequest DEF CreateType, Ends

\* A removed type leaves seats and zones where they are, without a type.
LEMMA Removed ==
    ASSUME SafeInv, NEW r \in Reqs, RemoveType(r)
    PROVE  /\ req[r].type \in TicketTypes
           /\ row' \in [Rows -> LayoutRows \cup {NoRow}]
           /\ \A i \in Rows : /\ row'[i].kind = row[i].kind /\ row'[i].event = row[i].event
                             /\ row'[i].type = IF row[i].type = req[r].type THEN None ELSE row[i].type
  <1> DEFINE t == req[r].type
  <1>1. t \in TicketTypes
    BY DEF RemoveType, At, SafeInv, Sound, Typed
  <1>2. row' = Untyped(t)
    BY DEF RemoveType
  <1>3. ASSUME NEW i \in Rows
        PROVE  /\ row'[i] = IF row[i].type = t THEN [row[i] EXCEPT !.type = None] ELSE row[i]
               /\ row[i] \in LayoutRows \cup {NoRow}
    BY <1>2 DEF Untyped, SafeInv, Tables
  <1>4. ASSUME NEW w \in LayoutRows
        PROVE  LET x == [w EXCEPT !.type = None]
               IN  x \in LayoutRows /\ x.kind = w.kind /\ x.event = w.event /\ x.type = None
    BY DEF LayoutRows
  <1>5. ASSUME NEW i \in Rows, row[i].type = t PROVE row[i] \in LayoutRows
    BY <1>1, <1>5 DEF NoRow, SafeInv, Tables
  <1>6. ASSUME NEW i \in Rows
        PROVE  /\ row'[i] \in LayoutRows \cup {NoRow}
               /\ row'[i].kind = row[i].kind /\ row'[i].event = row[i].event
               /\ row'[i].type = IF row[i].type = t THEN None ELSE row[i].type
    <2>1. CASE row[i].type = t
      <3> DEFINE w == row[i]
                 x == [w EXCEPT !.type = None]
      <3>1. w \in LayoutRows /\ row'[i] = x
        BY <1>3, <1>5, <2>1
      <3>2. x \in LayoutRows /\ x.kind = w.kind /\ x.event = w.event /\ x.type = None
        BY <1>4, <3>1
      <3> QED
        BY <2>1, <3>1, <3>2
    <2>2. CASE row[i].type # t
      BY <1>3, <2>2
    <2> QED
      BY <2>1, <2>2
  <1> QED
    BY <1>1, <1>2, <1>6 DEF Untyped

LEMMA RemoveTypeSafe ==
    ASSUME SafeInv, NEW r \in Reqs, RemoveType(r)
    PROVE  SafeInv'
  <1> DEFINE t == req[r].type
  <1>1. t \in TicketTypes
    BY DEF RemoveType, At, SafeInv, Sound, Typed
  <1>2. owner' = [owner EXCEPT ![t] = "deleted"] /\ row' = Untyped(t) /\ Unordered(t)
    BY DEF RemoveType
  <1>3. /\ row' \in [Rows -> LayoutRows \cup {NoRow}]
        /\ \A i \in Rows : /\ row'[i].kind = row[i].kind /\ row'[i].event = row[i].event
                          /\ row'[i].type = IF row[i].type = t THEN None ELSE row[i].type
    BY Removed
  <1>4. Tables'
    BY <1>2, <1>3 DEF RemoveType, SafeInv, Tables, eventVars
  <1>5. Lasts(owner, row, owner', row')
    BY <1>1, <1>2, <1>3 DEF Lasts, SafeInv, Tables
  <1>6. ASSUME NEW i \in Rows PROVE SeatTyped(i, owner', row')
    BY <1>1, <1>2, <1>3 DEF SeatTyped, SafeInv, Tables
  <1>7. ASSUME NEW x \in items' PROVE ItemTyped(x, owner', row')
    BY <1>2, <1>3 DEF RemoveType, Unordered, ItemTyped, SafeInv, Tables
  <1>8. Sound(NoReq, owner', row')
    BY IdleIsSound
  <1> QED
    BY <1>4, <1>5, <1>6, <1>7, <1>8, OneRequest DEF RemoveType, Ends

LEMMA LayoutSafe ==
    ASSUME SafeInv, NEW r \in Reqs, CreateSeatMap(r) \/ CreateZones(r) \/ AddRows(r)
    PROVE  SafeInv'
  <1> USE DEF LayoutSteps, FirstLayouts, Checked, Models, At
  <1>1. CASE CreateSeatMap(r)
    <2>1. model' \in [Events -> Models \cup {None}]
      BY <1>1 DEF CreateSeatMap, SafeInv, Tables
    <2> QED
      BY <1>1, <2>1, Inserted DEF CreateSeatMap
  <1>2. CASE CreateZones(r)
    <2>1. model' \in [Events -> Models \cup {None}]
      BY <1>2 DEF CreateZones, SafeInv, Tables
    <2> QED
      BY <1>2, <2>1, Inserted DEF CreateZones
  <1>3. CASE AddRows(r)
    <2>1. model' \in [Events -> Models \cup {None}] /\ UNCHANGED <<status, details>>
      BY <1>3 DEF AddRows, SafeInv, Tables, eventVars
    <2> QED
      BY <1>3, <2>1, Inserted DEF AddRows
  <1> QED
    BY <1>1, <1>2, <1>3

LEMMA PlaceOrderSafe ==
    ASSUME SafeInv, NEW r \in Reqs, PlaceOrder(r)
    PROVE  SafeInv'
  <1> DEFINE x == [row |-> req[r].seen, type |-> req[r].type]
  <1>1. Sound(req[r], owner, row) /\ req[r].pc = "order" /\ Exists(req[r].type)
    BY DEF SafeInv, PlaceOrder, At
  <1>2. x \in [row : Rows, type : TicketTypes] /\ row[x.row].type = x.type
    BY <1>1 DEF Sound, Exists
  <1>3. items' = items \cup {x}
    BY DEF PlaceOrder
  <1> HIDE DEF x
  <1>4. Tables'
    BY <1>2, <1>3 DEF PlaceOrder, SafeInv, Tables, eventVars, typeVars
  <1>5. Lasts(owner, row, owner', row')
    BY DEF PlaceOrder, Lasts, SafeInv, Tables, typeVars
  <1>6. \A i \in Rows : SeatTyped(i, owner', row')
    BY DEF PlaceOrder, SafeInv, typeVars
  <1>7. ASSUME NEW y \in items' PROVE ItemTyped(y, owner', row')
    BY <1>2, <1>3 DEF PlaceOrder, SafeInv, ItemTyped
  <1>8. Sound(NoReq, owner', row')
    BY IdleIsSound
  <1> QED
    BY <1>4, <1>5, <1>6, <1>7, <1>8, OneRequest DEF PlaceOrder, Ends

LEMMA RequestDiesSafe ==
    ASSUME SafeInv, NEW r \in Reqs, RequestDies(r)
    PROVE  SafeInv'
  BY SameTables, EndedQuietly DEF RequestDies, typeVars

LEMMA DecideSafe ==
    ASSUME SafeInv, NEW e \in Events, Decide(e)
    PROVE  SafeInv'
  <1>1. PICK d \in Mutable \cup Decided : status' = [status EXCEPT ![e] = d]
    BY DEF Decide, Mutable, Decided
  <1>2. Tables'
    BY <1>1 DEF Decide, SafeInv, Tables, typeVars
  <1> QED
    BY <1>2 DEF Decide, SafeInv, typeVars

LEMMA ReviewSafe ==
    ASSUME SafeInv, Review
    PROVE  SafeInv'
  <1>1. org' \in Profiles
    BY DEF Review, SafeInv, Tables, Profiles
  <1>2. Tables'
    BY <1>1 DEF Review, SafeInv, Tables, eventVars, typeVars
  <1> QED
    BY <1>2 DEF Review, SafeInv, eventVars, typeVars

LEMMA SafeStep ==
    ASSUME SafeInv, [CatNext]_cVars
    PROVE  SafeInv'
  <1>1. CASE UNCHANGED cVars
    BY <1>1 DEF cVars, SafeInv, Tables
  <1>2. ASSUME NEW r \in Reqs, Writes(r) PROVE SafeInv'
    BY <1>2, ContentsSafe, CreateTypeSafe, RemoveTypeSafe, LayoutSafe, PlaceOrderSafe DEF Writes
  <1>3. CASE CatNext
    BY <1>2, <1>3, CreateEventSafe, ArrivesSafe, AskTypeSafe, AskOrderSafe, AskProfileSafe,
       CheckTypesSafe, RequestDiesSafe, DecideSafe, ReviewSafe DEF CatNext
  <1> QED
    BY <1>1, <1>3

-----------------------------------------------------------------------------

\* Type correctness, for any number of events, types, rows and requests.
THEOREM CatalogueTypeCorrect == CatSpec => []CatTypeOK
  <1>1. SafeInv => CatTypeOK
    BY DEF SafeInv, Tables, CatTypeOK, Requests
  <1> QED
    BY <1>1, SafeInit, SafeStep, PTL DEF CatSpec

\* Whatever is removed, created or dies in between: seats are of types of their own event.
THEOREM SeatsKeepOwnTypes == CatSpec => []SeatsOwnTypes
  <1>1. SafeInv => SeatsOwnTypes
    BY DEF SafeInv, SeatTyped, SeatsOwnTypes
  <1> QED
    BY <1>1, SafeInit, SafeStep, PTL DEF CatSpec

\* An ordered seat keeps the type it was ordered with: the foreign key of the items
\* makes up for the check that was made before the transaction.
THEOREM OrderedSeatsKeepType == CatSpec => []OrdersMatchSeats
  <1>1. SafeInv => OrdersMatchSeats
    BY DEF SafeInv, ItemTyped, OrdersMatchSeats
  <1> QED
    BY <1>1, SafeInit, SafeStep, PTL DEF CatSpec

-----------------------------------------------------------------------------
(* What a step does to layouts.                                            *)

\* Rows of a layout stay, models stay, and what is new is of a request's event.
LayoutStep(r) ==
    \/ /\ UNCHANGED model
       /\ \A i \in Rows : row'[i].kind = row[i].kind /\ row'[i].event = row[i].event
    \/ \E i \in Rows, k \in Models :
          /\ row[i] = NoRow
          /\ row' = [row EXCEPT ![i] = [kind |-> k, event |-> req[r].event, type |-> req[r].type]]
          /\ \/ req[r].pc \in FirstLayouts /\ model' = [model EXCEPT ![req[r].event] = k]
             \/ /\ req[r].pc = IF k = "SEAT_MAP" THEN "addSections" ELSE "addZones"
                /\ UNCHANGED model
          /\ Ends(r) /\ UNCHANGED <<status, details, typeVars>>

LEMMA StepOfLayout ==
    ASSUME SafeInv, [CatNext]_cVars
    PROVE  \/ /\ UNCHANGED model
              /\ \A i \in Rows : row'[i].kind = row[i].kind /\ row'[i].event = row[i].event
           \/ \E r \in Reqs : LayoutStep(r)
  <1>1. CASE UNCHANGED <<model, row>>
    BY <1>1
  <1>2. ASSUME NEW r \in Reqs, RemoveType(r)
        PROVE  /\ UNCHANGED model
               /\ \A i \in Rows : row'[i].kind = row[i].kind /\ row'[i].event = row[i].event
    BY <1>2, Removed DEF RemoveType, eventVars
  <1>3. ASSUME NEW r \in Reqs, CreateSeatMap(r) \/ CreateZones(r) \/ AddRows(r)
        PROVE  LayoutStep(r)
    <2> USE DEF Insert, FirstLayouts, At, Models
    <2>1. CASE CreateSeatMap(r)
      BY <2>1 DEF CreateSeatMap, LayoutStep
    <2>2. CASE CreateZones(r)
      BY <2>2 DEF CreateZones, LayoutStep
    <2>3. CASE AddRows(r)
      BY <2>3 DEF AddRows, LayoutStep, eventVars
    <2> QED
      BY <1>3, <2>1, <2>2, <2>3
  <1>4. ASSUME NEW r \in Reqs, Writes(r)
        PROVE  \/ UNCHANGED <<model, row>> \/ RemoveType(r)
               \/ CreateSeatMap(r) \/ CreateZones(r) \/ AddRows(r)
    BY <1>4 DEF Writes, Submit, Edit, CreateType, UpdateType, HideType, PlaceOrder, SaveProfile,
                eventVars, typeVars
  <1>5. ASSUME NEW r \in Reqs, NEW e \in Events, Arrives(r, e) PROVE UNCHANGED <<model, row>>
    BY <1>5 DEF Arrives, Asks, AskSubmit, AskEdit, AskCreateType, AskSeatMap, AskMoreSeats,
                AskZones, AskMoreZones, eventVars
  <1>6. CASE CatNext
    BY <1>1, <1>2, <1>3, <1>4, <1>5, <1>6
       DEF CatNext, CreateEvent, AskType, Asks, AskOrder, AskProfile, CheckTypes, RequestDies,
           Decide, Review, eventVars
  <1> QED
    BY <1>1, <1>6 DEF cVars

\* Of a layout nothing is moved or lost, whatever overlaps.
THEOREM LayoutsOnlyGrow == CatSpec => LayoutOnlyGrows
  <1> DEFINE Grown == /\ \A i \in Rows : row[i] # NoRow =>
                              row'[i].kind = row[i].kind /\ row'[i].event = row[i].event
                      /\ \A e \in Events : model[e] # None => model'[e] # None
  <1>1. ASSUME SafeInv, [CatNext]_cVars PROVE Grown
    <2>1. ASSUME NEW r \in Reqs, LayoutStep(r) PROVE Grown
      BY <1>1, <2>1 DEF LayoutStep, SafeInv, Tables
    <2> QED
      BY <1>1, <2>1, StepOfLayout
  <1>2. SafeInv /\ [CatNext]_cVars => [Grown]_cVars
    BY <1>1
  <1> QED
    BY <1>2, SafeInit, SafeStep, PTL DEF CatSpec, LayoutOnlyGrows

-----------------------------------------------------------------------------
(* What a step does to requests on an event.                               *)

EventSteps == LayoutSteps \cup {"submit", "edit", "createType"}

\* What request q needs of the models m.
Fits(q, m) ==
    /\ q.pc \in FirstLayouts => m[q.event] = None
    /\ q.pc \in {"checkSections", "addSections"} => m[q.event] = "SEAT_MAP"
    /\ q.pc = "addZones" => m[q.event] = "ZONE"

\* Request r goes on as q: it ends or is about no event's status; or its types were
\* checked; or it has begun.
GoesOn(r, q) ==
    /\ req' = [req EXCEPT ![r] = q]
    /\ \/ q.pc \notin EventSteps
       \/ /\ q.event = req[r].event /\ UNCHANGED eventVars
          /\ \/ req[r].pc = "checkMap" /\ q.pc = "createMap"
             \/ req[r].pc = "checkSections" /\ q.pc = "addSections"
       \/ /\ q.event \in Events /\ IsMutable(q.event) /\ UNCHANGED eventVars
          /\ Fits(q, model)

LEMMA StepOfRequest ==
    ASSUME SafeInv, [CatNext]_cVars
    PROVE  UNCHANGED req \/ \E r \in Reqs : \E q : GoesOn(r, q)
  <1>1. ASSUME NEW r \in Reqs, Ends(r) PROVE GoesOn(r, NoReq)
    BY <1>1 DEF Ends, GoesOn, NoReq, Request, EventSteps, LayoutSteps, FirstLayouts
  <1>2. ASSUME NEW r \in Reqs, Writes(r) PROVE Ends(r)
    BY <1>2 DEF Writes, Submit, Edit, CreateType, UpdateType, HideType, RemoveType, CreateSeatMap,
                CreateZones, AddRows, PlaceOrder, SaveProfile
  <1>3. ASSUME NEW r \in Reqs, NEW e \in Events, Arrives(r, e) PROVE \E q : GoesOn(r, q)
    <2>1. ASSUME NEW pc, NEW t, Asks(r, pc, e, t), IsMutable(e),
                 Fits(Request(pc, e, t, None), model)
          PROVE  GoesOn(r, Request(pc, e, t, None))
      BY <2>1 DEF Asks, Starts, GoesOn, Request
    <2> USE DEF Fits, Request, FirstLayouts, IsMutable, HasNoModel
    <2>2. CASE AskSubmit(r, e)
      BY <2>1, <2>2 DEF AskSubmit, CanSubmit, Submittable, Mutable
    <2>3. CASE AskEdit(r, e)
      BY <2>1, <2>3 DEF AskEdit
    <2>4. CASE AskCreateType(r, e)
      BY <2>1, <2>4 DEF AskCreateType
    <2>5. ASSUME NEW t, AskSeatMap(r, e, t) PROVE \E q : GoesOn(r, q)
      BY <2>1, <2>5 DEF AskSeatMap
    <2>6. ASSUME NEW t, AskMoreSeats(r, e, t) PROVE \E q : GoesOn(r, q)
      BY <2>1, <2>6 DEF AskMoreSeats
    <2>7. ASSUME NEW t, AskZones(r, e, t) PROVE \E q : GoesOn(r, q)
      BY <2>1, <2>7 DEF AskZones
    <2>8. ASSUME NEW t, AskMoreZones(r, e, t) PROVE \E q : GoesOn(r, q)
      BY <2>1, <2>8 DEF AskMoreZones
    <2> QED
      BY <1>3, <2>2, <2>3, <2>4, <2>5, <2>6, <2>7, <2>8 DEF Arrives
  <1>4. ASSUME NEW r \in Reqs, NEW pc, NEW e, NEW t, NEW i, pc \notin EventSteps,
               Starts(r, Request(pc, e, t, i))
        PROVE  GoesOn(r, Request(pc, e, t, i))
    BY <1>4 DEF Starts, GoesOn, Request
  <1>5. ASSUME NEW r \in Reqs, NEW t \in TicketTypes, AskType(r, t) PROVE \E q : GoesOn(r, q)
    BY <1>4, <1>5 DEF AskType, Asks, EventSteps, LayoutSteps, FirstLayouts
  <1>6. ASSUME NEW r \in Reqs, NEW i \in Rows, AskOrder(r, i) PROVE \E q : GoesOn(r, q)
    BY <1>4, <1>6 DEF AskOrder, EventSteps, LayoutSteps, FirstLayouts
  <1>7. ASSUME NEW r \in Reqs, AskProfile(r) PROVE \E q : GoesOn(r, q)
    BY <1>4, <1>7 DEF AskProfile, EventSteps, LayoutSteps, FirstLayouts
  <1>8. ASSUME NEW r \in Reqs, CheckTypes(r) PROVE \E q : GoesOn(r, q)
    <2>1. ASSUME NEW pc, To(r, pc),
                 \/ req[r].pc = "checkMap" /\ pc = "createMap"
                 \/ req[r].pc = "checkSections" /\ pc = "addSections"
          PROVE  GoesOn(r, [req[r] EXCEPT !.pc = pc])
      <3>1. req[r] \in Requests
        BY DEF SafeInv
      <3> DEFINE q == [req[r] EXCEPT !.pc = pc]
      <3>2. q.pc = pc /\ q.event = req[r].event
        BY <3>1 DEF Requests
      <3>3. req' = [req EXCEPT ![r] = q]
        BY <2>1 DEF To, SafeInv
      <3> QED
        BY <1>8, <2>1, <3>2, <3>3 DEF GoesOn, CheckTypes
    <2> QED
      BY <1>1, <1>8, <2>1 DEF CheckTypes, At
  <1>9. CASE CatNext
    BY <1>1, <1>2, <1>3, <1>5, <1>6, <1>7, <1>8, <1>9
       DEF CatNext, CreateEvent, RequestDies, Decide, Review
  <1> QED
    BY <1>9 DEF cVars

-----------------------------------------------------------------------------
(* What is created is shown.                                               *)

Shown(i, m, w) == w[i] # NoRow => m[w[i].event] = w[i].kind

ShownInv ==
    /\ \A r \in Reqs : Fits(req[r], model)
    /\ \A i \in Rows : Shown(i, model, row)

LEMMA ShownInit == CatInit => ShownInv
  BY DEF CatInit, ShownInv, Fits, Shown, NoReq, Request, FirstLayouts

\* A request of another event, or one that is no longer a first layout, fits on.
LEMMA ShownStep ==
    ASSUME SafeInv, ShownInv, OneFirstLayout, [CatNext]_cVars
    PROVE  ShownInv'
  <1> USE DEF LayoutSteps, FirstLayouts
  <1>1. ASSUME NEW r \in Reqs PROVE req[r] \in Requests /\ Sound(req[r], owner, row)
    BY DEF SafeInv
  <1>2. /\ model \in [Events -> Models \cup {None}]
        /\ \A i \in Rows : row[i] \in LayoutRows \cup {NoRow}
        /\ \A i \in Rows : row'[i] \in LayoutRows \cup {NoRow}
    BY SafeStep DEF SafeInv, Tables
  <1>3. CASE /\ UNCHANGED model
             /\ \A i \in Rows : row'[i].kind = row[i].kind /\ row'[i].event = row[i].event
    <2>1. ASSUME NEW i \in Rows PROVE Shown(i, model', row')
      <3>1. row'[i] # NoRow => row[i] # NoRow
        BY <1>2, <1>3 DEF LayoutRows, NoRow
      <3>2. Shown(i, model, row)
        BY DEF ShownInv
      <3> QED
        BY <1>3, <3>1, <3>2 DEF Shown
    <2>2. CASE UNCHANGED req
      BY <1>3, <2>1, <2>2 DEF ShownInv
    <2>3. ASSUME NEW r \in Reqs, NEW q, GoesOn(r, q) PROVE ShownInv'
      <3>1. Fits(q, model)
        BY <2>3 DEF GoesOn, Fits, ShownInv, EventSteps
      <3>2. \A s \in Reqs : req'[s] = IF s = r THEN q ELSE req[s]
        BY <2>3 DEF GoesOn, SafeInv
      <3> QED
        BY <1>3, <2>1, <3>1, <3>2 DEF ShownInv
    <2> QED
      BY <2>2, <2>3, StepOfRequest
  <1>4. ASSUME NEW r \in Reqs, NEW i \in Rows, NEW k \in Models,
               row[i] = NoRow,
               row' = [row EXCEPT ![i] = [kind |-> k, event |-> req[r].event, type |-> req[r].type]],
               \/ req[r].pc \in FirstLayouts /\ model' = [model EXCEPT ![req[r].event] = k]
               \/ /\ req[r].pc = IF k = "SEAT_MAP" THEN "addSections" ELSE "addZones"
                  /\ UNCHANGED model,
               Ends(r)
        PROVE  ShownInv'
    <2> DEFINE e == req[r].event
    <2>1. e \in Events
      BY <1>1, <1>4 DEF Sound, Models
    <2>2. model'[e] = k /\ \A f \in Events : f # e => model'[f] = model[f]
      BY <1>2, <1>4, <2>1 DEF ShownInv, Fits, Models
    <2>3. req[r].pc \notin FirstLayouts => model' = model
      BY <1>4
    <2>4. ASSUME NEW s \in Reqs PROVE Fits(req'[s], model')
      <3>1. CASE s = r
        BY <1>4, <3>1 DEF Ends, SafeInv, Fits, NoReq, Request
      <3>2. CASE s # r
        <4>1. req'[s] = req[s] /\ Fits(req[s], model)
          BY <1>4, <3>2 DEF Ends, ShownInv
        <4>2. CASE req[s].pc \in LayoutSteps /\ req[r].pc \in FirstLayouts
          <5>1. req[s].event \in Events
            BY <1>1, <4>2 DEF Sound
          <5>2. req[s].event # e
            <6>1. model[e] = None
              BY <4>2 DEF ShownInv, Fits
            <6>2. req[s].pc \notin FirstLayouts => model[req[s].event] # None
              BY <4>1, <4>2 DEF Fits, Models
            <6> QED
              BY <3>2, <4>2, <6>1, <6>2 DEF OneFirstLayout
          <5> QED
            BY <2>2, <4>1, <5>1, <5>2 DEF Fits
        <4>3. CASE req[s].pc \notin LayoutSteps
          BY <4>1, <4>3 DEF Fits
        <4> QED
          BY <2>3, <4>1, <4>2, <4>3
      <3> QED
        BY <3>1, <3>2
    <2>5. ASSUME NEW j \in Rows PROVE Shown(j, model', row')
      <3>1. CASE j = i
        BY <1>4, <2>2, <3>1 DEF Shown, SafeInv, Tables
      <3>2. CASE j # i
        <4>1. row'[j] = row[j] /\ Shown(j, model, row)
          BY <1>4, <3>2 DEF ShownInv, SafeInv, Tables
        <4>2. CASE row[j] # NoRow
          <5>1. row[j].event \in Events /\ row[j].kind \in Models
            BY <1>2, <4>2 DEF LayoutRows
          <5>2. row[j].event = e => model' = model
            BY <2>3, <4>1, <4>2, <5>1 DEF Shown, ShownInv, Fits
          <5> QED
            BY <2>2, <4>1, <4>2, <5>1, <5>2 DEF Shown
        <4> QED
          BY <4>1, <4>2 DEF Shown
      <3> QED
        BY <3>1, <3>2
    <2> QED
      BY <2>4, <2>5 DEF ShownInv
  <1>5. ASSUME NEW r \in Reqs, LayoutStep(r) PROVE ShownInv'
    BY <1>3, <1>4, <1>5 DEF LayoutStep
  <1> QED
    BY <1>3, <1>5, StepOfLayout

\* As long as no organizer has two first layouts of one event under way, which nothing in
\* the program prevents, seats and zones that were created are shown, whatever else is sent.
THEOREM EveryRowShown == CatSpec /\ []OneFirstLayout => []EveryRowIsShown
  <1>1. SafeInv /\ ShownInv => EveryRowIsShown
    <2> SUFFICES ASSUME SafeInv, ShownInv, NEW i \in Rows, row[i] # NoRow
                 PROVE  i \in Layout(row[i].event)
      BY DEF EveryRowIsShown
    <2> QED
      BY DEF Layout, ShownInv, Shown
  <1>2. CatInit => SafeInv /\ ShownInv
    BY SafeInit, ShownInit
  <1>3. SafeInv /\ ShownInv /\ OneFirstLayout /\ [CatNext]_cVars => (SafeInv /\ ShownInv)'
    BY SafeStep, ShownStep
  <1> QED
    BY <1>1, <1>2, <1>3, PTL DEF CatSpec

-----------------------------------------------------------------------------
(* What is approved stays.                                                 *)

\* An event with an open request that looked at its status can still be changed.
OpenInv ==
    \A r \in Reqs : req[r].pc \in EventSteps => req[r].event \in Events /\ IsMutable(req[r].event)

LEMMA OpenInit == CatInit => OpenInv
  BY DEF CatInit, OpenInv, NoReq, Request, EventSteps, LayoutSteps, FirstLayouts

\* How a step changes the status and the details of event e: an organizer's write, or a
\* decision.
Others(e) == \A f \in Events : f # e => status'[f] = status[f] /\ details'[f] = details[f]
Changes(e) == (IsMutable(e) \/ status[e] = None) /\ Others(e) /\ status'[e] \in Mutable
Decides(e) ==
    /\ Untouched(e) /\ Others(e) /\ details'[e] = details[e]
    /\ status[e] \in Decided => status'[e] \in Decided

LEMMA StepOfStatus ==
    ASSUME SafeInv, OpenInv, [CatNext /\ DecisionsApart]_cVars
    PROVE  UNCHANGED <<status, details>> \/ \E e \in Events : Changes(e) \/ Decides(e)
  <1>1. status \in [Events -> Mutable \cup Decided \cup {None}]
        /\ details \in [Events -> Versions \cup {None}]
    BY DEF SafeInv, Tables
  <1>2. ASSUME NEW e \in Events, NEW action, CreateEvent(e, action) PROVE Changes(e)
    BY <1>1, <1>2 DEF CreateEvent, FirstStatus, Mutable, Changes, Others
  <1>3. ASSUME NEW r \in Reqs, Submit(r) \/ Edit(r) PROVE \E e \in Events : Changes(e)
    <2>1. req[r].event \in Events /\ IsMutable(req[r].event)
      BY <1>3 DEF Submit, Edit, At, OpenInv, EventSteps
    <2>2. Changes(req[r].event)
      <3>1. CASE Submit(r)
        BY <1>1, <2>1, <3>1 DEF Submit, Mutable, Changes, Others
      <3>2. CASE Edit(r)
        <4>1. PICK v \in Versions : details' = [details EXCEPT ![req[r].event] = v]
          BY <3>2 DEF Edit
        <4> QED
          BY <1>1, <2>1, <3>2, <4>1 DEF Edit, IsMutable, Changes, Others
      <3> QED
        BY <1>3, <3>1, <3>2
    <2> QED
      BY <2>1, <2>2
  <1>4. ASSUME NEW e \in Events, Decide(e), DecisionsApart PROVE Decides(e)
    <2>1. Untouched(e) /\ UNCHANGED details
      BY <1>4 DEF Decide, DecisionsApart
    <2>2. PICK d : /\ status' = [status EXCEPT ![e] = d]
                   /\ status[e] \in Decided => d \in Decided
      BY <1>4 DEF Decide, Decided
    <2> QED
      BY <1>1, <2>1, <2>2 DEF Decides, Others
  <1>5. ASSUME NEW r \in Reqs, Writes(r)
        PROVE  UNCHANGED <<status, details>> \/ Submit(r) \/ Edit(r)
    BY <1>5 DEF Writes, CreateType, UpdateType, HideType, RemoveType, CreateSeatMap, CreateZones,
                AddRows, PlaceOrder, SaveProfile, eventVars
  <1>6. ASSUME NEW r \in Reqs, NEW e \in Events, Arrives(r, e) PROVE UNCHANGED <<status, details>>
    BY <1>6 DEF Arrives, Asks, AskSubmit, AskEdit, AskCreateType, AskSeatMap, AskMoreSeats,
                AskZones, AskMoreZones, eventVars
  <1>7. CASE CatNext /\ DecisionsApart
    BY <1>2, <1>3, <1>4, <1>5, <1>6, <1>7
       DEF CatNext, AskType, Asks, AskOrder, AskProfile, CheckTypes, RequestDies, Review, eventVars
  <1> QED
    BY <1>7 DEF cVars

LEMMA OpenStep ==
    ASSUME SafeInv, OpenInv, [CatNext /\ DecisionsApart]_cVars
    PROVE  OpenInv'
  <1>1. ASSUME NEW r \in Reqs, req[r].pc \in EventSteps
        PROVE  req[r].event \in Events /\ status'[req[r].event] \in Mutable
    <2>1. req[r].event \in Events /\ status[req[r].event] \in Mutable
      BY <1>1 DEF OpenInv, IsMutable
    <2>2. CASE UNCHANGED <<status, details>>
      BY <2>1, <2>2
    <2>3. ASSUME NEW e \in Events, Changes(e) \/ Decides(e)
          PROVE  status'[req[r].event] \in Mutable
      BY <2>1, <2>3 DEF Changes, Decides, Others, Untouched
    <2> QED
      BY <2>1, <2>2, <2>3, StepOfStatus
  <1>2. CASE UNCHANGED req
    BY <1>1, <1>2 DEF OpenInv, IsMutable
  <1>3. ASSUME NEW r \in Reqs, NEW q, GoesOn(r, q) PROVE OpenInv'
    <2>1. \A s \in Reqs : req'[s] = IF s = r THEN q ELSE req[s]
      BY <1>3 DEF GoesOn, SafeInv
    <2>2. q.pc \in EventSteps => q.event \in Events /\ status'[q.event] \in Mutable
      BY <1>1, <1>3
         DEF GoesOn, OpenInv, IsMutable, EventSteps, LayoutSteps, FirstLayouts, eventVars
    <2> QED
      BY <1>1, <2>1, <2>2 DEF OpenInv, IsMutable
  <1> QED
    BY <1>2, <1>3, StepOfRequest

\* What the public is offered of a decided event is not added to.
LEMMA OffersStand ==
    ASSUME SafeInv, OpenInv, [CatNext]_cVars, NEW e \in Events, status[e] \in Decided
    PROVE  Offered(e)' \subseteq Offered(e)
  <1>1. CASE owner' = owner /\ hidden \subseteq hidden'
    BY <1>1 DEF Offered
  <1>2. ASSUME NEW r \in Reqs, CreateType(r) PROVE Offered(e)' \subseteq Offered(e)
    <2>1. req[r].event # e
      BY <1>2 DEF CreateType, At, OpenInv, IsMutable, EventSteps, Mutable, Decided
    <2>2. PICK t \in TicketTypes : owner' = [owner EXCEPT ![t] = req[r].event]
      BY <1>2 DEF CreateType
    <2>3. hidden' = hidden
      BY <1>2 DEF CreateType
    <2> QED
      BY <2>1, <2>2, <2>3 DEF Offered, SafeInv, Tables
  <1>3. ASSUME NEW r \in Reqs, RemoveType(r) PROVE Offered(e)' \subseteq Offered(e)
    <2>1. owner' = [owner EXCEPT ![req[r].type] = "deleted"] /\ hidden' = hidden
      BY <1>3 DEF RemoveType
    <2> QED
      BY <2>1 DEF Offered, SafeInv, Tables
  <1>4. ASSUME NEW r \in Reqs, Writes(r)
        PROVE  (owner' = owner /\ hidden \subseteq hidden') \/ CreateType(r) \/ RemoveType(r)
    BY <1>4 DEF Writes, Submit, Edit, UpdateType, HideType, CreateSeatMap, CreateZones, AddRows,
                PlaceOrder, SaveProfile, typeVars
  <1>5. ASSUME NEW r \in Reqs, NEW f \in Events, Arrives(r, f) PROVE UNCHANGED typeVars
    BY <1>5 DEF Arrives, Asks, AskSubmit, AskEdit, AskCreateType, AskSeatMap, AskMoreSeats,
                AskZones, AskMoreZones
  <1>6. CASE CatNext
    BY <1>1, <1>2, <1>3, <1>4, <1>5, <1>6
       DEF CatNext, CreateEvent, AskType, Asks, AskOrder, AskProfile, CheckTypes, RequestDies,
           Decide, Review, typeVars
  <1> QED
    BY <1>1, <1>6 DEF cVars

LEMMA LayoutStands ==
    ASSUME SafeInv, OpenInv, [CatNext]_cVars, NEW e \in Events, status[e] \in Decided
    PROVE  Layout(e)' = Layout(e)
  <1>1. CASE /\ UNCHANGED model
             /\ \A i \in Rows : row'[i].kind = row[i].kind /\ row'[i].event = row[i].event
    BY <1>1 DEF Layout
  <1>2. ASSUME NEW r \in Reqs, LayoutStep(r) PROVE Layout(e)' = Layout(e)
    <2>1. CASE req[r].pc \notin LayoutSteps
      BY <1>1, <1>2, <2>1 DEF LayoutStep, LayoutSteps, Models
    <2>2. CASE req[r].pc \in LayoutSteps
      <3>1. req[r].event # e
        BY <2>2 DEF OpenInv, IsMutable, EventSteps, Mutable, Decided
      <3>2. model'[e] = model[e]
        BY <1>2, <3>1 DEF LayoutStep, SafeInv, Tables
      <3>3. ASSUME NEW i \in Rows
            PROVE  \/ row'[i].event = row[i].event /\ row'[i].kind = row[i].kind
                   \/ row'[i].event # e /\ row[i].event # e
        BY <1>2, <3>1 DEF LayoutStep, SafeInv, Tables, NoRow
      <3> QED
        BY <3>2, <3>3 DEF Layout
    <2> QED
      BY <2>1, <2>2
  <1> QED
    BY <1>1, <1>2, StepOfLayout

\* As long as no decision falls into an open request, which nothing in the program
\* prevents, the status, the details and the layout that were decided on stand until the
\* administrator decides again, and no ticket type is added to those that are offered.
THEOREM WhatIsDecidedStands == CatSpec /\ [][DecisionsApart]_cVars => DecisionsStand
  <1> DEFINE Stands(e) == /\ status'[e] \in Decided
                          /\ details'[e] = details[e]
                          /\ Layout(e)' = Layout(e)
                          /\ Offered(e)' \subseteq Offered(e)
             Stand == \A e \in Events : status[e] \in Decided => Stands(e)
  <1>1. ASSUME SafeInv, OpenInv, [CatNext /\ DecisionsApart]_cVars PROVE Stand
    <2>1. ASSUME NEW e \in Events, status[e] \in Decided
          PROVE  status'[e] \in Decided /\ details'[e] = details[e]
      <3>1. ~IsMutable(e) /\ status[e] # None
        BY <2>1 DEF IsMutable, Mutable, Decided
      <3>2. CASE UNCHANGED <<status, details>>
        BY <2>1, <3>2
      <3>3. ASSUME NEW f \in Events, Changes(f) \/ Decides(f)
            PROVE  status'[e] \in Decided /\ details'[e] = details[e]
        BY <2>1, <3>1, <3>3 DEF Changes, Decides, Others
      <3> QED
        BY <1>1, <3>2, <3>3, StepOfStatus
    <2> QED
      BY <1>1, <2>1, LayoutStands, OffersStand
  <1>2. CatInit => SafeInv /\ OpenInv
    BY SafeInit, OpenInit
  <1>3. SafeInv /\ OpenInv /\ [CatNext /\ DecisionsApart]_cVars
           => (SafeInv /\ OpenInv)' /\ [Stand]_cVars
    BY <1>1, SafeStep, OpenStep
  <1>4. [CatNext]_cVars /\ [DecisionsApart]_cVars => [CatNext /\ DecisionsApart]_cVars
    OBVIOUS
  <1> QED
    BY <1>2, <1>3, <1>4, PTL DEF CatSpec, DecisionsStand

\* However edits and reviews of a profile interleave, an approved organizer bears the
\* name that was approved.
THEOREM ApprovedNameStays == CatSpec => []ApprovedName
  <1>1. CatInit => ApprovedName
    BY DEF CatInit, ApprovedName
  <1>2. ASSUME ApprovedName, [CatNext]_cVars PROVE ApprovedName'
    <2>1. CASE UNCHANGED org
      BY <1>2, <2>1 DEF ApprovedName
    <2>2. ASSUME NEW r \in Reqs, SaveProfile(r) PROVE ApprovedName'
      BY <2>2 DEF SaveProfile, ApprovedName
    <2>3. CASE Review
      <3>1. CASE org' = [org EXCEPT !.status = "REJECTED"]
        BY <1>2, <2>3, <3>1 DEF Review, ApprovedName
      <3>2. CASE org' = [name |-> org.name, status |-> "APPROVED", approved |-> org.name]
        BY <3>2 DEF ApprovedName
      <3> QED
        BY <2>3, <3>1, <3>2 DEF Review
    <2>4. ASSUME NEW r \in Reqs, Writes(r) PROVE UNCHANGED org \/ SaveProfile(r)
      BY <2>4 DEF Writes, Submit, Edit, CreateType, UpdateType, HideType, RemoveType,
                  CreateSeatMap, CreateZones, AddRows, PlaceOrder
    <2>5. ASSUME NEW r \in Reqs, NEW e \in Events, Arrives(r, e) PROVE UNCHANGED org
      BY <2>5 DEF Arrives, Asks, AskSubmit, AskEdit, AskCreateType, AskSeatMap, AskMoreSeats,
                  AskZones, AskMoreZones
    <2>6. CASE CatNext
      BY <2>1, <2>2, <2>3, <2>4, <2>5, <2>6
         DEF CatNext, CreateEvent, AskType, Asks, AskOrder, AskProfile, CheckTypes, RequestDies,
             Decide
    <2> QED
      BY <1>2, <2>1, <2>6 DEF cVars
  <1> QED
    BY <1>1, <1>2, PTL DEF CatSpec

=============================================================================
