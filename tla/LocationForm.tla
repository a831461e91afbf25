---------------------------- MODULE LocationForm ----------------------------
(***************************************************************************)
(* The part of a cleanup report's form that says where the site is, in     *)
(* apps/web/src/components: location-picker.tsx, the pin and the lookups   *)
(* it asks of Geocoding, and the address fields and the submission of      *)
(* cleanup-report-view.tsx.  Lookups of other users go through the same    *)
(* gate.  What becomes of a submission is in Contributions; here it is     *)
(* answered with success or not.                                           *)
(***************************************************************************)
EXTENDS Geocoding

CONSTANTS
  Pin,         \* coordinates
  Field,       \* the address fields, of those that a lookup fills
  Address,     \* what Nominatim may say of a place: a value for some keys
  None

ASSUME PinAssumption == None \notin Pin

VARIABLES
  coords,      \* the form's coordinates
  field,       \* what is in an address field: the address of a pin, or typed
  geo,         \* geoState of the picker
  asked,       \* the pins of the lookups that this page waits for
  lookingUp,   \* "Looking up address..." is shown
  sent         \* the body of the submission that the form waits for

form == <<coords, field, geo, asked, lookingUp, sent>>
all == <<gate, form>>

Text == Pin \cup {"blank", "typed"}

TypeOK ==
  /\ GateInv
  /\ coords \in Pin \cup {None}
  /\ field \in [Field -> Text]
  /\ geo \in {"idle", "locating", "denied", "unavailable"}
  /\ asked \in [Lookup -> Pin \cup {None}]
  /\ lookingUp => \E l \in Lookup : asked[l] # None
  /\ sent \in {None} \cup [at : Pin \cup {None}, field : [Field -> Text]]
  /\ \A l \in Lookup : asked[l] # None => stage[l] # "idle"

Empty == [f \in Field |-> "blank"]

Init ==
  /\ GateInit
  /\ coords = None /\ field = Empty
  /\ geo = "idle"
  /\ asked = [l \in Lookup |-> None] /\ lookingUp = FALSE
  /\ sent = None
-----------------------------------------------------------------------------
(* The picker. *)

LocationButton == sent = None /\ geo # "locating"

UseMyLocation ==
  /\ LocationButton
  /\ geo' \in {"locating", "unavailable"}
  /\ UNCHANGED <<gate, coords, field, asked, lookingUp, sent>>

(* The browser found the position, whatever the form has come to since:    *)
(* it becomes the form's and its address is looked up.                     *)
Located ==
  /\ geo = "locating"
  /\ \E p \in Pin, l \in Lookup :
       /\ Ask(l)
       /\ coords' = p
       /\ asked' = [asked EXCEPT ![l] = p]
  /\ geo' = "idle"
  /\ lookingUp' = TRUE
  /\ UNCHANGED <<field, sent>>

NotLocated ==
  /\ geo = "locating"
  /\ geo' \in {"denied", "unavailable"}
  /\ UNCHANGED <<gate, coords, field, asked, lookingUp, sent>>

(* A click on the map, or the end of a drag: nothing is looked up, and the *)
(* map is there while the form waits.                                      *)
PlacePin ==
  /\ coords' \in Pin
  /\ UNCHANGED <<gate, field, geo, asked, lookingUp, sent>>

(* The value of the first of some keys that an address has, ... *)
First(address, keys) ==
  LET there == SelectSeq(keys, LAMBDA k : k \in DOMAIN address)
  IN IF there = <<>> THEN None ELSE address[Head(there)]

(* ... and of the first whose value reads as a ward or as a district: what *)
(* a name begins with says more than the key it comes under.               *)
FirstMatching(address, level, keys) ==
  First([k \in {j \in DOMAIN address : address[j].reads = level} |-> address[k]], keys)

ToReverseGeocodeResult(address) ==
  LET named(level, keys, others) ==
        LET value == FirstMatching(address, level, keys)
        IN IF value # None THEN value ELSE First(address, others)
      ward == named("ward", <<"quarter", "suburb", "village", "ward", "city_district">>,
                            <<"quarter", "suburb", "village", "ward">>)
      district == named("district", <<"city_district", "district", "county">>, <<"district", "county">>)
  IN [ward |-> ward,
      district |-> IF district = ward THEN None ELSE district,
      city |-> First(address, <<"city", "town", "state">>),
      addressLine |-> First(address, <<"display_name">>)]

Found(address) == {f \in Field : ToReverseGeocodeResult(address)[f] # None}

(* What was found fills the fields that are blank. *)
Filled(found, p) ==
  [f \in Field |-> IF f \in found /\ field[f] = "blank" THEN p ELSE field[f]]

(* The rest of lookUpAddress, whose answer may be lost. *)
LookedUp(l) ==
  /\ asked[l] # None
  /\ \/ /\ stage[l] = "done" /\ answer[l] = "address"
        /\ \E a \in Address : field' = Filled(Found(a), asked[l])
     \/ UNCHANGED field
  /\ asked' = [asked EXCEPT ![l] = None]
  /\ lookingUp' = FALSE
  /\ UNCHANGED <<gate, coords, geo, sent>>
-----------------------------------------------------------------------------
(* The form. *)

Edit(f) ==
  /\ sent = None
  /\ field' \in {[field EXCEPT ![f] = text] : text \in {"blank", "typed"}}
  /\ UNCHANGED <<gate, coords, geo, asked, lookingUp, sent>>

(* onSubmit of a form whose photo and description are there. *)
OnSubmit ==
  /\ sent = None
  /\ sent' = [at |-> coords, field |-> field]
  /\ UNCHANGED <<gate, coords, field, geo, asked, lookingUp>>

(* The rest of onSubmit: a success clears the form, but neither the lookups *)
(* that are on their way nor a position that is being looked for.           *)
Submitted ==
  /\ sent # None
  /\ \/ coords' = None /\ field' = Empty
     \/ UNCHANGED <<coords, field>>
  /\ sent' = None
  /\ UNCHANGED <<gate, geo, asked, lookingUp>>

Page ==
  \/ UseMyLocation
  \/ Located
  \/ NotLocated
  \/ PlacePin
  \/ OnSubmit
  \/ Submitted
  \/ \E l \in Lookup : LookedUp(l)
  \/ \E f \in Field : Edit(f)

Next == Page \/ (GateNext /\ UNCHANGED form)

Spec == Init /\ [][Next]_all

FairSpec == Spec /\ GateFairness
-----------------------------------------------------------------------------
(* Properties. *)

(* "Pin -> Vietnamese address components ... a signed-in user dropping a    *)
(* pin makes a handful of these" (location.controller.ts): the address that *)
(* was looked up for a report is that of the pin that is sent with it.      *)
AddressOfPin ==
  sent # None =>
    \A f \in Field : sent.field[f] \in {"blank", "typed", sent.at}
=============================================================================
