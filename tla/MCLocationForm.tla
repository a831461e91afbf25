--------------------------- MODULE MCLocationForm ---------------------------
(* LocationForm for TLC: a few lookups of this page and of others. *)
EXTENDS LocationForm

CONSTANTS l1, l2, p1, p2

TwoLookups == {l1, l2}
TwoPins == {p1, p2}
OneField == {"district"}

Commune == [reads |-> "ward", name |-> "commune"]
District == [reads |-> "district", name |-> "district"]
Plain == [reads |-> "neither", name |-> "plain"]

(* Addresses of a few keys: the same value under two of them, a commune    *)
(* under a district's key, nothing at all.                                 *)
Addresses ==
  UNION {[keys -> {Commune, District, Plain}] :
           keys \in SUBSET {"suburb", "city_district", "county"}}

(* "Trusting the key alone puts a commune in the district box": one that    *)
(* comes under city_district is the ward, and no district.  (A district     *)
(* that also comes under suburb is taken for a ward if nothing reads so.)   *)
ASSUME CommuneIsWard ==
  \A a \in Addresses :
    LET result == ToReverseGeocodeResult(a)
        has(k, v) == k \in DOMAIN a /\ a[k] = v
    IN /\ has("suburb", Commune) \/ has("city_district", Commune) => result.ward = Commune
       /\ ~has("county", Commune) => result.district # Commune
       /\ has("city_district", District) => District \in {result.district, result.ward}
=============================================================================
