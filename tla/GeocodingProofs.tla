-------------------------- MODULE GeocodingProofs --------------------------
(* The fetches of Geocoding are spaced, whatever the lookups and the interval, *)
(* and so they are when a page of LocationForm asks for some of them.          *)
EXTENDS LocationForm, TLAPS

(* What Append and Tail do to the first lookup of the chain. *)
LEMMA FirstStays ==
  ASSUME NEW l \in Lookup, chain \in Seq(Lookup), chain # <<>>
  PROVE  /\ Append(chain, l) \in Seq(Lookup)
         /\ Append(chain, l) # <<>>
         /\ Head(Append(chain, l)) = Head(chain)
  OBVIOUS

LEMMA TailIsChain ==
  ASSUME chain \in Seq(Lookup), chain # <<>>
  PROVE  Tail(chain) \in Seq(Lookup)
  OBVIOUS

LEMMA InitInv == GateInit => GateInv
  BY MinIntervalAssumption DEF GateInit, GateInv, GateTypeOK

LEMMA AskInv ==
  ASSUME GateInv, NEW l \in Lookup, Ask(l)
  PROVE  GateInv'
  <1>1. Append(chain, l) \in Seq(Lookup)
    BY DEF GateInv, GateTypeOK
  <1>2. GateTypeOK'
    BY <1>1 DEF GateInv, GateTypeOK, Ask, Goto
  <1>3. ASSUME NEW k \in Lookup, stage'[k] \in {"sleeping", "fetching"}
        PROVE  Turn(k)' /\ stage[k] = stage'[k]
    <2>1. stage[k] = stage'[k]
      BY <1>3 DEF GateInv, GateTypeOK, Ask, Goto
    <2>2. Turn(k)
      BY <1>3, <2>1 DEF GateInv
    <2>3. chain' # <<>> /\ Head(chain') = Head(chain)
      BY <2>2, FirstStays DEF Turn, Ask, GateInv, GateTypeOK
    <2>4. QED
      BY <2>1, <2>2, <2>3 DEF Turn
  <1>4. wait' = wait /\ since' = since
    BY DEF Ask
  <1>5. QED
    BY <1>2, <1>3, <1>4 DEF GateInv

LEMMA BeginSleepInv ==
  ASSUME GateInv, NEW l \in Lookup, BeginSleep(l)
  PROVE  GateInv'
  <1>1. MinInterval - since \in 0 .. MinInterval
    BY MinIntervalAssumption DEF GateInv, GateTypeOK
  <1>2. GateTypeOK'
    BY <1>1 DEF GateInv, GateTypeOK, BeginSleep, Goto
  <1>3. \A k \in Lookup : stage'[k] \in {"sleeping", "fetching"} => Turn(k)'
    BY DEF GateInv, GateTypeOK, BeginSleep, Goto, Turn
  <1>4. \A k \in Lookup : stage'[k] = "sleeping" => wait'[k] + since' >= MinInterval
    BY MinIntervalAssumption DEF GateInv, GateTypeOK, BeginSleep, Goto
  <1>5. QED
    BY <1>2, <1>3, <1>4 DEF GateInv

(* No other lookup sleeps while one is about to fetch. *)
LEMMA BeginFetchInv ==
  ASSUME GateInv, NEW l \in Lookup, BeginFetch(l)
  PROVE  GateInv'
  <1>1. GateTypeOK'
    BY MinIntervalAssumption DEF GateInv, GateTypeOK, BeginFetch, Goto
  <1>2. \A k \in Lookup : stage'[k] \in {"sleeping", "fetching"} => Turn(k)'
    BY DEF GateInv, GateTypeOK, BeginFetch, Goto, Turn
  <1>3. \A k \in Lookup : stage'[k] # "sleeping"
    <2>1. ASSUME NEW k \in Lookup, k # l  PROVE stage[k] # "sleeping"
      BY <2>1 DEF GateInv, BeginFetch, Turn
    <2>2. QED
      BY <2>1 DEF GateInv, GateTypeOK, BeginFetch, Goto
  <1>4. QED
    BY <1>1, <1>2, <1>3 DEF GateInv

LEMMA EndFetchInv ==
  ASSUME GateInv, NEW l \in Lookup, EndFetch(l)
  PROVE  GateInv'
  <1>1. PICK how \in {"reading", "done"} :
          /\ Goto(l, how)
          /\ chain' = Tail(chain)
          /\ answer' = [answer EXCEPT ![l] = IF how = "done" THEN "failed" ELSE "none"]
    BY DEF EndFetch, Rest
  <1>2. chain # <<>> /\ l = Head(chain)
    BY DEF GateInv, EndFetch, Turn
  <1>3. GateTypeOK'
    BY <1>1, <1>2, TailIsChain DEF GateInv, GateTypeOK, EndFetch, Goto
  <1>4. \A k \in Lookup : stage'[k] \notin {"sleeping", "fetching"}
    BY <1>1, <1>2 DEF GateInv, GateTypeOK, Goto, Turn
  <1>5. QED
    BY <1>3, <1>4 DEF GateInv

LEMMA ReadBodyInv ==
  ASSUME GateInv, NEW l \in Lookup, ReadBody(l)
  PROVE  GateInv'
  <1>1. GateTypeOK'
    BY DEF GateInv, GateTypeOK, ReadBody, Goto
  <1>2. \A k \in Lookup : stage'[k] \in {"sleeping", "fetching"} =>
          stage'[k] = stage[k] /\ Turn(k)'
    BY DEF GateInv, GateTypeOK, ReadBody, Goto, Turn
  <1>3. QED
    BY <1>1, <1>2 DEF GateInv, ReadBody

(* While a lookup sleeps, what it has left shrinks as the interval grows. *)
LEMMA TickInv ==
  ASSUME GateInv, Tick
  PROVE  GateInv'
  <1>1. GateTypeOK'
    BY MinIntervalAssumption DEF GateInv, GateTypeOK, Tick
  <1>2. \A k \in Lookup : stage'[k] \in {"sleeping", "fetching"} => Turn(k)'
    BY DEF GateInv, Tick, Turn
  <1>3. ASSUME NEW k \in Lookup, stage'[k] = "sleeping"
        PROVE  wait'[k] + since' >= MinInterval
    <2>1. wait[k] + since >= MinInterval /\ wait[k] \in Nat /\ since \in 0 .. MinInterval
      BY <1>3, MinIntervalAssumption DEF GateInv, GateTypeOK, Tick
    <2>2. wait'[k] = IF wait[k] > 0 THEN wait[k] - 1 ELSE 0
      BY DEF Tick
    <2>3. since' = IF since < MinInterval THEN since + 1 ELSE since
      BY DEF Tick
    <2>4. QED
      BY <2>1, <2>2, <2>3, MinIntervalAssumption
  <1>4. QED
    BY <1>1, <1>2, <1>3 DEF GateInv

LEMMA StepInv == GateInv /\ [GateNext]_gate => GateInv'
  <1> SUFFICES ASSUME GateInv, [GateNext]_gate PROVE GateInv'
    OBVIOUS
  <1>1. CASE UNCHANGED gate
    BY <1>1 DEF GateInv, GateTypeOK, Turn, gate
  <1>2. CASE Tick
    BY <1>2, TickInv
  <1>3. CASE \E l \in Lookup : Ask(l) \/ Advance(l)
    BY <1>3, AskInv, BeginSleepInv, BeginFetchInv, EndFetchInv, ReadBodyInv DEF Advance
  <1>4. QED
    BY <1>1, <1>2, <1>3 DEF GateNext

(* The inductive invariant of the gate in geocoding.service.ts: the lookup *)
(* that sleeps or fetches is the first of the chain, and its sleep makes   *)
(* up for the interval since the last fetch began.                         *)
THEOREM GateInvariance == GateSpec => []GateInv
  BY InitInv, StepInv, PTL DEF GateSpec

(* Fetches begin at least the minimum interval apart, for any lookups and  *)
(* any interval.                                                           *)
THEOREM FetchesAreSpaced == GateSpec => Spaced
  <1>1. GateInv /\ [GateNext]_gate =>
          [\A l \in Lookup : stage[l] # "fetching" /\ stage'[l] = "fetching" =>
             since = MinInterval]_gate
    <2> SUFFICES ASSUME GateInv, GateNext, NEW l \in Lookup,
                        stage[l] # "fetching", stage'[l] = "fetching"
                 PROVE  since = MinInterval
      OBVIOUS
    <2>1. \/ BeginFetch(l) /\ stage[l] = "sleeping" /\ wait[l] = 0
          \/ stage'[l] # "fetching"
      BY DEF GateNext, Advance, Ask, BeginSleep, BeginFetch, EndFetch, ReadBody,
             Tick, Goto, GateInv, GateTypeOK
    <2>2. wait[l] = 0 /\ wait[l] + since >= MinInterval /\ since \in 0 .. MinInterval
      BY <2>1 DEF GateInv, GateTypeOK
    <2>3. QED
      BY <2>2, MinIntervalAssumption
  <1>2. QED
    BY <1>1, GateInvariance, PTL DEF GateSpec, Spaced

(* What the page of LocationForm does is, for the gate, a lookup that      *)
(* arrives, or nothing: the page cannot disturb the spacing.               *)
THEOREM FormUsesGate == Spec => GateSpec
  <1>1. Init => GateInit
    BY DEF Init
  <1>2. [Next]_all => [GateNext]_gate
    <2>1. ASSUME Page PROVE [GateNext]_gate
      <3>1. ASSUME NEW p \in Pin, NEW l \in Lookup, Ask(l) PROVE GateNext
        BY <3>1 DEF GateNext
      <3>2. QED
        BY <2>1, <3>1 DEF Page, UseMyLocation, Located, NotLocated, PlacePin,
           LookedUp, Edit, OnSubmit, Submitted
    <2>2. QED
      BY <2>1 DEF Next, all
  <1>3. QED
    BY <1>1, <1>2, PTL DEF Spec, GateSpec

(* The lookups of the page are spaced among those of all users. *)
THEOREM FormIsSpaced == Spec => Spaced
  BY FormUsesGate, FetchesAreSpaced
(* A lookup that was asked for stays asked for, whatever the gate does.    *)
LEMMA AskedStays ==
  ASSUME GateInv, [GateNext]_gate, NEW l \in Lookup, stage[l] # "idle"
  PROVE  stage'[l] # "idle"
  BY DEF GateInv, GateTypeOK, GateNext, Advance, Ask, BeginSleep, BeginFetch, EndFetch,
         ReadBody, Tick, Goto, gate

(* What is found fills blank fields with the pin it was found for.         *)
LEMMA FilledIsText ==
  ASSUME field \in [Field -> Text], NEW p \in Pin, NEW found
  PROVE  Filled(found, p) \in [Field -> Text]
  BY DEF Filled, Text

LEMMA FormInit == Init => TypeOK
  <1> SUFFICES ASSUME Init PROVE TypeOK
    OBVIOUS
  <1>1. GateInv
    BY InitInv DEF Init
  <1>2. QED
    BY <1>1 DEF Init, TypeOK, Empty, Text

(* The position that is found, and the lookup that is asked for it. *)
LEMMA LocatedInv ==
  ASSUME TypeOK, Located
  PROVE  TypeOK'
  <1>1. PICK p \in Pin, l \in Lookup :
          Ask(l) /\ coords' = p /\ asked' = [asked EXCEPT ![l] = p]
    BY DEF Located
  <1>2. GateInv'
    BY <1>1, AskInv DEF TypeOK
  <1>3. stage'[l] # "idle" /\ \A k \in Lookup \ {l} : stage'[k] = stage[k]
    BY <1>1 DEF Ask, Goto, TypeOK, GateInv, GateTypeOK
  <1>4. asked' \in [Lookup -> Pin \cup {None}] /\ asked'[l] # None
        /\ \A k \in Lookup \ {l} : asked'[k] = asked[k]
    BY <1>1, PinAssumption DEF TypeOK
  <1>5. QED
    BY <1>1, <1>2, <1>3, <1>4 DEF TypeOK, Located

(* The end of a lookup, for which the page shows no message any longer.    *)
LEMMA LookedUpInv ==
  ASSUME TypeOK, NEW l \in Lookup, LookedUp(l)
  PROVE  TypeOK'
  <1>1. asked[l] \in Pin
    BY DEF TypeOK, LookedUp
  <1>2. field' \in [Field -> Text]
    BY <1>1, FilledIsText DEF TypeOK, LookedUp
  <1>3. GateInv'
    BY DEF TypeOK, LookedUp, gate, GateInv, GateTypeOK, Turn
  <1>4. asked' \in [Lookup -> Pin \cup {None}]
        /\ \A k \in Lookup : asked'[k] # None => asked[k] # None
    BY DEF TypeOK, LookedUp
  <1>5. QED
    BY <1>2, <1>3, <1>4 DEF TypeOK, LookedUp, gate

LEMMA FormStepInv == TypeOK /\ [Next]_all => TypeOK'
  <1> SUFFICES ASSUME TypeOK, [Next]_all PROVE TypeOK'
    OBVIOUS
  <1>1. ASSUME [GateNext]_gate, UNCHANGED form PROVE TypeOK'
    <2>1. GateInv'
      BY <1>1, StepInv DEF TypeOK
    <2>2. \A l \in Lookup : asked'[l] # None => stage'[l] # "idle"
      BY <1>1, AskedStays DEF TypeOK, form
    <2>3. QED
      BY <1>1, <2>1, <2>2 DEF TypeOK, form
  <1>2. ASSUME UNCHANGED gate, UNCHANGED <<asked, lookingUp>>,
               coords' \in Pin \cup {None}, field' \in [Field -> Text],
               geo' \in {"idle", "locating", "denied", "unavailable"},
               sent' \in {None} \cup [at : Pin \cup {None}, field : [Field -> Text]]
        PROVE  TypeOK'
    <2>1. GateInv'
      BY <1>2, StepInv DEF TypeOK
    <2>2. QED
      BY <1>2, <2>1 DEF TypeOK, gate
  <1>3. CASE UseMyLocation \/ NotLocated
    BY <1>2, <1>3 DEF UseMyLocation, NotLocated, TypeOK
  <1>4. CASE PlacePin
    BY <1>2, <1>4 DEF PlacePin, TypeOK
  <1>5. ASSUME NEW f \in Field, Edit(f) PROVE TypeOK'
    BY <1>2, <1>5 DEF Edit, TypeOK, Text
  <1>6. CASE OnSubmit \/ Submitted
    BY <1>2, <1>6 DEF OnSubmit, Submitted, TypeOK, Empty, Text
  <1>7. QED
    BY <1>1, <1>3, <1>4, <1>5, <1>6, LocatedInv, LookedUpInv DEF Next, Page, all

(* The form of cleanup-report-view.tsx with its picker: every variable     *)
(* keeps its type, "Looking up address..." is only shown while the page    *)
(* waits for a lookup, and a lookup it waits for has reached the gate.     *)
THEOREM FormTypeCorrect == Spec => []TypeOK
  BY FormInit, FormStepInv, PTL DEF Spec
=============================================================================
