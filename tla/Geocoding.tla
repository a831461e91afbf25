----------------------------- MODULE Geocoding -----------------------------
(***************************************************************************)
(* The gate in front of Nominatim, apps/api/src/location/                  *)
(* geocoding.service.ts: every lookup is chained onto the previous one,    *)
(* waits for what is left of the minimum interval since the last fetch     *)
(* began, fetches, and lets the next one go on.  One process, whose clock  *)
(* only goes forward.  The promise chain is the sequence of the lookups    *)
(* that have not settled; the timeout that aborts a fetch, or the reading  *)
(* of its body, is the fairness of the step that ends it.                  *)
(***************************************************************************)
EXTENDS Integers, Sequences

CONSTANTS
  Lookup,       \* calls of reverse
  MinInterval   \* MIN_INTERVAL_MS, in ticks

ASSUME MinIntervalAssumption == MinInterval \in Nat

VARIABLES
  chain,        \* the lookups that have not settled, the oldest first
  stage,        \* how far a lookup has come
  wait,         \* what it still has to sleep
  since,        \* the time since lastStartedAt, MinInterval at most
  answer        \* what it is answered

gate == <<chain, stage, wait, since, answer>>

GateTypeOK ==
  /\ chain \in Seq(Lookup)
  /\ stage \in [Lookup -> {"idle", "queued", "sleeping", "fetching", "reading", "done"}]
  /\ wait \in [Lookup -> 0 .. MinInterval]
  /\ since \in 0 .. MinInterval
  /\ answer \in [Lookup -> {"none", "address", "empty", "failed"}]

GateInit ==
  /\ chain = <<>>
  /\ stage = [l \in Lookup |-> "idle"]
  /\ wait = [l \in Lookup |-> 0]
  /\ since = MinInterval
  /\ answer = [l \in Lookup |-> "none"]
-----------------------------------------------------------------------------
Goto(l, s) == stage' = [stage EXCEPT ![l] = s]

(* A request arrives and is chained; its caller may go away meanwhile. *)
Ask(l) ==
  /\ stage[l] = "idle"
  /\ chain' = Append(chain, l)
  /\ Goto(l, "queued")
  /\ UNCHANGED <<wait, since, answer>>

(* Mutant: a lookup looks at the time of the last one when it arrives. *)
AnyTurn(l) == TRUE

(* The lookups before it have settled. *)
Turn(l) == chain # <<>> /\ l = Head(chain)

BeginSleep(l) ==
  /\ stage[l] = "queued" /\ Turn(l)
  /\ wait' = [wait EXCEPT ![l] = MinInterval - since]
  /\ Goto(l, "sleeping")
  /\ UNCHANGED <<chain, since, answer>>

(* A timer may be late, never early. *)
BeginFetch(l) ==
  /\ stage[l] = "sleeping" /\ wait[l] = 0
  /\ since' = 0
  /\ Goto(l, "fetching")
  /\ UNCHANGED <<chain, wait, answer>>

(* Mutant: the chain goes on only from a lookup that was answered. *)
AfterSuccess(how) == IF how = "reading" THEN Tail(chain) ELSE chain

(* The chain goes on whether or not a lookup was rejected. *)
Rest(how) == Tail(chain)

(* The response, or an error, a refusal or the timeout. *)
EndFetch(l) ==
  /\ stage[l] = "fetching"
  /\ \E how \in {"reading", "done"} :
       /\ Goto(l, how)
       /\ chain' = Rest(how)
       /\ answer' = [answer EXCEPT ![l] = IF how = "done" THEN "failed" ELSE "none"]
  /\ UNCHANGED <<wait, since>>

(* The body: an address, a point that has none, or nothing that parses. *)
ReadBody(l) ==
  /\ stage[l] = "reading"
  /\ answer' \in {[answer EXCEPT ![l] = how] : how \in {"address", "empty", "failed"}}
  /\ Goto(l, "done")
  /\ UNCHANGED <<chain, wait, since>>

Tick ==
  /\ since < MinInterval \/ \E l \in Lookup : wait[l] > 0
  /\ since' = IF since < MinInterval THEN since + 1 ELSE since
  /\ wait' = [l \in Lookup |-> IF wait[l] > 0 THEN wait[l] - 1 ELSE 0]
  /\ UNCHANGED <<chain, stage, answer>>

Advance(l) == BeginSleep(l) \/ BeginFetch(l) \/ EndFetch(l) \/ ReadBody(l)

GateNext == Tick \/ \E l \in Lookup : Ask(l) \/ Advance(l)

GateSpec == GateInit /\ [][GateNext]_gate

(* Timers run, promises are resumed and the timeout ends every request. *)
GateFairness == WF_gate(Tick) /\ \A l \in Lookup : WF_gate(Advance(l))
-----------------------------------------------------------------------------
(* Properties. *)

(* Why the fetches are spaced: the lookup that sleeps or fetches is the     *)
(* first of the chain, and what it has slept, or has left to sleep, makes   *)
(* up for the interval that began with the last fetch.                      *)
GateInv ==
  /\ GateTypeOK
  /\ \A l \in Lookup : stage[l] \in {"sleeping", "fetching"} => Turn(l)
  /\ \A l \in Lookup : stage[l] = "sleeping" => wait[l] + since >= MinInterval

(* Nominatim blocks clients that send more than a request a second: between *)
(* the beginnings of two fetches lies the minimum interval, however many    *)
(* lookups arrive in one tick and whatever becomes of them ("chaining every *)
(* call onto the previous one is what actually guarantees the spacing").    *)
Spaced ==
  [][\A l \in Lookup : stage[l] # "fetching" /\ stage'[l] = "fetching" =>
       since = MinInterval]_gate

(* Every lookup is answered: one that fails does not stall those after it   *)
(* ("keep the chain alive after a rejection").                              *)
EveryLookupAnswered ==
  \A l \in Lookup : stage[l] # "idle" ~> stage[l] = "done"
=============================================================================
