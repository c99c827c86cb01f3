------------------------------- MODULE Recency -------------------------------
(***************************************************************************)
(* Maps that are cut back to their newest entries.  The runner's           *)
(* checkpoint holds three of them (deliveredEvents, pendingWebhookEvents,  *)
(* history); runner/src/state.ts keeps the newest of each on every save.   *)
(*                                                                         *)
(* Only the ORDER of the timestamps matters to that code, so an entry is   *)
(* represented by its age: 1 is the newest entry, 2 the next, and 0 means  *)
(* that the key is absent.                                                 *)
(***************************************************************************)
EXTENDS Naturals, FiniteSets

(* The keys a map holds. *)
Held(age) == {k \in DOMAIN age : age[k] # 0}

(* A map without any entry. *)
Nothing(S) == [k \in S |-> 0]

(* The map that holds only the keys of S, ranked among themselves. *)
Among(age, S) ==
    [k \in DOMAIN age |->
        IF k \in S /\ age[k] # 0
        THEN Cardinality({j \in Held(age) \cap S : age[j] <= age[k]})
        ELSE 0]

(* Key e gets a fresh timestamp: it becomes the newest entry. *)
Touch(age, e) ==
    [k \in DOMAIN age |->
        IF k = e THEN 1
        ELSE IF age[k] = 0 THEN 0
        ELSE 1 + Cardinality({j \in Held(age) \ {e} : age[j] <= age[k]})]

(* `delete map[e]` *)
Drop(age, e) == Among(age, DOMAIN age \ {e})

(* The newest `cap` entries survive a cut. *)
Newest(age, cap) == [k \in DOMAIN age |-> IF age[k] <= cap THEN age[k] ELSE 0]

(* The ages of the held keys are 1, 2, 3, ... without a gap. *)
IsRanking(age) == {age[k] : k \in Held(age)} = 1 .. Cardinality(Held(age))
=============================================================================
