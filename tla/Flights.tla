------------------------------- MODULE Flights -------------------------------
(***************************************************************************)
(* What CoalescingService::execute promises its callers: there is at most  *)
(* one flight for a key; a call that finds one joins it, and starts one    *)
(* otherwise; a flight lands once, with one result, and takes nobody on    *)
(* board from then on; those on board are answered with that result, after *)
(* it has landed; and nobody ever changes the flight.                      *)
(***************************************************************************)
CONSTANTS
  Caller,   \* the calls; a flight is named after the one that started it
  Key,
  KeyOf,    \* the key each call is for
  None,     \* no flight
  Result,   \* what flights end with
  Unknown   \* not a result

VARIABLES
  flight,   \* flight[k]: the flight for key k that has not landed
  seat,     \* seat[c]: the flight call c is on
  result,   \* result[f]: what flight f ended with, once it has landed
  over      \* over[c]: "no", or how call c ended: "answered" or "gone"

fvars == <<flight, seat, result, over>>

Init ==
  /\ flight = [k \in Key |-> None]
  /\ seat = [c \in Caller |-> None]
  /\ result = [f \in Caller |-> Unknown]
  /\ over = [c \in Caller |-> "no"]

Board(c, f) ==
  /\ over[c] = "no"
  /\ seat[c] = None
  /\ seat' = [seat EXCEPT ![c] = f]
  /\ UNCHANGED <<result, over>>

Start(c) ==
  /\ flight[KeyOf[c]] = None
  /\ Board(c, c)
  /\ flight' = [flight EXCEPT ![KeyOf[c]] = c]

Join(c) ==
  /\ flight[KeyOf[c]] # None
  /\ Board(c, flight[KeyOf[c]])
  /\ UNCHANGED flight

Land(k) ==
  /\ flight[k] # None
  /\ flight' = [flight EXCEPT ![k] = None]
  /\ \E r \in Result : result' = [result EXCEPT ![flight[k]] = r]
  /\ UNCHANGED <<seat, over>>

Answer(c) ==
  /\ over[c] = "no"
  /\ seat[c] # None
  /\ result[seat[c]] # Unknown
  /\ over' = [over EXCEPT ![c] = "answered"]
  /\ UNCHANGED <<flight, seat, result>>

(* Dropped by whoever awaits it, or ended by a panic of the operation.     *)
GiveUp(c) ==
  /\ over[c] = "no"
  /\ over' = [over EXCEPT ![c] = "gone"]
  /\ UNCHANGED <<flight, seat, result>>

Next ==
  \/ \E c \in Caller : Start(c) \/ Join(c) \/ Answer(c) \/ GiveUp(c)
  \/ \E k \in Key : Land(k)

Spec == Init /\ [][Next]_fvars
=============================================================================
