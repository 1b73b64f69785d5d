------------------------------ MODULE Broadcast ------------------------------
(***************************************************************************)
(* What the kit promises the clients of its topics, whatever happens in    *)
(* between: each message a client sends becomes at most one event and gets *)
(* at most one answer, the next one is taken up when it is done with, an   *)
(* event reaches clients of the sender's topic only and each of them at    *)
(* most once, and an answer reaches the sender.  Anything on its way may   *)
(* be lost; no order of events is promised.                                *)
(***************************************************************************)
EXTENDS Naturals, Sequences

CONSTANTS
  Conn,     \* the clients
  TopicOf   \* the topic each of them is on

VARIABLES
  asked,    \* asked[c]: how many messages of c were taken up
  open,     \* the clients whose last message may still become an event ...
  owed,     \* ... and those whose last message is not done with
  pending,  \* copies of events on their way to a client
  got       \* got[c]: the frames c has received, oldest first

bvars == <<asked, open, owed, pending, got>>

Frame(kind, c) == [kind |-> kind, from |-> c, n |-> asked[c]]

Copies(e) ==
  {[to |-> d, event |-> e] : d \in {x \in Conn : TopicOf[x] = TopicOf[e.from]}}

Init ==
  /\ asked = [c \in Conn |-> 0]
  /\ open = {}
  /\ owed = {}
  /\ pending = {}
  /\ got = [c \in Conn |-> <<>>]

Ask(c) ==
  /\ c \notin owed
  /\ asked' = [asked EXCEPT ![c] = @ + 1]
  /\ open' \in {open, open \cup {c}}
  /\ owed' = owed \cup {c}
  /\ UNCHANGED <<pending, got>>

(* It is settled what becomes of a message; it may still be answered.      *)
Settle(c) ==
  /\ c \in open
  /\ open' = open \ {c}
  /\ owed' \in {owed, owed \ {c}}
  /\ UNCHANGED <<asked, got>>

Publish(c) ==
  /\ Settle(c)
  /\ pending' = pending \cup Copies(Frame("event", c))

PublishNothing(c) ==
  /\ Settle(c)
  /\ UNCHANGED pending

Answer(c) ==
  /\ c \in owed \ open
  /\ owed' = owed \ {c}
  /\ got' \in {got, [got EXCEPT ![c] = Append(@, Frame("reply", c))]}
  /\ UNCHANGED <<asked, open, pending>>

Deliver(s) ==
  /\ s \in pending
  /\ pending' = pending \ {s}
  /\ got' = [got EXCEPT ![s.to] = Append(@, s.event)]
  /\ UNCHANGED <<asked, open, owed>>

Lose ==
  /\ pending' \in SUBSET pending
  /\ UNCHANGED <<asked, open, owed, got>>

Next ==
  \/ \E c \in Conn : Ask(c) \/ Publish(c) \/ PublishNothing(c) \/ Answer(c)
  \/ \E s \in pending : Deliver(s)
  \/ Lose

Spec == Init /\ [][Next]_bvars
=============================================================================
