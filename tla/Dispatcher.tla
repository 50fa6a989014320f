----------------------------- MODULE Dispatcher -----------------------------
(***************************************************************************)
(* What xfasthttp's worker pool promises to the server: a connection given *)
(* to Serve is refused or served exactly once, and no more than Max are    *)
(* served at a time.  Nothing is said of the order.                        *)
(***************************************************************************)
EXTENDS Naturals, FiniteSets

CONSTANTS Conn, Max

VARIABLES waiting, serving, served, refused

dvars == <<waiting, serving, served, refused>>

Init == waiting = {} /\ serving = {} /\ served = {} /\ refused = {}

Offer(c) ==
  /\ c \notin waiting \cup serving \cup served \cup refused
  /\ waiting' = waiting \cup {c}
  /\ UNCHANGED <<serving, served, refused>>

Begin(c) ==
  /\ c \in waiting /\ Cardinality(serving) < Max
  /\ waiting' = waiting \ {c} /\ serving' = serving \cup {c}
  /\ UNCHANGED <<served, refused>>

Finish(c) ==
  /\ c \in serving
  /\ serving' = serving \ {c} /\ served' = served \cup {c}
  /\ UNCHANGED <<waiting, refused>>

Refuse(c) ==
  /\ c \in waiting
  /\ waiting' = waiting \ {c} /\ refused' = refused \cup {c}
  /\ UNCHANGED <<serving, served>>

Next == \E c \in Conn : Offer(c) \/ Begin(c) \/ Finish(c) \/ Refuse(c)

Spec == Init /\ [][Next]_dvars
=============================================================================
