---------------------------- MODULE PullService ----------------------------
(***************************************************************************)
(* What a pull of the lock state promises its client: however many threads *)
(* and locks the answer takes, it is the state and the time that hold at   *)
(* one moment between the question and the answer, and nobody was notified *)
(* of anything newer before that moment.                                   *)
(*                                                                         *)
(* An event is written as its number; the events come in that order.       *)
(***************************************************************************)
EXTENDS Naturals

CONSTANT Clients

VARIABLES
  present,             \* the event that holds: its state and its time
  told,                \* the event that clients were last notified of
  query                \* the pull of each client, and what it is answered

vars == <<present, told, query>>

Idle == [step |-> "idle", state |-> 0, time |-> 0]
Asked == [Idle EXCEPT !.step = "asked"]
Answered(state, time) == [step |-> "answered", state |-> state, time |-> time]

Init ==
  /\ present = 0 /\ told = 0
  /\ query = [c \in Clients |-> Idle]

\* Events are passed over, but none comes back.
Advance ==
  /\ present' \in Nat /\ present' > present
  /\ UNCHANGED <<told, query>>

Notify ==
  /\ told' = present
  /\ UNCHANGED <<present, query>>

Ask(c) ==
  /\ query[c] = Idle
  /\ query' = [query EXCEPT ![c] = Asked]
  /\ UNCHANGED <<present, told>>

\* The moment at which a pull takes effect.
Take(c) ==
  /\ query[c] = Asked
  /\ query' = [query EXCEPT ![c] = Answered(present, present)]
  /\ UNCHANGED <<present, told>>

Answer(c) ==
  /\ query[c].step = "answered"
  /\ query' = [query EXCEPT ![c] = Idle]
  /\ UNCHANGED <<present, told>>

Next ==
  \/ Advance \/ Notify
  \/ \E c \in Clients : Ask(c) \/ Take(c) \/ Answer(c)

Spec == Init /\ [][Next]_vars
=============================================================================
