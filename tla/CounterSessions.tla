-------------------------- MODULE CounterSessions ---------------------------
(***************************************************************************)
(* What the activators promise a client: a call for a set of counters      *)
(* yields all of them or, with an error, none; a counter of a session goes *)
(* only when its client stops it; sessions do not disturb each other.      *)
(***************************************************************************)
CONSTANTS Callers, Indices

VARIABLES
  phase,     \* "none", "starting" or "running", per client
  wanted,    \* the counters the client asked for
  counters   \* the open counters that were opened for the client

sessionVars == <<phase, wanted, counters>>

SessionTypeOK ==
  /\ phase \in [Callers -> {"none", "starting", "running"}]
  /\ wanted \in [Callers -> SUBSET Indices]
  /\ counters \in [Callers -> SUBSET Indices]

Init ==
  /\ phase = [c \in Callers |-> "none"]
  /\ wanted = [c \in Callers |-> {}]
  /\ counters = [c \in Callers |-> {}]

Ask(c) ==
  /\ phase[c] # "starting"
  /\ counters[c] = {}
  /\ phase' = [phase EXCEPT ![c] = "starting"]
  /\ \E S \in SUBSET Indices : wanted' = [wanted EXCEPT ![c] = S]
  /\ UNCHANGED counters

\* One counter more, or one less because the call is failing.
Build(c) ==
  /\ phase[c] = "starting"
  /\ \E i \in wanted[c] :
       \/ i \notin counters[c] /\ counters' = [counters EXCEPT ![c] = counters[c] \cup {i}]
       \/ i \in counters[c] /\ counters' = [counters EXCEPT ![c] = counters[c] \ {i}]
  /\ UNCHANGED <<phase, wanted>>

Grant(c) ==
  /\ phase[c] = "starting"
  /\ counters[c] = wanted[c]
  /\ phase' = [phase EXCEPT ![c] = "running"]
  /\ UNCHANGED <<wanted, counters>>

Refuse(c) ==
  /\ phase[c] = "starting"
  /\ counters[c] = {}
  /\ phase' = [phase EXCEPT ![c] = "none"]
  /\ UNCHANGED <<wanted, counters>>

Stop(c) ==
  /\ phase[c] = "running"
  /\ \E i \in counters[c] : counters' = [counters EXCEPT ![c] = counters[c] \ {i}]
  /\ UNCHANGED <<phase, wanted>>

Next == \E c \in Callers : Ask(c) \/ Build(c) \/ Grant(c) \/ Refuse(c) \/ Stop(c)

Spec == Init /\ [][Next]_sessionVars
=============================================================================
