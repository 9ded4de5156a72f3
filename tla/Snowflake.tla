----------------------------- MODULE Snowflake -----------------------------
(***************************************************************************)
(* The ids of im-server: the millisecond, the number of the node and a     *)
(* step within the millisecond, drawn under a mutex in every api process.  *)
(* An id is modelled as the triple that its 63 bits are put together from. *)
(***************************************************************************)
EXTENDS Integers

CONSTANTS
  Processes,  \* api processes
  NodeID,     \* what ParseNodeID makes of the NODE_ID of a process
  MaxNodes,   \* node numbers are taken modulo this: 2^10
  Steps,      \* ids of a node in a millisecond: 2^12
  MaxClock, MaxBack \* bounds of an instance

ASSUME SnowflakeAssumption ==
  /\ NodeID \in [Processes -> Nat] /\ MaxNodes \in Nat \ {0} /\ Steps \in Nat \ {0}
  /\ MaxClock \in Nat \ {0} /\ MaxBack \in Nat

VARIABLES
  clock,    \* milliseconds since 2024
  last,     \* lastStamp
  step,
  waits,    \* processes that wait for the next millisecond with the mutex held
  issued,   \* ids given out
  back,     \* how often the clock went back
  repeated  \* has an id been given out twice (history)?

sfvars == <<clock, last, step, waits, issued, back, repeated>>

Node(p) == NodeID[p] % MaxNodes

SnowflakeInit ==
  /\ clock = 1 /\ back = 0
  /\ last = [p \in Processes |-> 0] /\ step = [p \in Processes |-> 0]
  /\ waits = {} /\ issued = {} /\ repeated = FALSE

Issue(p, stamp, s) ==
  LET id == <<stamp, Node(p), s>> IN
  /\ last' = [last EXCEPT ![p] = stamp] /\ step' = [step EXCEPT ![p] = s]
  /\ issued' = issued \cup {id}
  /\ repeated' = (repeated \/ id \in issued)
  /\ UNCHANGED <<clock, back>>

NextStep(p) == IF clock = last[p] THEN (step[p] + 1) % Steps ELSE 0

\* Fault: the steps of a millisecond start again when they are used up.
UsedUpNever(p) == FALSE

UsedUp(p) == clock = last[p] /\ NextStep(p) = 0

NextID(p) ==
  /\ p \notin waits
  /\ IF UsedUp(p) THEN waits' = waits \cup {p} /\ UNCHANGED <<clock, last, step, issued, back, repeated>>
     ELSE Issue(p, clock, NextStep(p)) /\ UNCHANGED waits

\* The loop ends when the clock has passed the last stamp.
Resume(p) ==
  /\ p \in waits /\ clock > last[p]
  /\ Issue(p, clock, 0) /\ waits' = waits \ {p}

\* Starting a process takes longer than a millisecond.
Restart(p) ==
  /\ clock > last[p]
  /\ last' = [last EXCEPT ![p] = 0] /\ step' = [step EXCEPT ![p] = 0]
  /\ waits' = waits \ {p}
  /\ UNCHANGED <<clock, issued, back, repeated>>

ClockTicks ==
  /\ clock < MaxClock /\ clock' = clock + 1
  /\ UNCHANGED <<last, step, waits, issued, back, repeated>>

ClockGoesBack ==
  /\ clock > 1 /\ back < MaxBack /\ back' = back + 1 /\ clock' = clock - 1
  /\ UNCHANGED <<last, step, waits, issued, repeated>>

SnowflakeNext ==
  \/ \E p \in Processes : NextID(p) \/ Resume(p) \/ Restart(p)
  \/ ClockTicks \/ ClockGoesBack

SnowflakeSpec == SnowflakeInit /\ [][SnowflakeNext]_sfvars

-----------------------------------------------------------------------------
OwnNumbers == \A p, q \in Processes : Node(p) = Node(q) => p = q

\* No id is given out twice, whatever process asks when, however many ids a
\* millisecond needs and also after a restart, as long as no two processes
\* have one node number and the clock does not go back.  The comment at
\* snowflake.go:20 promises it without these conditions: Next does not compare
\* the clock with the last stamp but for equality (line 57), so that a clock
\* that has gone back runs through its milliseconds again.
IdsUnique == OwnNumbers /\ back = 0 => ~repeated
=============================================================================
