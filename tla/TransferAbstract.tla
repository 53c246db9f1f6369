-------------------------- MODULE TransferAbstract --------------------------
(***************************************************************************)
(* What a block-relocation transfer promises (spec 4.7, P8), without the  *)
(* tree walk, the phase barrier or the I/O: the transfer accounts for the  *)
(* entries of the version's tree one at a time.  An entry whose block is  *)
(* already on the destination set is counted; any other entry is moved,   *)
(* once; either adds one to progress.  A running transfer may stop (it is *)
(* cancelled), after which moves already under way may still finish, and  *)
(* it is done only once every entry has been accounted for.                *)
(***************************************************************************)
EXTENDS Naturals, FiniteSets

CONSTANT Entries   \* the entries of the tree the transfer walks

VARIABLES
  onDest,    \* entry -> its block is already on the destination set
  st,        \* "idle", "walking", "stopped" or "done"
  counted,   \* entries found in place and counted
  moved,     \* entries moved to the destination set
  progress   \* the transfer's progress counter

avars == <<onDest, st, counted, moved, progress>>

Accounted == counted \cup moved

Init ==
  /\ onDest \in [Entries -> BOOLEAN]
  /\ st = "idle"
  /\ counted = {} /\ moved = {} /\ progress = 0

\* The transfer starts its walk.
Begin ==
  /\ st = "idle" /\ st' = "walking"
  /\ UNCHANGED <<onDest, counted, moved, progress>>

\* An entry found in place is counted, once.
Count(e) ==
  /\ st = "walking" /\ onDest[e] /\ e \notin counted
  /\ counted' = counted \cup {e} /\ progress' = progress + 1
  /\ UNCHANGED <<onDest, st, moved>>

\* An entry not in place is moved, once; a move may finish after a stop,
\* and the move of the last entry may complete the transfer.
Move(e) ==
  /\ st \in {"walking", "stopped"} /\ ~onDest[e] /\ e \notin moved
  /\ moved' = moved \cup {e} /\ progress' = progress + 1
  /\ \/ st' = st
     \/ st = "walking" /\ counted \cup moved' = Entries /\ st' = "done"
  /\ UNCHANGED <<onDest, counted>>

\* The transfer completes once every entry is accounted for.
Finish ==
  /\ st = "walking" /\ Accounted = Entries /\ st' = "done"
  /\ UNCHANGED <<onDest, counted, moved, progress>>

\* The transfer is cancelled.
Stop ==
  /\ st = "walking" /\ st' = "stopped"
  /\ UNCHANGED <<onDest, counted, moved, progress>>

Next ==
  \/ Begin
  \/ \E e \in Entries : Count(e) \/ Move(e)
  \/ Finish
  \/ Stop

Spec == Init /\ [][Next]_avars

=============================================================================
