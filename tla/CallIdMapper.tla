---------------------------- MODULE CallIdMapper ----------------------------
(***************************************************************************)
(* src/call_id_mapper.rs: the table from the provider's id of a tool call  *)
(* to the opaque handle the worker shows outside.  It is shared by the     *)
(* agent task, which calls start_approval inside approve(), and by the     *)
(* coordinator, which calls start_event, finish and clear; every method is *)
(* one critical section of the mutex `active', hence one step here.        *)
(*                                                                         *)
(* A handle is a random UUID.  The model draws handles from a counter: all *)
(* the code needs of a UUID is that it was never drawn before.             *)
(***************************************************************************)
EXTENDS Naturals

CONSTANT ProviderIds      \* ids a provider may give to a tool call

VARIABLES
  callIds,                \* HashMap provider id -> handle; NoHandle = no entry
  minted                  \* the handles drawn so far are 1..minted

mapperVars == <<callIds, minted>>

NoHandle == 0
NewHandle == minted + 1

MapperInit ==
  /\ callIds = [p \in ProviderIds |-> NoHandle]
  /\ minted = 0

MapperTypeOK ==
  /\ callIds \in [ProviderIds -> Nat]
  /\ minted \in Nat

\* start_approval always draws a handle and overwrites an older entry.
StartApproval(p) ==
  /\ callIds' = [callIds EXCEPT ![p] = NewHandle]
  /\ minted' = NewHandle

\* The handle start_event and finish return: the entry, or else a new handle.
HandleFor(p) == IF callIds[p] = NoHandle THEN NewHandle ELSE callIds[p]

StartEvent(p) ==
  /\ callIds' = [callIds EXCEPT ![p] = HandleFor(p)]
  /\ minted' = IF callIds[p] = NoHandle THEN NewHandle ELSE minted

Finish(p) ==
  /\ callIds' = [callIds EXCEPT ![p] = NoHandle]
  /\ minted' = IF callIds[p] = NoHandle THEN NewHandle ELSE minted

\* Fault: the table is not emptied.
KeepCallIds == UNCHANGED mapperVars

ClearCallIds ==
  /\ callIds' = [p \in ProviderIds |-> NoHandle]
  /\ UNCHANGED minted
=============================================================================
