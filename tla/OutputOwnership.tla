--------------------------- MODULE OutputOwnership ---------------------------
(***************************************************************************)
(* What the output service promises about one output, whoever the threads  *)
(* are and however their steps interleave: a controller owns the output    *)
(* automatically only when it was installed there, or after a write made   *)
(* during its current takeover reached the device.  A registration still   *)
(* automatic may be undone; otherwise ownership is given up only while the *)
(* output is manual.                                                       *)
(*                                                                         *)
(* OutputControl implements this specification.                            *)
(***************************************************************************)
CONSTANT Targets

VARIABLES
  owner,  \* the mode of each output
  earned  \* a write of the current takeover succeeded on the device

ownershipVars == <<owner, earned>>

OwnerMode == {"unregistered", "manual", "pending", "automatic"}

OwnershipInit ==
  /\ owner = [t \in Targets |-> "unregistered"]
  /\ earned = [t \in Targets |-> FALSE]

\* The output moves from one of the modes "from" to "to"; only a takeover in
\* progress has anything earned.
Move(t, from, to) ==
  /\ owner[t] \in from
  /\ owner' = [owner EXCEPT ![t] = to]
  /\ earned' = [earned EXCEPT ![t] = FALSE]

Register(t)    == Move(t, {"unregistered"}, "automatic")
Unregister(t)  == Move(t, {"automatic"}, "unregistered")
Override(t)    == Move(t, {"automatic", "pending"}, "manual")
TakeOver(t)    == Move(t, {"manual"}, "pending")
Release(t)     == Move(t, {"manual"}, "unregistered")
Confirm(t)     == earned[t] /\ Move(t, {"pending"}, "automatic")

Earn(t) ==
  /\ owner[t] = "pending"
  /\ earned' = [earned EXCEPT ![t] = TRUE]
  /\ UNCHANGED owner

OwnershipNext ==
  \E t \in Targets :
    Register(t) \/ Unregister(t) \/ Override(t) \/ TakeOver(t) \/ Release(t)
      \/ Confirm(t) \/ Earn(t)

OwnershipSpec == OwnershipInit /\ [][OwnershipNext]_ownershipVars

\* An earned takeover is confirmed, unless someone overrides it first.
OwnershipFairSpec ==
  OwnershipSpec /\ \A t \in Targets : WF_ownershipVars(Confirm(t))
==============================================================================
