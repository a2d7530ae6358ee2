---------------------------- MODULE AccountStates ----------------------------
(***************************************************************************)
(* The life of an account as its owner sees it.  An account is registered, *)
(* waits for its identity to be verified, is enabled, may be disabled and  *)
(* enabled again any number of times, and is removed for good.  What may   *)
(* never happen is a step back: an account that was enabled once is never  *)
(* "pending" again, and a removed account never returns.                   *)
(***************************************************************************)
CONSTANT Account    \* all accounts that may ever be registered

VARIABLE status     \* status[a]: where account a is in its life

Status == {"unborn", "pending", "enabled", "disabled", "gone"}

Init == status = [a \in Account |-> "unborn"]

Move(a, from, to) ==
  /\ status[a] \in from
  /\ status' = [status EXCEPT ![a] = to]

Register(a) == Move(a, {"unborn"}, "pending") \/ Move(a, {"unborn"}, "enabled")

Enable(a) == Move(a, {"pending", "disabled"}, "enabled")

Disable(a) == Move(a, {"enabled"}, "disabled")

Remove(a) == Move(a, {"pending", "enabled", "disabled"}, "gone")

Next == \E a \in Account : Register(a) \/ Enable(a) \/ Disable(a) \/ Remove(a)

Spec == Init /\ [][Next]_status
=============================================================================
