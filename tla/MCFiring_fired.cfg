\* Two events, at any place of up to two open blocks, receivers and callbacks.
SPECIFICATION Spec
CONSTANTS
  order = order  note = note  Attempt = Attempt  Notify = Notify
  Classes = {order, note}  Receivers = {1, 2, 3, 4}  Eager = {2}
  ClassOf <- ThreeAndOne  ModeOf <- Modes4  Blocks <- MarkingOrDiscarding
  Actors = {"user"}  KeyFor <- OfTheUser  Users = {"user"}  Calls <- RequestAndJob
  MaxEvents = 2  MaxOpen = 2
INVARIANTS IInv OwedIffCommitted HooksFollowTheCommit EachHookOnce ContextFollowsTheStack CausesStand SameChain
