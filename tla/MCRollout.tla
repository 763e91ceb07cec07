------------------------------ MODULE MCRollout ------------------------------
(* Instances of Rollout for TLC.                                           *)
EXTENDS Rollout

Event(class, name, version, fields, required, upgrade) ==
  [kind |-> "event", class |-> class, name |-> name, version |-> version,
   fields |-> fields, required |-> required, upgrade |-> upgrade]

Receiver(key, listens, func, lane) ==
  [kind |-> "receiver", key |-> key, listens |-> listens, func |-> func, lane |-> lane]

Old == Event("Order", "order", 1, {"id"}, {"id"}, {})
New == Event("Order", "order", 2, {"id", "currency"}, {"id", "currency"}, {"currency"})
Renamed == Event("Order", "sale", 2, {"id", "currency"}, {"id", "currency"}, {})
Other == Event("Note", "note", 1, {}, {}, {})

Mail(lane) == Receiver("mail", "Order", "send", lane)
Audit == Receiver("audit", AnyEvent, "keep", "default")

\* The second release deletes a receiver, moves the other to the default lane and
\* adds a field; the third renames the event; the fourth stacks two decorators on
\* one function, and the fifth forgets to declare the event of a receiver.
FiveReleases == <<
  <<Old, Mail("mail"), Audit, Mail("mail")>>,
  <<New, Mail("default")>>,
  <<Audit, Renamed, Mail("mail")>>,
  <<New, Other, Mail("mail"), [Mail("mail") EXCEPT !.listens = "Note"], Audit>>,
  <<Other, Mail("mail"), Audit>> >>

TwoLanes == [p \in Relays |-> IF p = "mailer" THEN "mail" ELSE "default"]
=============================================================================
