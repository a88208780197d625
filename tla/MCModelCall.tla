------------------------------ MODULE MCModelCall ------------------------------
(* Two models, and conversations that hold every kind of turn. *)
EXTENDS ModelCall

Message(type) == [type |-> type, n |-> 1]
CONSTANTS big, small
MCTargets == {big, small}
MCConfig == big :> [retries |-> 1, callLimit |-> 2, stallLimit |-> 1, contextLimit |-> 0]
         @@ small :> [retries |-> 0, callLimit |-> 2, stallLimit |-> 0, contextLimit |-> 5]

Exchange == <<Message("call"), [type |-> "results", n |-> 2]>>
MCRequests ==
  {<<Message("user")>> \o Exchange \o <<Message("user")>>,
   <<Message("assistant")>> \o Exchange,
   Tail(Exchange) \o <<Message("user")>>}
=============================================================================
