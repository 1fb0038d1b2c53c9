---------------------------- MODULE CommandState ----------------------------
(***************************************************************************)
(* The status machine of a money-moving command row (shared/state).  The   *)
(* transfer and the transaction service store one of these statuses on     *)
(* every row and change it with UPDATE ... WHERE status = <from>.          *)
(***************************************************************************)

Statuses == {"pending", "processing", "success", "failed",
             "compensating", "compensated", "unknown"}

AllowedTransitions ==
  {<<"pending", "processing">>,      <<"pending", "failed">>,
   <<"processing", "success">>,      <<"processing", "compensating">>,
   <<"processing", "failed">>,       <<"processing", "unknown">>,
   <<"compensating", "compensated">>, <<"compensating", "unknown">>,
   <<"unknown", "compensating">>,    <<"unknown", "compensated">>}

CanTransition(from, to) == <<from, to>> \in AllowedTransitions

IsTerminal(s) == s \in {"success", "failed", "compensated"}

IsRecoverable(s) == s \in {"processing", "compensating", "unknown"}
=============================================================================
