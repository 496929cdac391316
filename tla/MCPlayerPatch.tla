--------------------------- MODULE MCPlayerPatch ---------------------------
(***************************************************************************)
(* A player with one label and one fault rule, and the kinds of writes:    *)
(* PATCH of the label, POST of the rule (PATCH of the whole rule list has  *)
(* the same path and, with one rule, the same effect), and PATCH and       *)
(* DELETE of the rule by its id.                                           *)
(***************************************************************************)
EXTENDS PlayerPatch, TLC

CONSTANTS Label, Rule

Labels == <<"labels">>
FaultRules == <<"fault_rules">>
RulePath == <<"fault_rules", "r">>

MCPaths == {Labels, FaultRules, RulePath}

Write(p, leaf, there, must) ==
    [paths |-> {p}, to |-> leaf :> there, mustExist |-> must]

SetLabel == Write(Labels, Label, TRUE, FALSE)
AddRule == Write(FaultRules, Rule, TRUE, FALSE)
EditRule == Write(RulePath, Rule, TRUE, TRUE)
DropRule == Write(RulePath, Rule, FALSE, TRUE)

MCRequests == {SetLabel, AddRule, EditRule, DropRule}
============================================================================
