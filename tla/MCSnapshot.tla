------------------------------ MODULE MCSnapshot ------------------------------
(* Rows for model checking Snapshot: two identification stages, which embed a  *)
(* password stage, one another, themselves or nothing, a prompt stage, and      *)
(* flows that use a stage twice.                                                *)
EXTENDS Snapshot

CONSTANTS identification, second, password, prompt, policy1, policy2, field

Row(embedded, prompts) == [password |-> embedded, prompts |-> prompts]
Entry(policies, stage) == [policies |-> policies, stage |-> stage]

MCStages == {identification, second, password, prompt}
MCStageRows ==
  [s \in MCStages |->
     CASE s = identification ->
            {Row(p, <<>>) : p \in {identification, second, password, NoStage}}
       [] s = second -> {Row(p, <<>>) : p \in {identification, password}}
       [] s = prompt -> {Row(NoStage, <<>>), Row(NoStage, <<field>>)}
       [] OTHER -> {Row(NoStage, <<>>)}]
MCFlowRows ==
  {[policies |-> <<>>, entries |-> <<>>],
   [policies |-> <<policy1>>,
    entries |-> <<Entry(<<>>, identification), Entry(<<policy2>>, prompt)>>],
   [policies |-> <<>>,
    entries |-> <<Entry(<<>>, identification), Entry(<<policy1>>, password),
                  Entry(<<>>, second)>>]}
=============================================================================
