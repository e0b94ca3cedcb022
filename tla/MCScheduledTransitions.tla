----------------------- MODULE MCScheduledTransitions -----------------------
(***************************************************************************)
(* Instance for TLC: wait --timer--> late --timer--> done, late --auto-->  *)
(* done, and the manual transitions wait -> done and done -> wait.         *)
(***************************************************************************)
EXTENDS ScheduledTransitions, TLC

MCState == {"wait", "late", "done"}
MCFires == ("wait" :> "late") @@ ("late" :> "done")
MCAuto == "late" :> "done"
MCSetup == {<<"memory", "plain", FALSE, {1}, 1>>,
            <<"memory", "noTx", TRUE, {1}, 1>>,
            <<"sqlite", "newTx", TRUE, {1}, 1>>,
            <<"postgres", "plain", FALSE, {1}, 1>>,
            <<"postgres", "noTx", TRUE, {1, 2}, 1>>}
MCMove == {<<"wait", "done">>, <<"done", "wait">>}
=============================================================================
