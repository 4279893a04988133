-------------------------- MODULE MCPanelServices --------------------------
(***************************************************************************)
(* Five parts of the panel's process that share no variable with each      *)
(* other: login failures, rate windows, deletion challenges, payment       *)
(* reminders and traffic accounting.  What one of them can do does not     *)
(* depend on the others, so each is explored on its own: focus says which  *)
(* one moves in this behaviour, and the others keep their initial state.   *)
(***************************************************************************)
EXTENDS LoginFailures, WindowLimits, DeletionChallenges, PaymentReminders, TrafficAccounting

VARIABLE focus

Services == {"login", "window", "challenges", "payments", "traffic"}

vars == <<focus, loginVars, windowVars, challengeVars, paymentVars, trafficVars>>

Init ==
    /\ focus \in Services
    /\ LoginInit /\ WindowInit /\ ChallengesInit /\ PaymentInit /\ TrafficInit

Login      == LoginNext      /\ UNCHANGED <<windowVars, challengeVars, paymentVars, trafficVars>>
Windows    == WindowNext     /\ UNCHANGED <<loginVars, challengeVars, paymentVars, trafficVars>>
Challenges == ChallengesNext /\ UNCHANGED <<loginVars, windowVars, paymentVars, trafficVars>>
Payments   == PaymentNext    /\ UNCHANGED <<loginVars, windowVars, challengeVars, trafficVars>>
Traffic    == TrafficNext    /\ UNCHANGED <<loginVars, windowVars, challengeVars, paymentVars>>

Next ==
    /\ UNCHANGED focus
    /\ \/ focus = "login" /\ Login
       \/ focus = "window" /\ Windows
       \/ focus = "challenges" /\ Challenges
       \/ focus = "payments" /\ Payments
       \/ focus = "traffic" /\ Traffic

\* The payment loop runs again after every sleep, a run goes on, and a message
\* that is tried again and again is acknowledged in the end.
Fairness ==
    /\ WF_paymentVars(StartRun \/ \E u \in Payers : RunOf(u))
    /\ \A u \in Payers : SF_paymentVars(\E part \in Parts : Acknowledged(u, part))

Spec == Init /\ [][Next]_vars /\ Fairness

\* Every part of the process keeps its type.
TypeOK == LoginTypeOK /\ WindowTypeOK /\ ChallengesTypeOK /\ PaymentTypeOK /\ TrafficTypeOK

\* An administrator's session and the owner's: both may manage every profile.
MayManage == Sessions \X Profiles
=============================================================================
