----------------------------- MODULE MC_Effects -----------------------------
(***************************************************************************)
(* What runs once however often its owner dies: Central's jobs and a       *)
(* Node's app, one per behaviour.  They share nothing but the question.    *)
(***************************************************************************)
EXTENDS JobExecution, AppBroker

VARIABLE part  \* the part that moves, chosen at the start

effectVars == <<part, jobVars, brokerVars>>

EffectsInit ==
  /\ part \in {"jobs", "app"}
  /\ JobInit /\ BrokerInit
  /\ part = "app" => ~exclusive

EffectsNext ==
  /\ \/ part = "jobs" /\ JobNext    /\ UNCHANGED brokerVars
     \/ part = "app"  /\ BrokerNext /\ UNCHANGED jobVars
  /\ UNCHANGED part

\* Each part's own fairness (JobFairness, BrokerFairness), where that part moves.
EffectsFairness ==
  /\ WF_jobVars(part = "jobs" /\ JobGoesOn)
  /\ WF_brokerVars(part = "app" /\ WorldStep)
  /\ WF_brokerVars(part = "app" /\ BrokerStep)

EffectsSpec == EffectsInit /\ [][EffectsNext]_effectVars /\ EffectsFairness

-----------------------------------------------------------------------------
(* Properties *)

\* Both parts' variables stay in their types.
EffectsTypeOK == JobTypeOK /\ AppTypeOK
==============================================================================
