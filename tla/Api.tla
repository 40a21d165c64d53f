------------------------------------ MODULE Api ------------------------------------
(***************************************************************************)
(* What people and jobs ask of the service beside the payment workflow:       *)
(* accounts and contracts, turns of the assistant, the analysis of their      *)
(* finances, the pages of the reports, and the limiter in front of the open   *)
(* endpoints.                                                              *)
(*                                                                         *)
(* They share what is remembered (AssistantTurn and ProactiveAnalysis) and    *)
(* the payments (ProactiveAnalysis and ReportPages), and they never write     *)
(* the same row: a turn remembers what a user said, the job what it computed; *)
(* the payments are changed by neither. The users are there before any other  *)
(* scene begins; what the scene of the accounts does to contracts, the book    *)
(* of the analyses shows as contracts that are created. So a behaviour shows   *)
(* one scene, whose requests and jobs run side by side; the product of scenes  *)
(* shows no more.                                                             *)
(***************************************************************************)
EXTENDS Accounts, AssistantTurn, ProactiveAnalysis, ReportPages, RateLimit

Scenes == {"account", "talk", "analyse", "advise", "list", "limit"}

CONSTANT AnalysedTables   \* bound: the tables an analysis begins with

VARIABLE scene   \* bound: what a behaviour shows

apiVars == <<scene, accountsVars, memoryVars, turnVars, bookVars, analysisVars, pageVars,
             limiterVars>>

ApiInit ==
  /\ scene \in Scenes
  /\ AccountsInit /\ MemoryInit /\ TurnInit /\ BookInit /\ AnalysisInit /\ PagesInit /\ LimiterInit
  \* The others never look at the payments.
  /\ scene \in {"account", "talk", "limit"} => payment = CHOOSE b \in Tables : TRUE
  /\ scene \in {"analyse", "advise"} => payment \in AnalysedTables

CallAccounts ==
  /\ scene = "account" /\ AccountsNext
  /\ UNCHANGED <<memoryVars, turnVars, bookVars, analysisVars, pageVars, limiterVars>>

Talk ==
  /\ scene = "talk" /\ TurnNext
  /\ UNCHANGED <<accountsVars, bookVars, analysisVars, pageVars, limiterVars>>

Analyse ==
  /\ \/ scene = "analyse" /\ JobsNext
     \/ scene = "advise" /\ AdviceNext
  /\ UNCHANGED <<accountsVars, turnVars, pageVars, limiterVars>>

ListPayments ==
  /\ scene = "list" /\ PagesNext
  /\ UNCHANGED <<accountsVars, memoryVars, turnVars, analysisVars, limiterVars>>

LimitRequests ==
  /\ scene = "limit" /\ LimiterNext
  /\ UNCHANGED <<accountsVars, memoryVars, turnVars, bookVars, analysisVars, pageVars>>

ApiNext == UNCHANGED scene /\ (CallAccounts \/ Talk \/ Analyse \/ ListPayments \/ LimitRequests)

ApiSpec == ApiInit /\ [][ApiNext]_apiVars

=============================================================================
