---------------------------- MODULE StartupProofs ---------------------------
(***************************************************************************)
(* Proofs about the start of the process.                                  *)
(***************************************************************************)
EXTENDS Startup, TLAPS

\* What the steps that are behind have established.  Users change the settings, so
\* nothing is remembered of those.
StartupInv ==
    /\ env \in Environments
    /\ at \in {"settings", "config", "authorizer", "credential", "clients", "ended"}
    /\ at # "ended" => outcome = "starting"
    /\ at \in {"credential", "clients"} => cfg # Nil /\ env.federated /\ env.identity
    /\ at = "clients" => ~IsE2E
    /\ cfg # Nil => Valid
    /\ RunningIsConfigured
    /\ CrashIsConfiguration

\* A value that is not empty after TrimSpace has text.
LEMMA TrimmedIsText ==
    ASSUME NEW v \in Texts, TrimSpace(v) # ""
    PROVE  v = "text"
  BY DEF Texts, TrimSpace

\* A valid environment has text for all three values.
LEMMA ValidIsText ==
    ASSUME env \in Environments, Valid
    PROVE  /\ env.subscription = "text" /\ env.tenant = "text" /\ env.nodeResourceGroup = "text"
           /\ env.skuCache # "garbage"
  <1>1. env.subscription \in Texts /\ env.tenant \in Texts /\ env.nodeResourceGroup \in Texts
    BY DEF Environments
  <1>2. /\ TrimSpace(env.subscription) # "" /\ TrimSpace(env.tenant) # ""
        /\ TrimSpace(env.nodeResourceGroup) # ""
    BY DEF Valid, BaseVars
  <1> QED BY <1>1, <1>2, TrimmedIsText DEF Valid

\* Every step of the start preserves StartupInv.
LEMMA StartupStep ==
    StartupInv /\ [StartupNext]_startupVars => StartupInv'
  <1> SUFFICES ASSUME StartupInv, [StartupNext]_startupVars PROVE StartupInv'
    OBVIOUS
  <1> USE DEF StartupInv, RunningIsConfigured, CrashIsConfiguration
  <1>1. CASE InjectSettings
    BY <1>1 DEF InjectSettings, Goes, Fails, Valid, BaseVars, IsE2E
  <1>2. CASE UserWritesSettings
    BY <1>2 DEF UserWritesSettings, Valid, BaseVars, IsE2E
  <1>3. CASE BuildAzureConfig
    <2>1. env' = env /\ at' = "authorizer" /\ outcome' = "starting"
      BY <1>3 DEF BuildAzureConfig, Goes
    <2>2. (cfg' # Nil => Valid) /\ (Valid' <=> Valid)
      BY <1>3, <2>1 DEF BuildAzureConfig, Valid, BaseVars
    <2> QED BY <2>1, <2>2
  <1>4. CASE NewAuthorizer
    BY <1>4 DEF NewAuthorizer, Goes, Fails, Valid, BaseVars, IsE2E
  <1>5. CASE NewCredential
    BY <1>5 DEF NewCredential, Goes, Fails, Valid, BaseVars, IsE2E
  <1>6. CASE NewClients
    \* The crash of the clients is out of reach, as E2E mode has ended before.
    <2>1. /\ env' = env /\ cfg' = cfg /\ at' = "ended" /\ outcome' = "running"
          /\ cfg # Nil /\ env.federated /\ env.identity /\ Valid
      BY <1>6 DEF NewClients, Fails
    <2>2. Valid'
      BY <2>1 DEF Valid, BaseVars
    <2> QED BY <2>1, <2>2, ValidIsText
  <1>7. CASE UNCHANGED startupVars
    BY <1>7 DEF startupVars, Valid, BaseVars, IsE2E
  <1> QED BY <1>1, <1>2, <1>3, <1>4, <1>5, <1>6, <1>7 DEF StartupNext

\* StartupInv is an invariant.
LEMMA StartupInvariance == StartupSpec => []StartupInv
  <1>1. StartupInit => StartupInv
    BY DEF StartupInit, StartupInv, RunningIsConfigured, CrashIsConfiguration
  <1> QED BY <1>1, StartupStep, PTL DEF StartupSpec

\* Controllers run only in a configured process: the error of BuildAzureConfig, which
\* NewOperator only logs, does not get lost on the way to them.
THEOREM RunningNeedsConfiguration == StartupSpec => []RunningIsConfigured
  <1>1. StartupInv => RunningIsConfigured
    BY DEF StartupInv
  <1> QED BY <1>1, StartupInvariance, PTL

\* Without a missing configuration the start ends with the controllers or a message:
\* NewClients, which would crash in E2E mode, is not reached in it.
THEOREM OnlyConfigurationCrashes == StartupSpec => []CrashIsConfiguration
  <1>1. StartupInv => CrashIsConfiguration
    BY DEF StartupInv
  <1> QED BY <1>1, StartupInvariance, PTL
=============================================================================
