------------------------------ MODULE Startup -------------------------------
(***************************************************************************)
(* The start of the controller process, from the settings to the moment    *)
(* when the controllers run, over all environments it can find itself in.  *)
(* Of a variable it matters whether it is empty, blank (white space only), *)
(* or has text, and for a switch whether the text is a truth value.        *)
(***************************************************************************)
EXTENDS Naturals

Texts    == {"", "blank", "text"}
Switches == {"unset", "true", "false", "garbage"}

VARIABLES
    env,        \* the environment of the process
    settings,   \* the ConfigMap with the settings
    at,         \* the function that is being executed
    cfg,        \* the configuration: "built" from the environment, or Nil
    outcome     \* "starting", "running", "panic" (with a message), or "crash"

startupVars == <<env, settings, at, cfg, outcome>>

Environments ==
    [subscription: Texts, tenant: Texts, nodeResourceGroup: Texts,
     skuCache: Switches, e2e: Switches,
     federated: BOOLEAN,     \* token file and authority are both set
     identity: BOOLEAN]      \* the identity provider accepts the assertion

Nil == "nil"

StartupInit ==
    /\ env \in Environments
    /\ settings \in {"missing", "noClusterName", "good"}
    /\ at = "settings" /\ cfg = Nil /\ outcome = "starting"

Fails(how) == outcome' = how /\ at' = "ended"
Goes(next) == outcome' = "starting" /\ at' = next

-----------------------------------------------------------------------------
(* Settings: WithSettingsOrDie waits for the ConfigMap, and Inject validates it. *)

InjectSettings ==
    /\ at = "settings" /\ settings # "missing"
    /\ IF settings = "good" THEN Goes("config") ELSE Fails("panic")
    /\ UNCHANGED <<env, settings, cfg>>

UserWritesSettings ==
    /\ outcome = "starting"
    /\ settings' \in {"noClusterName", "good"} \ {settings}
    /\ UNCHANGED <<env, at, cfg, outcome>>

-----------------------------------------------------------------------------
(* BuildAzureConfig. *)

\* Variant: values are taken as they are.
TrimNothing(v) == v

TrimSpace(v) == IF v = "blank" THEN "" ELSE v

BaseVars ==
    [subscription |-> TrimSpace(env.subscription), tenant |-> TrimSpace(env.tenant),
     nodeResourceGroup |-> TrimSpace(env.nodeResourceGroup)]

\* A switch that does not parse is an error, and so is a missing value.
Valid == env.skuCache # "garbage" /\ \A k \in DOMAIN BaseVars : BaseVars[k] # ""

\* NewOperator logs the error of GetAzConfig and goes on, with a nil configuration.
BuildAzureConfig ==
    /\ at = "config"
    /\ cfg' = IF Valid THEN "built" ELSE Nil
    /\ Goes("authorizer")
    /\ UNCHANGED <<env, settings>>

-----------------------------------------------------------------------------
(* CreateAzClient.  Its errors end in the panic of NewOperator. *)

\* NewAuthorizer looks at the environment, then at the tenant, then gets a token.
NewAuthorizer ==
    /\ at = "authorizer"
    /\ CASE ~env.federated -> Fails("panic")
         [] env.federated /\ cfg = Nil -> Fails("crash")
         [] env.federated /\ cfg # Nil -> IF env.identity THEN Goes("credential") ELSE Fails("panic")
    /\ UNCHANGED <<env, settings, cfg>>

\* WithDefaultBool: garbage is the default, false.
IsE2E == env.e2e = "true"

\* Variant: the key is parsed before it is used.
NewCredentialWithKey ==
    /\ at = "credential" /\ Goes("clients")
    /\ UNCHANGED <<env, settings, cfg>>

\* In E2E mode the key of the certificate is given to MSAL as PEM text, which only
\* takes an RSA key: an error, whatever the key vault has.
NewCredential ==
    /\ at = "credential"
    /\ IF IsE2E THEN Fails("panic") ELSE Goes("clients")
    /\ UNCHANGED <<env, settings, cfg>>

\* setArmClientOptions writes to a clone of a nil map.
NewClients ==
    /\ at = "clients"
    /\ IF IsE2E THEN Fails("crash") ELSE Fails("running")
    /\ UNCHANGED <<env, settings, cfg>>

StartupNext ==
    \/ InjectSettings \/ UserWritesSettings \/ BuildAzureConfig
    \/ NewAuthorizer \/ NewCredential \/ NewClients

StartupSpec == StartupInit /\ [][StartupNext]_startupVars

-----------------------------------------------------------------------------
(* What must hold. *)

\* Controllers run only with a subscription, a tenant and a node resource group that
\* are more than white space, a switch that could be parsed, and an identity: none of
\* the errors that are only logged on the way gets lost.
RunningIsConfigured ==
    outcome = "running" =>
        /\ {env.subscription, env.tenant, env.nodeResourceGroup} = {"text"}
        /\ env.skuCache # "garbage" /\ cfg # Nil
        /\ env.federated /\ env.identity

\* The process crashes without its message for no other reason than a missing
\* configuration.
CrashIsConfiguration == outcome = "crash" => cfg = Nil
=============================================================================
