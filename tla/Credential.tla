---------------------------- MODULE Credential ------------------------------
(***************************************************************************)
(* How requests to Azure get their bearer token.  The pipeline of the      *)
(* agent pool client keeps one token for all its callers and renews it     *)
(* through GetToken, which exchanges the service account token that is     *)
(* mounted as a file.  The credential keeps the contents of that file for  *)
(* five minutes, in two fields that no lock protects.                      *)
(*                                                                         *)
(* A service account token is known by the time of its issue, an access    *)
(* token by the time it expires; 0 is the zero time and the missing token. *)
(***************************************************************************)
EXTENDS Naturals

CONSTANTS
    Callers,     \* goroutines that send requests
    Reread,      \* age at which the assertion is still used (5 minutes)
    Window,      \* an access token is renewed this long before its end (5 minutes)
    Backoff,     \* least time between two early renewals (30 seconds)
    TokenLife,   \* life of an access token
    FileLife,    \* life of a service account token
    Rotate,      \* age at which the kubelet has replaced the file
    Prompt,      \* no time passes between the end of GetToken and the lock in Get
    Start,       \* time at which the program starts
    Horizon      \* bound on the clock

ASSUME TimesAssumption ==
    /\ {Reread, Window, Backoff, TokenLife, FileLife, Rotate, Start, Horizon} \subseteq Nat
    /\ Prompt \in BOOLEAN
    /\ Start > Reread /\ Start > Backoff /\ Start > Rotate
\* Azure's access tokens live longer than the window.
ASSUME LifeAssumption == TokenLife > Window
\* A service account token outlives its replacement by more than the re-read age.
ASSUME RotationAssumption == Rotate + Reread < FileLife

VARIABLES
    now,
    file,         \* the service account token in the file
    assertion,    \* ClientAssertionCredential.assertion
    lastRead,     \* ClientAssertionCredential.lastRead
    acquiring,    \* the fields of temporal.Resource
    resource,
    expiration,
    lastAttempt,
    call          \* the calls of Get, by caller

credFields == <<assertion, lastRead>>
resFields  == <<acquiring, resource, expiration, lastAttempt>>
credVars   == <<now, file, credFields, resFields, call>>

Times == Nat

Calls == [at: {"idle", "lock", "wait", "again", "read", "exchange", "finish", "returned"},
          now: Times,          \* time.Now() of the call
          token: Times,        \* what is to be returned
          expired: BOOLEAN,    \* there was no token to go on with
          jwt: Times,          \* the assertion that is exchanged, and when it was
          readAt: Times,       \*   taken from the credential
          ok: BOOLEAN]         \* no error

NoCall == [at |-> "idle", now |-> 0, token |-> 0, expired |-> FALSE,
           jwt |-> 0, readAt |-> 0, ok |-> FALSE]

\* Get has returned: its other variables are gone.
Returned(k, token, ok) ==
    [NoCall EXCEPT !.at = "returned", !.now = k.now, !.token = token, !.ok = ok]

CredTypeOK ==
    /\ {now, file, assertion, lastRead, resource, expiration, lastAttempt} \subseteq Times
    /\ acquiring \in BOOLEAN
    /\ call \in [Callers -> Calls]

CredInit ==
    /\ now = Start /\ file \in (Start - Rotate)..Start
    /\ assertion = 0 /\ lastRead = 0
    /\ acquiring = FALSE /\ resource = 0 /\ expiration = 0 /\ lastAttempt = 0
    /\ call = [c \in Callers |-> NoCall]

-----------------------------------------------------------------------------
(* Get of temporal.Resource. *)

BeginGet(c) ==
    /\ call[c].at \in {"idle", "returned"}
    /\ call' = [call EXCEPT ![c] = [NoCall EXCEPT !.at = "lock", !.now = now]]
    /\ UNCHANGED <<now, file, credFields, resFields>>

Looks(c)     == call[c].at \in {"lock", "again"}
Expired(c)   == expiration = 0 \/ expiration < call[c].now
Expiring(c)  == expiration < call[c].now + Window
MayRetry(c)  == lastAttempt + Backoff < call[c].now

\* The value of the local variable resource: read when the lock is taken first.
Held(c) == IF call[c].at = "lock" THEN resource ELSE call[c].token

\* Variant: the flag is not looked at.
AcquireAnyway(c) ==
    /\ Looks(c)
    /\ Expired(c) \/ (Expiring(c) /\ MayRetry(c))
    /\ acquiring' = TRUE /\ lastAttempt' = call[c].now
    /\ call' = [call EXCEPT ![c].at = "read", ![c].expired = Expired(c), ![c].token = Held(c)]
    /\ UNCHANGED <<now, file, credFields, resource, expiration>>

\* This caller renews the token.
Acquire(c) ==
    /\ Looks(c) /\ ~acquiring
    /\ Expired(c) \/ (Expiring(c) /\ MayRetry(c))
    /\ acquiring' = TRUE /\ lastAttempt' = call[c].now
    /\ call' = [call EXCEPT ![c].at = "read", ![c].expired = Expired(c), ![c].token = Held(c)]
    /\ UNCHANGED <<now, file, credFields, resource, expiration>>

\* Another caller renews it, and there is none to go on with.
WaitForToken(c) ==
    /\ Looks(c) /\ acquiring /\ Expired(c)
    /\ call' = [call EXCEPT ![c].at = "wait", ![c].token = Held(c)]
    /\ UNCHANGED <<now, file, credFields, resFields>>

\* The token is good enough, or another caller renews it before its end.
UseToken(c) ==
    /\ Looks(c) /\ ~Expired(c)
    /\ ~Expiring(c) \/ acquiring \/ ~MayRetry(c)
    /\ call' = [call EXCEPT ![c] = Returned(@, resource, TRUE)]
    /\ UNCHANGED <<now, file, credFields, resFields>>

-----------------------------------------------------------------------------
(* GetToken of ClientAssertionCredential. *)

TakesJWT(c, jwt) ==
    call' = [call EXCEPT ![c].at = "exchange", ![c].jwt = jwt, ![c].readAt = now]

\* Variant: the file is read once.
KeepAssertionForEver(c) ==
    /\ call[c].at = "read" /\ lastRead # 0
    /\ TakesJWT(c, assertion)
    /\ UNCHANGED <<now, file, credFields, resFields>>

\* readJWTFromFS returns what it has ...
KeepAssertion(c) ==
    /\ call[c].at = "read" /\ ~(lastRead + Reread < now)
    /\ TakesJWT(c, assertion)
    /\ UNCHANGED <<now, file, credFields, resFields>>

\* ... or reads the file, ...
ReadFile(c) ==
    /\ call[c].at = "read" /\ lastRead + Reread < now
    /\ assertion' = file /\ lastRead' = now
    /\ TakesJWT(c, file)
    /\ UNCHANGED <<now, file, resFields>>

\* ... which may fail; and so may the exchange.
GetTokenFails(c) ==
    /\ \/ call[c].at = "read" /\ lastRead + Reread < now
       \/ call[c].at = "exchange"
    /\ call' = [call EXCEPT ![c].at = "finish", ![c].jwt = 0, ![c].readAt = 0]
    /\ UNCHANGED <<now, file, credFields, resFields>>

\* The identity provider takes a service account token that has not expired.
Exchange(c) ==
    /\ call[c].at = "exchange" /\ now < call[c].jwt + FileLife
    /\ call' = [call EXCEPT ![c].at = "finish", ![c].jwt = 0, ![c].readAt = 0,
                            ![c].token = now + TokenLife, ![c].ok = TRUE]
    /\ UNCHANGED <<now, file, credFields, resFields>>

-----------------------------------------------------------------------------
(* The end of Get for the caller that acquired. *)

Stored(c) ==
    IF call[c].ok
    THEN resource' = call[c].token /\ expiration' = call[c].token
    ELSE UNCHANGED <<resource, expiration>>

\* Those who wait look again.  An early renewal that failed is no error.
Awake(c) ==
    [d \in Callers |->
       IF d = c THEN Returned(call[c], call[c].token, call[c].ok \/ ~call[c].expired)
       ELSE IF call[d].at = "wait" THEN [call[d] EXCEPT !.at = "again"] ELSE call[d]]

\* Variant: those who wait are not woken after an error.
FinishQuietly(c) ==
    /\ call[c].at = "finish"
    /\ Stored(c)
    /\ acquiring' = FALSE
    /\ call' = IF call[c].ok THEN Awake(c) ELSE [call EXCEPT ![c] = Awake(c)[c]]
    /\ UNCHANGED <<now, file, credFields, lastAttempt>>

\* Variant: an error is discarded although there was no token.
FinishWithoutError(c) ==
    /\ call[c].at = "finish"
    /\ Stored(c)
    /\ acquiring' = FALSE
    /\ call' = [Awake(c) EXCEPT ![c].ok = TRUE]
    /\ UNCHANGED <<now, file, credFields, lastAttempt>>

Finish(c) ==
    /\ call[c].at = "finish"
    /\ Stored(c)
    /\ acquiring' = FALSE
    /\ call' = Awake(c)
    /\ UNCHANGED <<now, file, credFields, lastAttempt>>

-----------------------------------------------------------------------------
(* The environment. *)

\* Azure answers 401 to a request: the pipeline marks the token as expired.
Expire ==
    /\ expiration # 0 /\ expiration' = 0
    /\ UNCHANGED <<now, file, credFields, acquiring, resource, lastAttempt, call>>

\* The kubelet replaces the file, at the latest when it is Rotate old.
RotateFile ==
    /\ file # now /\ file' = now
    /\ UNCHANGED <<now, credFields, resFields, call>>

Tick ==
    /\ Prompt => \A c \in Callers : call[c].at # "finish"
    /\ now < Horizon /\ now < file + Rotate
    /\ now' = now + 1
    /\ UNCHANGED <<file, credFields, resFields, call>>

Get(c) ==
    \/ Acquire(c) \/ WaitForToken(c) \/ UseToken(c)
    \/ KeepAssertion(c) \/ ReadFile(c) \/ GetTokenFails(c) \/ Exchange(c) \/ Finish(c)

CredNext ==
    \/ \E c \in Callers : BeginGet(c) \/ Get(c)
    \/ Expire \/ RotateFile \/ Tick

CredSpec == CredInit /\ [][CredNext]_credVars

\* The file cannot be read, a request to the identity provider is lost, or Azure
\* answers 401.
Fault ==
    \/ Expire
    \/ \E c \in Callers : GetTokenFails(c) /\ (call[c].at = "exchange" => now < call[c].jwt + FileLife)

\* Goroutines run, requests to the identity provider end in some way, and faults end.
\* Without the last, a caller that waits may be overtaken for ever by one that fails.
CredFairSpec ==
    /\ CredSpec
    /\ \A c \in Callers : WF_credVars(Get(c))
    /\ <>[][~Fault]_credVars

-----------------------------------------------------------------------------
(* What must hold. *)

InGetToken(c) == call[c].at \in {"read", "exchange", "finish"}

\* assertion and lastRead have no lock of their own: the pipeline never runs GetToken
\* twice at a time.
OneGetToken ==
    \A c, d \in Callers : InGetToken(c) /\ InGetToken(d) => c = d

\* The assertion that readJWTFromFS returns has not expired, although it may have
\* been read five minutes before and the file has been replaced since.
AssertionIsValid ==
    \A c \in Callers : call[c].at = "exchange" => call[c].readAt < call[c].jwt + FileLife

\* A caller that gets a token without an error gets one that had not expired when it
\* asked, also when a renewal failed, when it waited for another's renewal, and when
\* the token was marked as expired meanwhile.
TokenIsLive ==
    \A c \in Callers : call[c].at = "returned" /\ call[c].ok => call[c].token >= call[c].now

\* Nobody waits for ever, whatever has failed before.
GetReturns ==
    \A c \in Callers : call[c].at = "lock" ~> call[c].at = "returned"
=============================================================================
