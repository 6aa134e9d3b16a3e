-------------------------- MODULE CredentialProofs --------------------------
(***************************************************************************)
(* Proofs about tokens, for any number of callers, all lives and periods   *)
(* that satisfy the assumptions of Credential, and any horizon.            *)
(***************************************************************************)
EXTENDS Credential, TLAPS

\* The times are natural numbers.
LEMMA Numbers ==
    /\ Reread \in Nat /\ Window \in Nat /\ Backoff \in Nat /\ TokenLife \in Nat
    /\ FileLife \in Nat /\ Rotate \in Nat /\ Start \in Nat /\ Horizon \in Nat
    /\ Start > Reread /\ Start > Rotate /\ Prompt \in BOOLEAN
  BY TimesAssumption

\* The times that the variables hold.
LEMMA Clocks ==
    ASSUME CredTypeOK
    PROVE  /\ now \in Nat /\ file \in Nat /\ assertion \in Nat /\ lastRead \in Nat
           /\ resource \in Nat /\ expiration \in Nat /\ lastAttempt \in Nat
  BY DEF CredTypeOK, Times

\* A new call, and the end of one, are records of calls.
LEMMA CallForms ==
    /\ NoCall \in Calls
    /\ \A t \in Times : [NoCall EXCEPT !.at = "lock", !.now = t] \in Calls
    /\ \A k \in Calls : \A t \in Times : \A ok \in BOOLEAN : Returned(k, t, ok) \in Calls
  BY DEF NoCall, Calls, Returned, Times

\* Every step of a caller keeps the types.
LEMMA GetTypes ==
    ASSUME CredTypeOK, NEW c \in Callers, BeginGet(c) \/ Get(c)
    PROVE  CredTypeOK'
  <1>0. call \in [Callers -> Calls] /\ call[c] \in Calls
    BY DEF CredTypeOK
  <1>1. CASE BeginGet(c)
    BY <1>1, <1>0, CallForms DEF BeginGet, CredTypeOK, credFields, resFields
  <1>2. CASE Acquire(c)
    <2>1. Held(c) \in Times /\ call[c].now \in Times /\ Expired(c) \in BOOLEAN
      BY <1>0, Clocks DEF Held, Calls, Times, Expired
    <2>2. [call[c] EXCEPT !.at = "read", !.expired = Expired(c), !.token = Held(c)] \in Calls
      BY <1>0, <2>1 DEF Calls
    <2>3. call' = [call EXCEPT ![c] = [call[c] EXCEPT !.at = "read", !.expired = Expired(c),
                                                      !.token = Held(c)]]
      BY <1>2 DEF Acquire
    <2>4. call' \in [Callers -> Calls]
      BY <1>0, <2>2, <2>3
    <2> QED BY <1>2, <2>1, <2>4 DEF Acquire, CredTypeOK, credFields
  <1>3. CASE WaitForToken(c)
    <2>1. Held(c) \in Times
      BY <1>0, Clocks DEF Held, Calls, Times
    <2> QED BY <1>0, <1>3, <2>1 DEF WaitForToken, CredTypeOK, credFields, resFields, Calls
  <1>4. CASE UseToken(c)
    BY <1>0, <1>4, CallForms DEF UseToken, CredTypeOK, credFields, resFields
  <1>5. CASE KeepAssertion(c)
    <2>1. [call[c] EXCEPT !.at = "exchange", !.jwt = assertion, !.readAt = now] \in Calls
      BY <1>0, Clocks DEF Calls, Times
    <2>2. call' \in [Callers -> Calls]
      BY <1>0, <1>5, <2>1 DEF KeepAssertion, TakesJWT
    <2> QED BY <1>5, <2>2 DEF KeepAssertion, CredTypeOK, credFields, resFields
  <1>6. CASE ReadFile(c)
    <2>1. [call[c] EXCEPT !.at = "exchange", !.jwt = file, !.readAt = now] \in Calls
      BY <1>0, Clocks DEF Calls, Times
    <2>2. call' \in [Callers -> Calls]
      BY <1>0, <1>6, <2>1 DEF ReadFile, TakesJWT
    <2> QED BY <1>6, <2>2 DEF ReadFile, CredTypeOK, resFields
  <1>7. CASE GetTokenFails(c)
    BY <1>0, <1>7 DEF GetTokenFails, CredTypeOK, credFields, resFields, Calls, Times
  <1>8. CASE Exchange(c)
    <2>1. now + TokenLife \in Times
      BY Clocks, Numbers DEF Times
    <2> QED BY <1>0, <1>8, <2>1 DEF Exchange, CredTypeOK, credFields, resFields, Calls, Times
  <1>9. CASE Finish(c)
    <2>1. call[c].token \in Times /\ call[c].ok \in BOOLEAN /\ call[c].expired \in BOOLEAN
      BY <1>0 DEF Calls
    <2>2. \A d \in Callers : [call[d] EXCEPT !.at = "again"] \in Calls
      BY <1>0 DEF Calls
    <2>3. Returned(call[c], call[c].token, call[c].ok \/ ~call[c].expired) \in Calls
      BY <1>0, <2>1, CallForms
    <2>4. Awake(c) \in [Callers -> Calls]
      BY <1>0, <2>2, <2>3 DEF Awake
    <2> QED BY <1>9, <2>1, <2>4 DEF Finish, Stored, CredTypeOK, credFields
  <1> QED BY <1>1, <1>2, <1>3, <1>4, <1>5, <1>6, <1>7, <1>8, <1>9 DEF Get

\* Every step keeps the types.
LEMMA Types ==
    CredTypeOK /\ [CredNext]_credVars => CredTypeOK'
  <1> SUFFICES ASSUME CredTypeOK, [CredNext]_credVars PROVE CredTypeOK'
    OBVIOUS
  <1>1. CASE UNCHANGED credVars
    BY <1>1 DEF credVars, credFields, resFields, CredTypeOK
  <1>2. CASE Expire
    BY <1>2 DEF Expire, credFields, CredTypeOK, Times
  <1>3. CASE RotateFile
    BY <1>3 DEF RotateFile, credFields, resFields, CredTypeOK
  <1>4. CASE Tick
    <2>1. now' \in Times
      BY <1>4, Clocks DEF Tick, Times
    <2> QED BY <1>4, <2>1 DEF Tick, credFields, resFields, CredTypeOK
  <1> QED BY <1>1, <1>2, <1>3, <1>4, GetTypes DEF CredNext

\* The initial state has the types.
LEMMA InitTypes == CredInit => CredTypeOK
  <1> SUFFICES ASSUME CredInit PROVE CredTypeOK
    OBVIOUS
  <1>1. file \in Nat /\ now \in Nat
    BY Numbers DEF CredInit
  <1>2. call \in [Callers -> Calls]
    BY CallForms DEF CredInit
  <1>3. {now, file, assertion, lastRead, resource, expiration, lastAttempt} \subseteq Nat
    BY <1>1 DEF CredInit
  <1>4. acquiring \in BOOLEAN
    BY DEF CredInit
  <1> QED BY <1>2, <1>3, <1>4 DEF CredTypeOK, Times

-----------------------------------------------------------------------------
(* What the steps do to the calls. *)

Others(c) == \A d \in Callers \ {c} : call'[d] = call[d]

\* A caller that takes the lock in Get leaves the calls of others alone; its own ...
LEMMA LockSteps ==
    ASSUME CredTypeOK, NEW c \in Callers
    PROVE  /\ BeginGet(c) => /\ Others(c) /\ call'[c].at = "lock"
                             /\ call'[c].now = now /\ ~call'[c].ok
           /\ Acquire(c) => /\ Others(c) /\ call'[c].at = "read"
                            /\ call'[c].now = call[c].now /\ call'[c].ok = call[c].ok
                            /\ call'[c].token = Held(c) /\ call'[c].expired = Expired(c)
           /\ WaitForToken(c) => /\ Others(c) /\ call'[c].at = "wait"
                                 /\ call'[c].now = call[c].now /\ call'[c].ok = call[c].ok
                                 /\ call'[c].token = Held(c)
           /\ UseToken(c) => /\ Others(c) /\ call'[c].at = "returned"
                             /\ call'[c].now = call[c].now /\ call'[c].token = resource
  <1>0. call \in [Callers -> Calls] /\ call[c] \in Calls
    BY DEF CredTypeOK
  <1>1. ASSUME BeginGet(c)
        PROVE  /\ Others(c) /\ call'[c].at = "lock"
               /\ call'[c].now = now /\ ~call'[c].ok
    BY <1>0, <1>1 DEF BeginGet, NoCall, Others
  <1>2. ASSUME Acquire(c)
        PROVE  /\ Others(c) /\ call'[c].at = "read"
               /\ call'[c].now = call[c].now /\ call'[c].ok = call[c].ok
               /\ call'[c].token = Held(c) /\ call'[c].expired = Expired(c)
    <2> DEFINE k == [call[c] EXCEPT !.at = "read", !.expired = Expired(c), !.token = Held(c)]
    <2>1. call' = [call EXCEPT ![c] = k]
      BY <1>2 DEF Acquire
    <2>2. k.at = "read" /\ k.now = call[c].now /\ k.ok = call[c].ok
          /\ k.token = Held(c) /\ k.expired = Expired(c)
      BY <1>0 DEF Calls
    <2>3. Others(c) /\ call'[c] = k
      BY <1>0, <2>1 DEF Others
    <2> QED BY <2>2, <2>3
  <1>3. ASSUME WaitForToken(c)
        PROVE  /\ Others(c) /\ call'[c].at = "wait"
               /\ call'[c].now = call[c].now /\ call'[c].ok = call[c].ok
               /\ call'[c].token = Held(c)
    <2> DEFINE k == [call[c] EXCEPT !.at = "wait", !.token = Held(c)]
    <2>1. call' = [call EXCEPT ![c] = k]
      BY <1>3 DEF WaitForToken
    <2>2. k.at = "wait" /\ k.now = call[c].now /\ k.ok = call[c].ok /\ k.token = Held(c)
      BY <1>0 DEF Calls
    <2>3. Others(c) /\ call'[c] = k
      BY <1>0, <2>1 DEF Others
    <2> QED BY <2>2, <2>3
  <1>4. ASSUME UseToken(c)
        PROVE  /\ Others(c) /\ call'[c].at = "returned"
               /\ call'[c].now = call[c].now /\ call'[c].token = resource
    BY <1>0, <1>4 DEF UseToken, Returned, NoCall, Others
  <1> QED BY <1>1, <1>2, <1>3, <1>4

\* ... and neither does GetToken touch other calls.
LEMMA TokenSteps ==
    ASSUME CredTypeOK, NEW c \in Callers
    PROVE  /\ KeepAssertion(c) => /\ call'[c].jwt = assertion /\ call'[c].readAt = now
                                  /\ call'[c].at = "exchange"
           /\ ReadFile(c) => /\ call'[c].jwt = file /\ call'[c].readAt = now
                             /\ call'[c].at = "exchange"
           /\ KeepAssertion(c) \/ ReadFile(c) \/ GetTokenFails(c) =>
                 /\ Others(c) /\ call'[c].now = call[c].now /\ call'[c].ok = call[c].ok
                 /\ call'[c].token = call[c].token /\ call'[c].expired = call[c].expired
           /\ GetTokenFails(c) => call'[c].at = "finish"
           /\ Exchange(c) => /\ Others(c) /\ call'[c].at = "finish" /\ call'[c].ok
                             /\ call'[c].now = call[c].now
                             /\ call'[c].token = now + TokenLife
  <1>0. call \in [Callers -> Calls] /\ call[c] \in Calls
    BY DEF CredTypeOK
  <1>1. ASSUME NEW jwt, TakesJWT(c, jwt)
        PROVE  /\ Others(c) /\ call'[c].at = "exchange" /\ call'[c].now = call[c].now
               /\ call'[c].ok = call[c].ok /\ call'[c].token = call[c].token
               /\ call'[c].expired = call[c].expired
               /\ call'[c].jwt = jwt /\ call'[c].readAt = now
    <2> DEFINE k == [call[c] EXCEPT !.at = "exchange", !.jwt = jwt, !.readAt = now]
    <2>1. call' = [call EXCEPT ![c] = k]
      BY <1>1 DEF TakesJWT
    <2>2. k.at = "exchange" /\ k.now = call[c].now /\ k.ok = call[c].ok
          /\ k.token = call[c].token /\ k.expired = call[c].expired
          /\ k.jwt = jwt /\ k.readAt = now
      BY <1>0 DEF Calls
    <2>3. Others(c) /\ call'[c] = k
      BY <1>0, <2>1 DEF Others
    <2> QED BY <2>2, <2>3
  <1>2. ASSUME GetTokenFails(c)
        PROVE  /\ Others(c) /\ call'[c].at = "finish" /\ call'[c].now = call[c].now
               /\ call'[c].ok = call[c].ok /\ call'[c].token = call[c].token
               /\ call'[c].expired = call[c].expired
    <2> DEFINE k == [call[c] EXCEPT !.at = "finish", !.jwt = 0, !.readAt = 0]
    <2>1. call' = [call EXCEPT ![c] = k]
      BY <1>2 DEF GetTokenFails
    <2>2. k.at = "finish" /\ k.now = call[c].now /\ k.ok = call[c].ok
          /\ k.token = call[c].token /\ k.expired = call[c].expired
      BY <1>0 DEF Calls
    <2>3. Others(c) /\ call'[c] = k
      BY <1>0, <2>1 DEF Others
    <2> QED BY <2>2, <2>3
  <1>3. ASSUME Exchange(c)
        PROVE  /\ Others(c) /\ call'[c].at = "finish" /\ call'[c].ok
               /\ call'[c].now = call[c].now /\ call'[c].token = now + TokenLife
    <2> DEFINE k == [call[c] EXCEPT !.at = "finish", !.jwt = 0, !.readAt = 0,
                                    !.token = now + TokenLife, !.ok = TRUE]
    <2>1. call' = [call EXCEPT ![c] = k]
      BY <1>3 DEF Exchange
    <2>2. k.at = "finish" /\ k.now = call[c].now /\ k.ok /\ k.token = now + TokenLife
      BY <1>0 DEF Calls
    <2>3. Others(c) /\ call'[c] = k
      BY <1>0, <2>1 DEF Others
    <2> QED BY <2>2, <2>3
  <1>4. KeepAssertion(c) => TakesJWT(c, assertion)
    BY DEF KeepAssertion
  <1>5. ReadFile(c) => TakesJWT(c, file)
    BY DEF ReadFile
  <1> QED BY <1>1, <1>2, <1>3, <1>4, <1>5

\* The end of Get: the caller returns, and those who wait look again.
LEMMA FinishStep ==
    ASSUME CredTypeOK, NEW c \in Callers, Finish(c)
    PROVE  /\ call'[c].at = "returned" /\ call'[c].now = call[c].now
           /\ call'[c].token = call[c].token
           /\ call'[c].ok = (call[c].ok \/ ~call[c].expired)
           /\ \A d \in Callers \ {c} :
                /\ call'[d].at = IF call[d].at = "wait" THEN "again" ELSE call[d].at
                /\ call'[d].now = call[d].now /\ call'[d].token = call[d].token
                /\ call'[d].ok = call[d].ok /\ call'[d].expired = call[d].expired
                /\ call'[d].jwt = call[d].jwt /\ call'[d].readAt = call[d].readAt
  <1>0. call \in [Callers -> Calls]
    BY DEF CredTypeOK
  <1>1. \A d \in Callers : call'[d] = Awake(c)[d]
    BY DEF Finish
  <1>2. call'[c] = Returned(call[c], call[c].token, call[c].ok \/ ~call[c].expired)
    BY <1>1 DEF Awake
  <1>3. ASSUME NEW d \in Callers \ {c}
        PROVE  /\ call'[d].at = IF call[d].at = "wait" THEN "again" ELSE call[d].at
               /\ call'[d].now = call[d].now /\ call'[d].token = call[d].token
               /\ call'[d].ok = call[d].ok /\ call'[d].expired = call[d].expired
               /\ call'[d].jwt = call[d].jwt /\ call'[d].readAt = call[d].readAt
    <2> DEFINE k == [call[d] EXCEPT !.at = "again"]
    <2>1. call'[d] = IF call[d].at = "wait" THEN k ELSE call[d]
      BY <1>1 DEF Awake
    <2>2. k.at = "again" /\ k.now = call[d].now /\ k.token = call[d].token
          /\ k.ok = call[d].ok /\ k.expired = call[d].expired
          /\ k.jwt = call[d].jwt /\ k.readAt = call[d].readAt
      BY <1>0 DEF Calls
    <2> QED BY <2>1, <2>2
  <1>4. /\ call'[c].at = "returned" /\ call'[c].now = call[c].now
        /\ call'[c].token = call[c].token
        /\ call'[c].ok = (call[c].ok \/ ~call[c].expired)
    BY <1>2 DEF Returned, NoCall
  <1> QED BY <1>3, <1>4

-----------------------------------------------------------------------------
(* One GetToken at a time. *)

\* Who is in GetToken has set the flag, and nobody else is.
Exclusive ==
    /\ \A c \in Callers : InGetToken(c) => acquiring
    /\ OneGetToken

\* Every step preserves Exclusive.
LEMMA ExclusiveStep ==
    CredTypeOK /\ Exclusive /\ [CredNext]_credVars => Exclusive'
  <1> SUFFICES ASSUME CredTypeOK, Exclusive, [CredNext]_credVars PROVE Exclusive'
    OBVIOUS
  <1>0. call \in [Callers -> Calls]
    BY DEF CredTypeOK
  <1>1. CASE UNCHANGED <<acquiring, call>>
    BY <1>1 DEF Exclusive, OneGetToken, InGetToken
  <1>2. ASSUME NEW c \in Callers, acquiring' = acquiring,
               InGetToken(c)' => InGetToken(c),
               \A d \in Callers \ {c} : call'[d] = call[d]
        PROVE  Exclusive'
    <2>1. \A d \in Callers : InGetToken(d)' => InGetToken(d)
      BY <1>2 DEF InGetToken
    <2> QED BY <1>2, <2>1 DEF Exclusive, OneGetToken
  <1>3. ASSUME NEW c \in Callers, Acquire(c) PROVE Exclusive'
    <2>1. \A d \in Callers : ~InGetToken(d)
      BY <1>3 DEF Acquire, Exclusive
    <2>2. acquiring' /\ \A d \in Callers \ {c} : call'[d] = call[d]
      BY <1>0, <1>3 DEF Acquire
    <2> QED BY <2>1, <2>2 DEF Exclusive, OneGetToken, InGetToken
  <1>4. ASSUME NEW c \in Callers, Finish(c) PROVE Exclusive'
    <2>1. InGetToken(c)
      BY <1>4 DEF Finish, InGetToken
    <2>2. \A d \in Callers \ {c} : ~InGetToken(d)
      BY <2>1 DEF Exclusive, OneGetToken
    <2>3. \A d \in Callers : ~InGetToken(d)'
      BY <1>4, <2>2, FinishStep DEF InGetToken
    <2> QED BY <2>3 DEF Exclusive, OneGetToken
  <1>5. ASSUME NEW c \in Callers, BeginGet(c) \/ WaitForToken(c) \/ UseToken(c)
        PROVE  Exclusive'
    <2>1. acquiring' = acquiring
      BY <1>5 DEF BeginGet, WaitForToken, UseToken, resFields
    <2>2. Others(c) /\ ~InGetToken(c)'
      BY <1>5, LockSteps DEF InGetToken
    <2> QED BY <1>2, <2>1, <2>2 DEF Others
  <1>6. ASSUME NEW c \in Callers,
               KeepAssertion(c) \/ ReadFile(c) \/ GetTokenFails(c) \/ Exchange(c)
        PROVE  Exclusive'
    <2>1. acquiring' = acquiring /\ \A d \in Callers \ {c} : call'[d] = call[d]
      BY <1>0, <1>6 DEF KeepAssertion, ReadFile, GetTokenFails, Exchange, TakesJWT, resFields
    <2>2. InGetToken(c)
      BY <1>6 DEF KeepAssertion, ReadFile, GetTokenFails, Exchange, InGetToken
    <2> QED BY <1>2, <2>1, <2>2
  <1>7. CASE Expire \/ RotateFile \/ Tick
    BY <1>1, <1>7 DEF Expire, RotateFile, Tick, resFields
  <1>8. CASE UNCHANGED credVars
    BY <1>1, <1>8 DEF credVars, resFields
  <1> QED BY <1>3, <1>4, <1>5, <1>6, <1>7, <1>8 DEF CredNext, Get

\* The fields of the credential are read and written by one goroutine at a time.
THEOREM GetTokenIsExclusive == CredSpec => []OneGetToken
  <1>1. CredInit => Exclusive
    BY DEF CredInit, Exclusive, OneGetToken, InGetToken, NoCall
  <1>2. Exclusive => OneGetToken
    BY DEF Exclusive
  <1> QED BY <1>1, <1>2, InitTypes, Types, ExclusiveStep, PTL DEF CredSpec

-----------------------------------------------------------------------------
(* The assertion. *)

\* The file is never older than Rotate, and neither was the assertion when it was read.
Rotated ==
    /\ now >= Start
    /\ now <= file + Rotate
    /\ lastRead # 0 => lastRead <= assertion + Rotate
    /\ AssertionIsValid

\* Every step preserves Rotated.
LEMMA RotatedStep ==
    CredTypeOK /\ Rotated /\ [CredNext]_credVars => Rotated'
  <1> SUFFICES ASSUME CredTypeOK, Rotated, [CredNext]_credVars PROVE Rotated'
    OBVIOUS
  <1> DEFINE Valid(k) == k.at = "exchange" => k.readAt < k.jwt + FileLife
  <1>0. \A c \in Callers : Valid(call[c])
    BY DEF Rotated, AssertionIsValid
  <1>a. AssertionIsValid' <=> \A c \in Callers : Valid(call'[c])
    BY DEF AssertionIsValid
  <1>1. ASSUME NEW c \in Callers, Others(c), Valid(call'[c]) PROVE AssertionIsValid'
    BY <1>0, <1>1, <1>a DEF Others
  <1>2. CASE UNCHANGED credVars
    BY <1>2 DEF credVars, credFields, Rotated, AssertionIsValid
  <1>3. CASE Expire
    BY <1>3 DEF Expire, credFields, Rotated, AssertionIsValid
  <1>4. CASE RotateFile
    <2>1. now <= now + Rotate
      BY Clocks, Numbers
    <2> QED BY <1>4, <2>1 DEF RotateFile, credFields, Rotated, AssertionIsValid
  <1>5. CASE Tick
    <2>1. now' >= Start /\ now' <= file + Rotate
      BY <1>5, Clocks, Numbers DEF Tick, Rotated
    <2> QED BY <1>5, <2>1 DEF Tick, credFields, Rotated, AssertionIsValid
  <1>6. ASSUME NEW c \in Callers, KeepAssertion(c) PROVE Rotated'
    <2>1. now < assertion + FileLife
      <3>1. now <= lastRead + Reread
        BY <1>6, Clocks, Numbers DEF KeepAssertion
      <3>2. lastRead # 0
        BY <3>1, Clocks, Numbers DEF Rotated
      <3> QED BY <3>1, <3>2, Clocks, Numbers, RotationAssumption DEF Rotated
    <2>2. AssertionIsValid'
      BY <1>1, <1>6, <2>1, TokenSteps
    <2> QED BY <1>6, <2>2 DEF KeepAssertion, credFields, Rotated
  <1>7. ASSUME NEW c \in Callers, ReadFile(c) PROVE Rotated'
    <2>1. now < file + FileLife
      BY Clocks, Numbers, RotationAssumption DEF Rotated
    <2>2. AssertionIsValid'
      BY <1>1, <1>7, <2>1, TokenSteps
    <2> QED BY <1>7, <2>2 DEF ReadFile, Rotated
  <1>8. ASSUME NEW c \in Callers,
               \/ BeginGet(c) \/ Acquire(c) \/ WaitForToken(c) \/ UseToken(c)
               \/ GetTokenFails(c) \/ Exchange(c)
        PROVE  Rotated'
    <2>1. Others(c) /\ call'[c].at # "exchange"
      BY <1>8, LockSteps, TokenSteps
    <2>2. UNCHANGED <<now, file, credFields>>
      BY <1>8 DEF BeginGet, Acquire, WaitForToken, UseToken, GetTokenFails, Exchange
    <2>3. AssertionIsValid'
      BY <1>1, <2>1
    <2> QED BY <2>2, <2>3 DEF credFields, Rotated
  <1>9. ASSUME NEW c \in Callers, Finish(c) PROVE Rotated'
    <2>1. \A d \in Callers : Valid(call'[d])
      BY <1>0, <1>9, FinishStep
    <2> QED BY <1>9, <1>a, <2>1 DEF Finish, credFields, Rotated
  <1> QED BY <1>2, <1>3, <1>4, <1>5, <1>6, <1>7, <1>8, <1>9 DEF CredNext, Get

\* Every assertion that is exchanged was valid when GetToken took it.
THEOREM AssertionsAreValid == CredSpec => []AssertionIsValid
  <1>1. CredInit => Rotated
    <2> SUFFICES ASSUME CredInit PROVE Rotated
      OBVIOUS
    <2>1. now >= Start /\ now <= file + Rotate
      BY Numbers DEF CredInit
    <2> QED BY <2>1 DEF CredInit, Rotated, AssertionIsValid, NoCall
  <1>2. Rotated => AssertionIsValid
    BY DEF Rotated
  <1> QED BY <1>1, <1>2, InitTypes, Types, RotatedStep, PTL DEF CredSpec

-----------------------------------------------------------------------------
(* The access token. *)

\* The token of a call that GetToken has ended was issued at this moment.  Who waits
\* had no token to go on with; who looks again has none, or a new one.  The token of
\* an early renewal was good when the caller asked.
GoodCall(k) ==
    /\ k.now <= now
    /\ k.at \in {"lock", "wait", "again", "read", "exchange"} => ~k.ok
    /\ k.at = "finish" /\ k.ok => k.token = now + TokenLife
    /\ k.at = "wait" => expiration = 0 \/ expiration < k.now
    /\ k.at = "again" => expiration = 0 \/ expiration >= k.now + Window \/ expiration < k.now
    /\ k.at \in {"read", "exchange", "finish"} /\ ~k.ok /\ ~k.expired => k.token >= k.now
    /\ k.at = "returned" /\ k.ok => k.token >= k.now

Live ==
    /\ expiration # 0 => resource = expiration
    /\ \A c \in Callers : GoodCall(call[c])

\* Every step preserves Live if no time passes between the end of GetToken and the lock.
LEMMA LiveStep ==
    ASSUME Prompt = TRUE
    PROVE  CredTypeOK /\ Live /\ [CredNext]_credVars => Live'
  <1> SUFFICES ASSUME CredTypeOK, Live, [CredNext]_credVars PROVE Live'
    OBVIOUS
  <1>0. \A c \in Callers : /\ call[c].now \in Nat /\ call[c].token \in Nat
                            /\ call[c].ok \in BOOLEAN /\ call[c].expired \in BOOLEAN
    BY DEF CredTypeOK, Calls, Times
  <1>a. \A c \in Callers : GoodCall(call[c])
    BY DEF Live
  <1>1. ASSUME NEW c \in Callers, UNCHANGED <<now, resource, expiration>>,
               Others(c), GoodCall(call[c])'
        PROVE  Live'
    <2>1. \A d \in Callers : GoodCall(call[d])'
      BY <1>1, <1>a DEF Others, GoodCall
    <2> QED BY <1>1, <2>1 DEF Live
  <1>2. CASE UNCHANGED credVars
    BY <1>2 DEF credVars, resFields, Live, GoodCall
  <1>3. CASE RotateFile
    BY <1>3 DEF RotateFile, resFields, Live, GoodCall
  <1>4. CASE Expire
    BY <1>4 DEF Expire, Live, GoodCall
  <1>5. CASE Tick
    <2>1. now' = now + 1 /\ UNCHANGED <<resource, expiration, call>>
      BY <1>5 DEF Tick, resFields
    <2>2. ASSUME NEW c \in Callers PROVE GoodCall(call[c])'
      <3>1. call[c].at # "finish"
        BY <1>5 DEF Tick
      <3>2. call[c].now <= now'
        BY <1>0, <1>a, <2>1, Clocks DEF GoodCall
      <3> QED BY <1>a, <2>1, <3>1, <3>2 DEF GoodCall
    <2> QED BY <2>1, <2>2 DEF Live
  <1>6. ASSUME NEW c \in Callers, BeginGet(c) PROVE Live'
    <2>1. UNCHANGED <<now, resource, expiration>>
      BY <1>6 DEF BeginGet, resFields
    <2>2. GoodCall(call[c])'
      BY <1>6, <2>1, LockSteps, Clocks DEF GoodCall
    <2> QED BY <1>1, <1>6, <2>1, <2>2, LockSteps
  <1>7. ASSUME NEW c \in Callers, Acquire(c) PROVE Live'
    <2>1. UNCHANGED <<now, resource, expiration>>
      BY <1>7 DEF Acquire
    <2>2. ~Expired(c) => Held(c) >= call[c].now
      BY <1>0, <1>7, <1>a, Clocks, Numbers
      DEF Acquire, Looks, Expired, Expiring, Held, Live, GoodCall
    <2>3. ~call[c].ok
      BY <1>7, <1>a DEF Acquire, Looks, GoodCall
    <2>4. GoodCall(call[c])'
      BY <1>7, <1>a, <2>1, <2>2, <2>3, LockSteps DEF GoodCall
    <2> QED BY <1>1, <1>7, <2>1, <2>4, LockSteps
  <1>8. ASSUME NEW c \in Callers, WaitForToken(c) PROVE Live'
    <2>1. UNCHANGED <<now, resource, expiration>>
      BY <1>8 DEF WaitForToken, resFields
    <2>2. Expired(c) /\ ~call[c].ok
      BY <1>8, <1>a DEF WaitForToken, Looks, GoodCall
    <2>3. GoodCall(call[c])'
      BY <1>8, <1>a, <2>1, <2>2, LockSteps DEF GoodCall, Expired
    <2> QED BY <1>1, <1>8, <2>1, <2>3, LockSteps
  <1>9. ASSUME NEW c \in Callers, UseToken(c) PROVE Live'
    <2>1. UNCHANGED <<now, resource, expiration>>
      BY <1>9 DEF UseToken, resFields
    <2>2. resource >= call[c].now
      BY <1>0, <1>9, Clocks DEF UseToken, Expired, Live
    <2>3. GoodCall(call[c])'
      BY <1>9, <1>a, <2>1, <2>2, LockSteps DEF GoodCall
    <2> QED BY <1>1, <1>9, <2>1, <2>3, LockSteps
  <1>10. ASSUME NEW c \in Callers, KeepAssertion(c) \/ ReadFile(c) \/ GetTokenFails(c)
         PROVE  Live'
    <2>1. UNCHANGED <<now, resource, expiration>>
      BY <1>10 DEF KeepAssertion, ReadFile, GetTokenFails, resFields
    <2>2. call[c].at \in {"read", "exchange"} /\ call'[c].at \in {"exchange", "finish"}
      BY <1>10, TokenSteps DEF KeepAssertion, ReadFile, GetTokenFails
    <2>3. GoodCall(call[c])'
      BY <1>10, <1>a, <2>1, <2>2, TokenSteps DEF GoodCall
    <2> QED BY <1>1, <1>10, <2>1, <2>3, TokenSteps
  <1>11. ASSUME NEW c \in Callers, Exchange(c) PROVE Live'
    <2>1. UNCHANGED <<now, resource, expiration>>
      BY <1>11 DEF Exchange, resFields
    <2>2. GoodCall(call[c])'
      BY <1>11, <1>a, <2>1, TokenSteps DEF GoodCall
    <2> QED BY <1>1, <1>11, <2>1, <2>2, TokenSteps
  <1>12. ASSUME NEW c \in Callers, Finish(c) PROVE Live'
    <2>1. now' = now /\ call[c].at = "finish"
      BY <1>12 DEF Finish
    <2>2. IF call[c].ok THEN resource' = now + TokenLife /\ expiration' = now + TokenLife
                        ELSE UNCHANGED <<resource, expiration>>
      BY <1>12, <1>a, <2>1 DEF Finish, Stored, GoodCall
    <2>3. GoodCall(call[c])'
      BY <1>0, <1>12, <1>a, <2>1, Clocks, Numbers, FinishStep DEF GoodCall
    <2>4. ASSUME NEW d \in Callers \ {c} PROVE GoodCall(call[d])'
      <3>1. CASE call[c].ok
        <4>1. expiration' >= call[d].now + Window
          BY <1>0, <1>a, <2>2, <3>1, Clocks, Numbers, LifeAssumption DEF GoodCall
        <4> QED BY <1>12, <1>a, <2>1, <4>1, FinishStep DEF GoodCall
      <3>2. CASE ~call[c].ok
        BY <1>12, <1>a, <2>1, <2>2, <3>2, FinishStep DEF GoodCall
      <3> QED BY <3>1, <3>2
    <2>5. expiration' # 0 => resource' = expiration'
      BY <2>2 DEF Live
    <2> QED BY <2>3, <2>4, <2>5 DEF Live
  <1> QED BY <1>2, <1>3, <1>4, <1>5, <1>6, <1>7, <1>8, <1>9, <1>10, <1>11, <1>12
      DEF CredNext, Get

\* A token that Get returns without an error had not expired when the caller asked, if
\* no time passes between the end of GetToken and the lock.
THEOREM TokensAreLive ==
    ASSUME Prompt = TRUE PROVE CredSpec => []TokenIsLive
  <1>1. CredInit => Live
    <2> SUFFICES ASSUME CredInit PROVE Live
      OBVIOUS
    <2>1. 0 <= now
      BY Numbers DEF CredInit
    <2> QED BY <2>1 DEF CredInit, Live, GoodCall, NoCall
  <1>2. Live => TokenIsLive
    BY DEF Live, GoodCall, TokenIsLive
  <1>3. CredTypeOK /\ Live /\ [CredNext]_credVars => Live'
    BY LiveStep
  <1> QED BY <1>1, <1>2, <1>3, InitTypes, Types, PTL DEF CredSpec
=============================================================================
