------------------------ MODULE SeparatePartsProofs ------------------------
(***************************************************************************)
(* Proofs about parts that share no state with any other: registration,    *)
(* for any number of presses of the login button; contacts, for any number *)
(* of screens, collectors and fetches; sending, for any number of          *)
(* concurrent calls and any devices and registration ids of the recipient; *)
(* a receiver chain, for every MAX_MESSAGE_KEYS, every MAX_FORWARD_JUMPS   *)
(* and any set of counters; and the padding of a message, for contents of  *)
(* any length.                                                             *)
(***************************************************************************)
EXTENDS ReceiverChain, Registration, Contacts, Padding, MessageSender,
        FiniteSetTheorems, WellFoundedInduction, TLAPS

-----------------------------------------------------------------------------
(* Registration: the buttons allow one attempt at a time, and as long as      *)
(* nothing overlaps or gets lost, the saved credentials and keys are the      *)
(* account's.                                                                 *)

\* What ties the button to the attempts: while it is enabled none is under way,
\* and nothing disables it before the page with it is reached.
ButtonGuards ==
  /\ "login" \in enabled => \A a \in mine : ~UnderWay(a)
  /\ page = "phone" => "login" \in enabled

LoginInv == RegistrationTypeOK /\ ButtonGuards /\ OneAtATime /\ NeverStuck

Registered == {"registered", "aci", "aci taken", "pni", "pni taken"}

\* What holds while attempts have not overlapped and no answer got lost: one
\* attempt is under way at most, the account is the one of an attempt that was
\* registered, and what the app and the server hold belongs to that account.
Settled ==
  /\ \A a, b \in Attempts : UnderWay(a) /\ UnderWay(b) => a = b
  /\ \A a \in Attempts : call[a] \in Registered => account = a
  /\ (\A a \in Attempts : call[a] # "registered") => creds = account /\ keys = account
  /\ \A a \in Attempts : call[a] = "registered" => \A i \in Identities : uploadedKeys[i] = None
  /\ \A i \in Identities : uploadedKeys[i] # None => uploadedKeys[i] = keys
  /\ \A a \in Attempts :
       /\ call[a] \in {"aci taken", "pni", "pni taken"} => uploadedKeys["aci"] = a
       /\ call[a] = "pni taken" => uploadedKeys["pni"] = a

RegistrationInv == LoginInv /\ (~unsure => Settled)

-----------------------------------------------------------------------------
(* The login screen *)

\* A step of an attempt that goes on, or fails, keeps the invariant of the screen.
LEMMA GoesLogin ==
  ASSUME LoginInv, NEW a \in Attempts, UnderWay(a), UNCHANGED mine,
         NEW where \in {"register", "registered", "aci", "aci taken", "pni", "pni taken"},
         Goes(a, where)
  PROVE  ButtonGuards' /\ OneAtATime' /\ NeverStuck'
<1> USE DEF LoginInv, Goes, login
<1>1. \A b \in Attempts : UnderWay(b)' <=> UnderWay(b)
  BY Zenon DEF RegistrationTypeOK, UnderWay
<1>2. mine \subseteq Attempts
  BY Zenon DEF RegistrationTypeOK
<1> QED
  BY Zenon, <1>1, <1>2 DEF ButtonGuards, OneAtATime, NeverStuck

LEMMA FailLogin ==
  ASSUME LoginInv, NEW a \in Attempts, UnderWay(a), UNCHANGED mine, Fail(a)
  PROVE  ButtonGuards' /\ OneAtATime' /\ NeverStuck'
<1> USE DEF LoginInv, Fail
<1>1. ~UnderWay(a)' /\ \A b \in Attempts \ {a} : UnderWay(b)' <=> UnderWay(b)
  BY Zenon DEF RegistrationTypeOK, UnderWay
<1>2. mine \subseteq Attempts
  BY Zenon DEF RegistrationTypeOK
<1> QED
  BY Zenon, <1>1, <1>2 DEF ButtonGuards, OneAtATime, NeverStuck

\* The fields keep their types in a step of an attempt.
LEMMA AttemptTypes ==
  ASSUME RegistrationTypeOK, NEW a \in Attempts, AttemptStep(a)
  PROVE  RegistrationTypeOK'
<1> USE DEF RegistrationTypeOK, Goes, Fail, login, server, stored
<1>1. CASE VerifyAnswer(a)
  <2>1. call' \in [Attempts -> {"new", "verify", "register", "registered", "aci",
                                "aci taken", "pni", "pni taken", "over"}]
    BY Zenon, <1>1 DEF VerifyAnswer
  <2>2. enabled' \subseteq {"sms", "login"} /\ UNCHANGED <<screen, page, sms, files, mine>>
    BY Zenon, <1>1 DEF VerifyAnswer
  <2>3. UNCHANGED <<account, uploadedKeys, creds, keys>>
    BY Zenon, <1>1 DEF VerifyAnswer
  <2> QED
    BY Zenon, <2>1, <2>2, <2>3
<1>2. CASE ServerRegisters(a)
  <2>1. call' \in [Attempts -> {"new", "verify", "register", "registered", "aci",
                                "aci taken", "pni", "pni taken", "over"}]
    BY Zenon, <1>2 DEF ServerRegisters
  <2>2. enabled' \subseteq {"sms", "login"} /\ UNCHANGED <<screen, page, sms, files, mine>>
    BY Zenon, <1>2 DEF ServerRegisters
  <2>3. /\ UNCHANGED <<creds, keys>> /\ account' \in {account, a}
        /\ uploadedKeys' = uploadedKeys \/ uploadedKeys' = [i \in Identities |-> None]
    BY Zenon, <1>2 DEF ServerRegisters
  <2> QED
    BY ZenonT(60), <2>1, <2>2, <2>3
<1>3. CASE RegisterAnswer(a)
  <2>1. call' \in [Attempts -> {"new", "verify", "register", "registered", "aci",
                                "aci taken", "pni", "pni taken", "over"}]
    BY Zenon, <1>3 DEF RegisterAnswer
  <2>2. enabled' \subseteq {"sms", "login"} /\ UNCHANGED <<screen, page, sms, files, mine>>
    BY Zenon, <1>3 DEF RegisterAnswer
  <2>3. UNCHANGED <<account, uploadedKeys>> /\ creds' \in {creds, a} /\ keys' \in {keys, a}
    BY Zenon, <1>3 DEF RegisterAnswer, SaveCredentials
  <2> QED
    BY ZenonT(60), <2>1, <2>2, <2>3
<1>4. ASSUME NEW i \in Identities, ServerTakesPreKeys(a, i) PROVE RegistrationTypeOK'
  <2>1. call' \in [Attempts -> {"new", "verify", "register", "registered", "aci",
                                "aci taken", "pni", "pni taken", "over"}]
    BY Zenon, <1>4 DEF ServerTakesPreKeys
  <2>2. enabled' \subseteq {"sms", "login"} /\ UNCHANGED <<screen, page, sms>>
    BY Zenon, <1>4 DEF ServerTakesPreKeys
  <2>3. UNCHANGED <<account, creds, keys, files, mine>>
    BY Zenon, <1>4 DEF ServerTakesPreKeys
  <2>4. uploadedKeys' \in [Identities -> Attempts \cup {None}]
    <3>1. uploadedKeys' = uploadedKeys \/ uploadedKeys' = [uploadedKeys EXCEPT ![i] = a]
      BY Zenon, <1>4 DEF ServerTakesPreKeys
    <3> QED
      BY Zenon, <3>1
  <2> QED
    BY ZenonT(60), <2>1, <2>2, <2>3, <2>4
<1>5. CASE PreKeysAnswer(a)
  <2>1. call' \in [Attempts -> {"new", "verify", "register", "registered", "aci",
                                "aci taken", "pni", "pni taken", "over"}]
    BY Zenon, <1>5 DEF PreKeysAnswer
  <2>2. /\ enabled' \subseteq {"sms", "login"} /\ screen' \in {screen, "setup"}
        /\ UNCHANGED <<page, sms, account, uploadedKeys, creds, keys, files, mine>>
    BY Zenon, <1>5 DEF PreKeysAnswer
  <2> QED
    BY ZenonT(60), <2>1, <2>2
<1> QED
  BY Zenon, <1>1, <1>2, <1>3, <1>4, <1>5 DEF AttemptStep

\* A step of an attempt keeps the invariant of the login screen.
LEMMA AttemptLogin ==
  ASSUME LoginInv, NEW a \in Attempts, AttemptStep(a)
  PROVE  ButtonGuards' /\ OneAtATime' /\ NeverStuck'
<1>1. CASE VerifyAnswer(a)
  BY Zenon, <1>1, GoesLogin, FailLogin DEF VerifyAnswer, UnderWay
<1>2. CASE ServerRegisters(a)
  BY Zenon, <1>2, GoesLogin, FailLogin DEF ServerRegisters, UnderWay
<1>3. CASE RegisterAnswer(a)
  BY Zenon, <1>3, GoesLogin, FailLogin DEF RegisterAnswer, UnderWay
<1>4. ASSUME NEW i \in Identities, ServerTakesPreKeys(a, i)
      PROVE  ButtonGuards' /\ OneAtATime' /\ NeverStuck'
  BY Zenon, <1>4, GoesLogin, FailLogin DEF ServerTakesPreKeys, UnderWay, Identities
<1>5. CASE PreKeysAnswer(a)
  <2>1. CASE call[a] = "aci taken" /\ Goes(a, "pni")
    BY Zenon, <1>5, <2>1, GoesLogin DEF PreKeysAnswer, UnderWay
  <2>2. CASE call[a] \in {"aci taken", "pni taken"} /\ Fail(a)
    BY Zenon, <1>5, <2>2, FailLogin DEF PreKeysAnswer, UnderWay
  <2>3. CASE /\ call[a] = "pni taken"
             /\ call' = [call EXCEPT ![a] = "over"]
             /\ screen' = "setup"
             /\ UNCHANGED <<page, enabled, sms, smsFailed>>
    <3>1. ~UnderWay(a)' /\ \A b \in Attempts \ {a} : UnderWay(b)' <=> UnderWay(b)
      BY Zenon, <2>3 DEF LoginInv, RegistrationTypeOK, UnderWay
    <3>2. UNCHANGED mine /\ mine \subseteq Attempts
      BY Zenon, <1>5 DEF PreKeysAnswer, LoginInv, RegistrationTypeOK
    <3>3. a \in mine => UnderWay(a) /\ "login" \notin enabled
      BY Zenon, <2>3 DEF LoginInv, ButtonGuards, UnderWay
    <3> QED
      BY Zenon, <2>3, <3>1, <3>2, <3>3 DEF LoginInv, ButtonGuards, OneAtATime, NeverStuck
  <2> QED
    BY Zenon, <1>5, <2>1, <2>2, <2>3 DEF PreKeysAnswer
<1> QED
  BY Zenon, <1>1, <1>2, <1>3, <1>4, <1>5 DEF AttemptStep

\* A step of the activities, the process or the request for a code keeps it too.
LEMMA ScreenLogin ==
  ASSUME LoginInv,
         \/ Launch \/ Leave \/ Flush \/ ProcessDies \/ SaveProfile
         \/ RequestSms \/ SessionAnswer \/ SmsAnswer \/ CaptchaAnswer
  PROVE  LoginInv'
<1> USE DEF LoginInv, RegistrationTypeOK, ButtonGuards, OneAtATime, NeverStuck, UnderWay,
            server, stored, login, FreshLogin
<1>1. CASE Launch \/ Leave
  BY Zenon, <1>1 DEF Launch, Leave
<1>2. CASE Flush
  <2>1. \/ files' = [files EXCEPT !.creds = creds]
        \/ files' = [files EXCEPT !.keys = keys]
    BY Zenon, <1>2 DEF Flush
  <2>2. files' \in [creds : Attempts \cup {None}, keys : Attempts \cup {None}]
    BY Zenon, <2>1
  <2>3. UNCHANGED <<account, uploadedKeys, creds, keys, screen, page, enabled, sms, smsFailed,
                    call, mine>>
    BY Zenon, <1>2 DEF Flush
  <2> QED
    BY ZenonT(60), <2>2, <2>3
<1>3. CASE ProcessDies
  BY Zenon, <1>3 DEF ProcessDies
<1>4. CASE SaveProfile
  BY Zenon, <1>4 DEF SaveProfile
<1>5. CASE RequestSms
  BY Zenon, <1>5 DEF RequestSms
<1>6. CASE SessionAnswer
  BY ZenonT(60), <1>6 DEF SessionAnswer, SessionRefused
<1>7. CASE SmsAnswer
  <2>1. CASE sms' = "idle" /\ page' = "code" /\ UNCHANGED smsFailed
    BY ZenonT(60), <1>7, <2>1 DEF SmsAnswer
  <2>2. CASE sms' = "captcha" /\ UNCHANGED <<page, smsFailed>>
    BY ZenonT(60), <1>7, <2>2 DEF SmsAnswer
  <2>3. CASE sms' = "idle" /\ smsFailed' = TRUE /\ UNCHANGED page
    BY ZenonT(60), <1>7, <2>3 DEF SmsAnswer
  <2> QED
    BY Zenon, <1>7, <2>1, <2>2, <2>3 DEF SmsAnswer
<1>8. CASE CaptchaAnswer
  BY ZenonT(60), <1>8 DEF CaptchaAnswer
<1> QED
  BY Zenon, <1>1, <1>2, <1>3, <1>4, <1>5, <1>6, <1>7, <1>8

LEMMA ClickLoginInv ==
  ASSUME LoginInv, NEW a \in Attempts, ClickLogin(a)
  PROVE  LoginInv'
<1>1. UnderWay(a)' /\ \A b \in Attempts \ {a} : UnderWay(b)' <=> UnderWay(b)
  BY Zenon DEF ClickLogin, LoginInv, RegistrationTypeOK, UnderWay
<1>2. mine \subseteq Attempts /\ \A b \in mine : ~UnderWay(b)
  BY Zenon DEF ClickLogin, LoginInv, RegistrationTypeOK, ButtonGuards
<1>3. RegistrationTypeOK'
  BY Zenon DEF ClickLogin, LoginInv, RegistrationTypeOK, server, stored
<1> QED
  BY Zenon, <1>1, <1>2, <1>3 DEF ClickLogin, LoginInv, ButtonGuards, OneAtATime, NeverStuck

LEMMA LoginNext == LoginInv /\ [RegistrationNext]_registrationVars => LoginInv'
<1> SUFFICES ASSUME LoginInv, [RegistrationNext]_registrationVars PROVE LoginInv'
  BY Zenon
<1>1. ASSUME NEW a \in Attempts, AttemptStep(a) PROVE LoginInv'
  BY Zenon, <1>1, AttemptTypes, AttemptLogin DEF LoginInv
<1>2. CASE UNCHANGED registrationVars
  <2>1. UNCHANGED <<account, uploadedKeys, creds, keys, files, screen, page, enabled, sms,
                    smsFailed, call, mine>>
    BY Zenon, <1>2 DEF registrationVars, server, stored, login
  <2>2. RegistrationTypeOK'
    BY Zenon, <2>1 DEF LoginInv, RegistrationTypeOK
  <2> QED
    BY Zenon, <2>1, <2>2 DEF LoginInv, ButtonGuards, OneAtATime, NeverStuck, UnderWay
<1> QED
  BY Zenon, <1>1, <1>2, ScreenLogin, ClickLoginInv DEF RegistrationNext

-----------------------------------------------------------------------------
(* The account *)

\* Without an attempt at its answer or its prekeys, the saved things are the
\* account's; this restates Settled for one attempt a, the others standing still.
LEMMA SettledByOne ==
  ASSUME NEW a \in Attempts, \A b \in Attempts \ {a} : ~UnderWay(b)',
         call'[a] \in Registered => account' = a,
         call'[a] # "registered" => creds' = account' /\ keys' = account',
         call'[a] = "registered" => \A i \in Identities : uploadedKeys'[i] = None,
         \A i \in Identities : uploadedKeys'[i] # None => uploadedKeys'[i] = keys',
         call'[a] \in {"aci taken", "pni", "pni taken"} => uploadedKeys'["aci"] = a,
         call'[a] = "pni taken" => uploadedKeys'["pni"] = a
  PROVE  Settled'
<1>1. \A b \in Attempts \ {a} : call'[b] \in {"new", "over"}
  BY Zenon DEF UnderWay
<1>2. \A b, c \in Attempts : UnderWay(b)' /\ UnderWay(c)' => b = c
  BY Zenon
<1> QED
  BY Zenon, <1>1, <1>2 DEF Settled, Registered

\* A step of an attempt; when it fails after the server registered it, the
\* history takes note.
LEMMA AttemptSettled ==
  ASSUME LoginInv, Settled, NEW a \in Attempts, AttemptStep(a), ~unsure'
  PROVE  Settled'
<1>1. UnderWay(a) /\ \A b \in Attempts \ {a} : ~UnderWay(b)
  <2>1. UnderWay(a)
    BY Zenon DEF AttemptStep, VerifyAnswer, ServerRegisters, RegisterAnswer, ServerTakesPreKeys,
           PreKeysAnswer, UnderWay, Identities
  <2> QED
    BY Zenon, <2>1 DEF Settled
<1>2. \A b \in Attempts \ {a} : ~UnderWay(b)'
  <2>1. \E w : call' = [call EXCEPT ![a] = w]
    BY Zenon DEF AttemptStep, VerifyAnswer, ServerRegisters, RegisterAnswer, ServerTakesPreKeys,
           PreKeysAnswer, Goes, Fail
  <2> QED
    BY Zenon, <1>1, <2>1 DEF UnderWay, LoginInv, RegistrationTypeOK
<1>3. /\ call[a] \in Registered => account = a
      /\ call[a] # "registered" => creds = account /\ keys = account
      /\ call[a] = "registered" => \A i \in Identities : uploadedKeys[i] = None
      /\ \A i \in Identities : uploadedKeys[i] # None => uploadedKeys[i] = keys
      /\ call[a] \in {"aci taken", "pni", "pni taken"} => uploadedKeys["aci"] = a
      /\ call[a] = "pni taken" => uploadedKeys["pni"] = a
  <2>1. call[a] # "registered" => \A b \in Attempts : call[b] # "registered"
    BY Zenon, <1>1 DEF UnderWay
  <2> QED
    BY Zenon, <2>1 DEF Settled
<1> USE DEF Goes, Fail, server, stored, Registered
<1>4. call \in [Attempts -> {"new", "verify", "register", "registered", "aci", "aci taken",
                             "pni", "pni taken", "over"}]
  BY Zenon DEF LoginInv, RegistrationTypeOK
<1>5. CASE VerifyAnswer(a)
  BY Zenon, <1>2, <1>3, <1>4, <1>5, SettledByOne DEF VerifyAnswer
<1>6. CASE ServerRegisters(a)
  BY Zenon, <1>2, <1>3, <1>4, <1>6, SettledByOne DEF ServerRegisters, Identities
<1>7. CASE RegisterAnswer(a)
  BY Zenon, <1>2, <1>3, <1>4, <1>7, SettledByOne DEF RegisterAnswer, SaveCredentials
<1>8. ASSUME NEW i \in Identities, ServerTakesPreKeys(a, i) PROVE Settled'
  <2>1. call[a] = i /\ UNCHANGED <<account, creds, keys>>
    BY Zenon, <1>8 DEF ServerTakesPreKeys
  <2>2. CASE Fail(a) /\ UNCHANGED uploadedKeys
    BY Zenon, <1>2, <1>3, <1>4, <2>1, <2>2, SettledByOne DEF Identities
  <2>3. CASE /\ uploadedKeys' = [uploadedKeys EXCEPT ![i] = a]
             /\ Goes(a, IF i = "aci" THEN "aci taken" ELSE "pni taken")
    <3>1. account = a /\ keys = a /\ creds = a
      BY Zenon, <1>3, <2>1 DEF Identities
    <3>2. uploadedKeys'[i] = a /\ \A j \in Identities \ {i} : uploadedKeys'[j] = uploadedKeys[j]
      BY Zenon, <2>3 DEF LoginInv, RegistrationTypeOK
    <3>3. \A j \in Identities : uploadedKeys'[j] # None => uploadedKeys'[j] = keys'
      BY Zenon, <1>3, <2>1, <3>1, <3>2
    <3>4. CASE i = "aci"
      <4>1. call'[a] = "aci taken"
        BY Zenon, <1>4, <2>3, <3>4
      <4> QED
        BY Zenon, <1>2, <2>1, <3>1, <3>2, <3>3, <3>4, <4>1, SettledByOne
    <3>5. CASE i = "pni"
      <4>1. call'[a] = "pni taken"
        BY Zenon, <1>4, <2>3, <3>5
      <4>2. uploadedKeys'["aci"] = a
        BY Zenon, <1>3, <2>1, <3>2, <3>5 DEF Identities
      <4> QED
        BY Zenon, <1>2, <2>1, <3>1, <3>2, <3>3, <3>5, <4>1, <4>2, SettledByOne
    <3> QED
      BY Zenon, <3>4, <3>5 DEF Identities
  <2> QED
    BY Zenon, <1>8, <2>2, <2>3 DEF ServerTakesPreKeys
<1>9. CASE PreKeysAnswer(a)
  BY Zenon, <1>2, <1>3, <1>4, <1>9, SettledByOne DEF PreKeysAnswer
<1> QED
  BY Zenon, <1>5, <1>6, <1>7, <1>8, <1>9 DEF AttemptStep

\* The history only ever goes from sure to unsure.
LEMMA UnsureStays ==
  RegistrationTypeOK /\ [RegistrationNext]_registrationVars /\ ~unsure' => ~unsure
BY Zenon DEF RegistrationNext, registrationVars, server, stored, login, Launch, Leave, Flush, ProcessDies, RequestSms,
       SessionAnswer, SmsAnswer, CaptchaAnswer, ClickLogin, SaveProfile, AttemptStep,
       VerifyAnswer, ServerRegisters, RegisterAnswer, ServerTakesPreKeys, PreKeysAnswer

\* A press of the button, while no other attempt is under way.
LEMMA ClickLoginSettled ==
  ASSUME LoginInv, Settled, NEW a \in Attempts, ClickLogin(a), ~unsure'
  PROVE  Settled'
<1>1. \A b \in Attempts : ~UnderWay(b)
  BY Zenon DEF ClickLogin, LoginInv, ButtonGuards
<1>2. /\ call'[a] = "verify" /\ \A b \in Attempts \ {a} : ~UnderWay(b)'
      /\ UNCHANGED <<account, uploadedKeys, creds, keys>>
  BY Zenon, <1>1 DEF ClickLogin, LoginInv, RegistrationTypeOK, UnderWay, server, stored
<1>3. /\ creds = account /\ keys = account
      /\ \A i \in Identities : uploadedKeys[i] # None => uploadedKeys[i] = keys
  BY Zenon, <1>1 DEF Settled, UnderWay
<1> QED
  BY Zenon, <1>2, <1>3, SettledByOne DEF Registered

LEMMA SettledNext ==
  RegistrationInv /\ [RegistrationNext]_registrationVars => (~unsure' => Settled')
<1> SUFFICES ASSUME RegistrationInv, [RegistrationNext]_registrationVars, ~unsure'
             PROVE  Settled'
  BY Zenon
<1>1. LoginInv /\ Settled
  BY Zenon, UnsureStays DEF RegistrationInv, LoginInv
<1>2. CASE ProcessDies
  <2>1. \A b \in Attempts : ~UnderWay(b)' /\ call'[b] \in {"new", "over"}
    BY Zenon, <1>2 DEF ProcessDies, UnderWay
  <2>2. /\ files = [creds |-> creds, keys |-> keys]
        /\ \A b \in Attempts : call[b] # "registered"
    BY Zenon, <1>2 DEF ProcessDies
  <2>3. UNCHANGED <<account, uploadedKeys, creds, keys>>
    BY Zenon, <1>2, <2>2 DEF ProcessDies, server
  <2> QED
    BY Zenon, <1>1, <2>1, <2>2, <2>3 DEF Settled, Registered
<1>3. CASE \/ Launch \/ Leave \/ Flush \/ SaveProfile \/ RequestSms \/ SessionAnswer
           \/ SmsAnswer \/ CaptchaAnswer \/ UNCHANGED registrationVars
  <2>1. UNCHANGED <<account, uploadedKeys, creds, keys, call>>
    BY Zenon, <1>3 DEF Launch, Leave, Flush, SaveProfile, RequestSms, SessionAnswer, SmsAnswer,
                CaptchaAnswer, registrationVars, server, stored
  <2> QED
    BY Zenon, <1>1, <2>1 DEF Settled, UnderWay
<1> QED
  BY Zenon, <1>1, <1>2, <1>3, ClickLoginSettled, AttemptSettled DEF RegistrationNext

-----------------------------------------------------------------------------
\* The invariant holds in every reachable state, however attempts are made.
LEMMA RegistrationInvariance == RegistrationSpec => []RegistrationInv
<1>1. RegistrationInit => RegistrationInv
  BY DEF RegistrationInit, RegistrationInv, LoginInv, RegistrationTypeOK, ButtonGuards,
         OneAtATime, NeverStuck, Settled, Registered, UnderWay, Identities
<1>2. RegistrationInv /\ [RegistrationNext]_registrationVars => RegistrationInv'
  BY Zenon, LoginNext, SettledNext DEF RegistrationInv
<1> QED
  BY <1>1, <1>2, PTL DEF RegistrationSpec

\* The fields of the screen, the store and the server keep their types.
THEOREM RegistrationTypes == RegistrationSpec => []RegistrationTypeOK
<1>1. RegistrationInv => RegistrationTypeOK
  BY Zenon DEF RegistrationInv, LoginInv
<1> QED
  BY <1>1, RegistrationInvariance, PTL

\* btnLogin lets one registration run at a time, for any number of presses,
\* failures and restarts.
THEOREM AttemptsTakeTurns == RegistrationSpec => []OneAtATime
<1>1. RegistrationInv => OneAtATime
  BY Zenon DEF RegistrationInv, LoginInv
<1> QED
  BY <1>1, RegistrationInvariance, PTL

\* Every error path of the login screen but the one of requestSms enables the
\* button again.
THEOREM LoginNeverStuck == RegistrationSpec => []NeverStuck
<1>1. RegistrationInv => NeverStuck
  BY Zenon DEF RegistrationInv, LoginInv
<1> QED
  BY <1>1, RegistrationInvariance, PTL

\* saveCredentials and the key store hold what the server has, unless attempts
\* overlapped or an answer or a file got lost.
THEOREM CredentialsStayCurrent == RegistrationSpec => []CredentialsAreCurrent
<1>1. RegistrationInv => CredentialsAreCurrent
  BY Zenon DEF RegistrationInv, Settled, CredentialsAreCurrent
<1> QED
  BY <1>1, RegistrationInvariance, PTL

\* The prekeys uploadPreKeys gave the server are saved on the phone.
THEOREM PreKeysStayOurs == RegistrationSpec => []PreKeysAreOurs
<1>1. RegistrationInv => PreKeysAreOurs
  BY Zenon DEF RegistrationInv, Settled, PreKeysAreOurs
<1> QED
  BY <1>1, RegistrationInvariance, PTL

\* The set-up screen opens only after both uploads of prekeys.
THEOREM SetupComesLast == RegistrationSpec => SetupHasPreKeys
<1> DEFINE Uploaded == screen' = "setup" /\ screen # "setup" =>
                         unsure \/ \A i \in Identities : uploadedKeys[i] = account
<1>1. RegistrationInv /\ [RegistrationNext]_registrationVars => [Uploaded]_registrationVars
  <2> SUFFICES ASSUME RegistrationInv, RegistrationNext, screen' = "setup", screen # "setup", ~unsure
               PROVE  \A i \in Identities : uploadedKeys[i] = account
    BY Zenon
  <2>1. PICK a \in Attempts : PreKeysAnswer(a) /\ call[a] = "pni taken"
    BY Zenon DEF RegistrationNext, Launch, Leave, Flush, ProcessDies, RequestSms, SessionAnswer,
           SmsAnswer, CaptchaAnswer, ClickLogin, SaveProfile, AttemptStep, VerifyAnswer,
           ServerRegisters, RegisterAnswer, ServerTakesPreKeys, PreKeysAnswer, Goes, Fail, login
  <2> QED
    BY Zenon, <2>1 DEF RegistrationInv, Settled, Registered, Identities
<1> QED
  BY <1>1, RegistrationInvariance, PTL DEF RegistrationSpec, SetupHasPreKeys

-----------------------------------------------------------------------------
(* Contacts *)

Rows == [name : BOOLEAN, key : BOOLEAN, avatar : BOOLEAN]
Stages == {"idle", "request", "saved", "download"}

\* A coroutine that has saved a profile finds the row again.
ProfileInv ==
  /\ profile \in [name : BOOLEAN, avatar : BOOLEAN]
  /\ contact \in {NoContact} \cup Rows
  /\ fetch \in [Fetches -> Stages]
  /\ \A f \in Fetches : fetch[f] \in {"saved", "download"} => contact \in Rows
  /\ failed \in BOOLEAN
  /\ contact # NoContact /\ ~contact.avatar
       => failed \/ \E f \in Fetches : fetch[f] \in {"saved", "download"}

\* The signal: whoever has still to take the buffered value is subscribed.
FlowInv ==
  /\ at \in [Listeners -> {"off", "first", "gap", "waiting", "taken"}]
  /\ pending \subseteq Subscribed
  /\ toCome \in 0 .. MaxChanges

LEMMA Launched ==
  ASSUME fetch \in [Fetches -> Stages], FetchAndSaveProfile \/ UNCHANGED fetch
  PROVE  /\ fetch' \in [Fetches -> Stages]
         /\ \A f \in Fetches : fetch'[f] \in {"saved", "download"} <=> fetch[f] \in {"saved", "download"}
BY Zenon DEF FetchAndSaveProfile, Stages

LEMMA ProfileNext == ProfileInv /\ [ContactsNext]_contactsVars => ProfileInv'
<1> SUFFICES ASSUME ProfileInv, [ContactsNext]_contactsVars PROVE ProfileInv'
  BY Zenon
<1> USE DEF database, flows, tasks
<1>0. fetch \in [Fetches -> Stages] /\ failed \in BOOLEAN
  BY Zenon DEF ProfileInv
<1>1. ASSUME UNCHANGED <<profile, contact, failed>>, FetchAndSaveProfile \/ UNCHANGED fetch
      PROVE  ProfileInv'
  BY Zenon, <1>0, <1>1, Launched DEF ProfileInv
<1>2. CASE Handler \/ SetContactName \/ UNCHANGED contactsVars
  <2>1. UNCHANGED <<profile, contact, failed>> /\ (FetchAndSaveProfile \/ UNCHANGED fetch)
    BY Zenon, <1>2 DEF Handler, OnMessage, HandleProfileKey, StoreMessage, SetContactName, contactsVars
  <2> QED
    BY Zenon, <1>1, <2>1
<1>3. ASSUME NEW l \in Listeners, LaunchCollection(l) \/ Flow(l) \/ CloseScreen(l) PROVE ProfileInv'
  <2>1. UNCHANGED <<profile, contact, failed>> /\ (FetchAndSaveProfile \/ UNCHANGED fetch)
    BY Zenon, <1>3 DEF LaunchCollection, Flow, Query, Subscribe, Take, CloseScreen
  <2> QED
    BY Zenon, <1>1, <2>1
<1>4. ASSUME NEW f \in Fetches, GetProfile(f) PROVE ProfileInv'
  <2>1. CASE SaveContact /\ Fetching(f, "saved")
    <3>1. contact' \in Rows
      BY Zenon, <2>1 DEF SaveContact, ProfileInv, Rows
    <3>2. fetch' \in [Fetches -> Stages] /\ fetch'[f] = "saved"
      BY Zenon, <1>0, <2>1 DEF Fetching, Stages
    <3> QED
      BY Zenon, <1>4, <3>1, <3>2 DEF GetProfile, ProfileInv
  <2>2. CASE Fetching(f, "idle") /\ UNCHANGED contact
    <3>1. /\ fetch' \in [Fetches -> Stages]
          /\ \A g \in Fetches : fetch'[g] \in {"saved", "download"} <=> fetch[g] \in {"saved", "download"}
      BY Zenon, <1>0, <1>4, <2>2 DEF GetProfile, Fetching, Stages
    <3> QED
      BY Zenon, <1>4, <2>2, <3>1 DEF GetProfile, ProfileInv
  <2> QED
    BY Zenon, <1>4, <2>1, <2>2 DEF GetProfile
<1>5. ASSUME NEW f \in Fetches, RenameThread(f) PROVE ProfileInv'
  <2>1. /\ fetch' \in [Fetches -> Stages]
        /\ \A g \in Fetches : fetch'[g] \in {"saved", "download"} <=> fetch[g] \in {"saved", "download"}
    BY Zenon, <1>0, <1>5 DEF RenameThread, Fetching, Stages
  <2> QED
    BY Zenon, <1>5, <2>1 DEF RenameThread, ProfileInv
<1>6. ASSUME NEW f \in Fetches, Download(f) PROVE ProfileInv'
  <2>1. /\ fetch' \in [Fetches -> Stages]
        /\ \A g \in Fetches : fetch'[g] \in {"saved", "download"} => fetch[g] \in {"saved", "download"}
        /\ contact \in Rows
    BY Zenon, <1>0, <1>6 DEF Download, Fetching, Stages, ProfileInv
  <2>2. CASE SaveContactAvatar /\ failed' = FALSE
    <3>1. contact' \in Rows /\ contact'.avatar = TRUE
      BY Zenon, <2>1, <2>2 DEF SaveContactAvatar, Rows
    <3> QED
      BY Zenon, <1>6, <2>1, <2>2, <3>1 DEF Download, ProfileInv
  <2>3. CASE failed' = TRUE /\ UNCHANGED contact
    BY Zenon, <1>6, <2>1, <2>3 DEF Download, ProfileInv
  <2> QED
    BY Zenon, <1>6, <2>2, <2>3 DEF Download
<1>7. CASE ContactsProcessDies
  <2>1. fetch' \in [Fetches -> Stages] /\ \A f \in Fetches : fetch'[f] \notin {"saved", "download"}
    BY <1>7 DEF ContactsProcessDies, Stages
  <2>2. UNCHANGED <<profile, contact>> /\ failed' \in BOOLEAN
    BY Zenon, <1>7 DEF ContactsProcessDies
  <2>3. failed \/ (\E f \in Fetches : fetch[f] \in {"saved", "download"}) => failed'
    BY Zenon, <1>7 DEF ContactsProcessDies
  <2> QED
    BY Zenon, <2>1, <2>2, <2>3 DEF ProfileInv
<1> QED
  BY Zenon, <1>2, <1>3, <1>4, <1>5, <1>6, <1>7 DEF ContactsNext, FetchStep, Listeners

LEMMA Notified ==
  ASSUME FlowInv, NotifyDbChanged, UNCHANGED at
  PROVE  pending' \subseteq Subscribed'
BY Zenon DEF NotifyDbChanged, FlowInv, Subscribed

LEMMA FlowNext == FlowInv /\ [ContactsNext]_contactsVars => FlowInv'
<1> SUFFICES ASSUME FlowInv, [ContactsNext]_contactsVars PROVE FlowInv'
  BY Zenon
<1> USE DEF database, flows, tasks
<1>1. ASSUME UNCHANGED <<at, toCome>>, NotifyDbChanged \/ UNCHANGED pending
      PROVE  FlowInv'
  BY Zenon, <1>1, Notified DEF FlowInv, Subscribed
<1>2. CASE HandleProfileKey \/ StoreMessage \/ UNCHANGED contactsVars
  BY Zenon, <1>1, <1>2 DEF HandleProfileKey, StoreMessage, contactsVars
<1>3. CASE OnMessage \/ SetContactName
  <2>1. toCome' \in 0 .. MaxChanges
    BY <1>3, ContactsAssumption DEF ContactsAssumption, OnMessage, SetContactName, FlowInv
  <2>2. UNCHANGED at /\ (NotifyDbChanged \/ UNCHANGED pending)
    BY Zenon, <1>3 DEF OnMessage, SetContactName
  <2> QED
    BY Zenon, <2>1, <2>2, Notified DEF FlowInv, Subscribed
<1>4. ASSUME NEW f \in Fetches, FetchStep(f) PROVE FlowInv'
  BY Zenon, <1>1, <1>4 DEF FetchStep, GetProfile, RenameThread, Download, SaveContactAvatar
<1>5. ASSUME NEW l \in Listeners, LaunchCollection(l) \/ Flow(l) \/ CloseScreen(l) PROVE FlowInv'
  BY Zenon, <1>5 DEF LaunchCollection, Flow, Query, Subscribe, Take, CloseScreen, Go, FlowInv, Subscribed
<1>6. CASE ContactsProcessDies
  BY Zenon, <1>6 DEF ContactsProcessDies, FlowInv, Subscribed
<1> QED
  BY Zenon, <1>2, <1>3, <1>4, <1>5, <1>6 DEF ContactsNext, Handler, Listeners

LEMMA ContactsHold == ContactsSpec => [](ProfileInv /\ FlowInv)
<1>1. ContactsInit => ProfileInv
  BY Zenon DEF ContactsInit, ProfileInv, Stages, Rows
<1>2. ContactsInit => FlowInv
  BY ContactsAssumption DEF ContactsAssumption, ContactsInit, FlowInv
<1> QED
  BY <1>1, <1>2, ProfileNext, FlowNext, PTL DEF ContactsSpec

\* The value dbChangeSignal buffers is always one that a subscriber will take.
THEOREM ContactsTypes == ContactsSpec => []ContactsTypeOK
<1>1. ProfileInv /\ FlowInv => ContactsTypeOK
  BY Zenon DEF ProfileInv, FlowInv, ContactsTypeOK, Rows, Stages
<1> QED
  BY <1>1, ContactsHold, PTL

\* However many profile coroutines overlap, none leaves a contact without an
\* avatar unless the last download found none or the process died before it.
THEOREM AvatarsAreExplained == ContactsSpec => []MissingAvatarIsExplained
<1>1. ProfileInv => MissingAvatarIsExplained
  BY Zenon DEF ProfileInv, MissingAvatarIsExplained, HasKey, HasAvatar
<1> QED
  BY <1>1, ContactsHold, PTL

-----------------------------------------------------------------------------
(* Sending: MessageSender.  What is taken, stored and uploaded fits together,  *)
(* and two attempts are enough.                                                *)

\* Where a call has the devices of its attempt in hand, and one of them.
OnDevice == {"build", "load", "store", "id"}
Working == {"encrypt"} \cup OnDevice

\* How far a call has come, and what has happened to its message by then.
CallInv(c) ==
  /\ accepted[c] \in {0, 1}
  /\ accepted[c] = 1 => pc[c] \in {"accepted", "sent", "failed"}
  /\ c \in TextCalls => /\ pc[c] # "upload"
                        /\ pc[c] = "accepted" => accepted[c] = 1
                        /\ c \in rows => accepted[c] = 1
  /\ c \in ImageCalls => /\ pc[c] # "accepted"
                         /\ pc[c] \notin {"idle", "upload", "failed"} => c \in uploaded
                         /\ accepted[c] = 1 => c \in uploaded

ProgressInv == /\ pc \in [Calls -> Places]
               /\ DOMAIN accepted = Calls
               /\ \A c \in Calls : CallInv(c)

\* The counter, the lists and the device at each stage of a call.
StageInv(c) ==
  /\ pc[c] \in {"idle", "upload"} => attempt[c] = 0
  /\ pc[c] \in {"prekeys", "list"} \cup Working => attempt[c] > 0
  /\ pc[c] = "list" => attempt[c] = 1
  /\ pc[c] \in {"idle", "upload", "attempt", "prekeys", "list"} => DOMAIN push[c] = {}
  /\ pc[c] \notin Working => DOMAIN todo[c] = {}
  /\ IF pc[c] \in OnDevice THEN device[c] \in Devices ELSE device[c] = NoValue
  /\ pc[c] = "build" => device[c] \in DOMAIN todo[c] /\ todo[c][device[c]] # NoValue
  /\ pc[c] = "store" => loaded[c] # NoValue

\* The sessions with devices the recipient has are for their registration ids.
Clean == \A d \in DOMAIN sessions \cap DOMAIN registered : sessions[d] = registered[d]

\* The devices of an attempt: encrypted for, still to come, and the one between.
InHand(c) == DOMAIN push[c] \cup DOMAIN todo[c] \cup ({device[c]} \ {NoValue})

\* A first attempt uses, or is about to, every session that would be refused.
Covered(c) ==
  \A d \in DOMAIN sessions \cap DOMAIN registered :
    d \in InHand(c) \/ sessions[d] = registered[d]

\* Something will be sent to the primary device.
PrimaryInHand(c) ==
  \/ 1 \in DOMAIN push[c] \/ device[c] = 1
  \/ 1 \in DOMAIN todo[c] /\ (todo[c][1] # NoValue \/ 1 \in DOMAIN sessions)

\* A second attempt is for the devices the server knows.
Exact(c) == /\ InHand(c) = DOMAIN registered
            /\ \A d \in DOMAIN push[c] : push[c][d] = registered[d]
            /\ \A d \in DOMAIN todo[c] : todo[c][d] = registered[d]
            /\ pc[c] = "store" => loaded[c] = registered[device[c]]

AttemptInv(c) == /\ PrimaryInHand(c)
                 /\ attempt[c] = 1 => Covered(c)
                 /\ attempt[c] = 2 => Clean /\ Exact(c)

\* What two attempts rest on: what is left in the store after a refusal is clean,
\* and as long as nobody interferes, it stays so to the end of the second one.
RetryInv(c) ==
  c \notin disturbed =>
    /\ pc[c] # "failed"
    /\ pc[c] = "attempt" => attempt[c] < 2 /\ (attempt[c] = 1 => Clean)
    /\ pc[c] = "prekeys" /\ attempt[c] = 2 => Clean
    /\ pc[c] = "list" => 1 \in DOMAIN sessions
    /\ pc[c] \in Working => AttemptInv(c)
    /\ pc[c] \in {"load", "id"} => device[c] \in DOMAIN sessions
    /\ pc[c] = "refused" => attempt[c] = 1 /\ Covered(c)

SenderInv ==
  /\ SenderTypeOK /\ ProgressInv
  /\ 1 \in DOMAIN registered
  /\ \A c \in Calls : StageInv(c) /\ RetryInv(c)

-----------------------------------------------------------------------------
(* Messages, rows and uploads *)

\* A step of call c leaves the others alone.
LEMMA ProgressByOne ==
  ASSUME ProgressInv, NEW c \in Calls,
         NEW where \in Places,
         pc' = [pc EXCEPT ![c] = where],
         DOMAIN accepted' = Calls, uploaded \subseteq uploaded', rows' \subseteq rows \cup {c},
         \A o \in Calls \ {c} : accepted'[o] = accepted[o],
         CallInv(c)'
  PROVE  ProgressInv'
<1>1. ASSUME NEW o \in Calls \ {c} PROVE CallInv(o)'
  <2>1. CallInv(o) /\ pc'[o] = pc[o] /\ (o \in rows' => o \in rows)
    BY Zenon DEF ProgressInv
  <2> QED
    BY Zenon, <2>1 DEF CallInv
<1> QED
  BY Zenon, <1>1 DEF ProgressInv

\* An attempt goes on or fails, without anything taken, stored or uploaded.
LEMMA QuietProgress ==
  ASSUME ProgressInv, NEW c \in Calls, InProgress(c), pc[c] # "accepted",
         NEW where \in {"attempt", "prekeys", "list", "refused", "failed"} \cup Working,
         pc[c] = "upload" => where = "failed",
         pc' = [pc EXCEPT ![c] = where], UNCHANGED <<accepted, rows, uploaded>>
  PROVE  ProgressInv'
<1>1. CallInv(c) /\ pc'[c] = where
  BY Zenon DEF ProgressInv
<1>2. where \notin {"idle", "upload", "accepted", "sent"} /\ where \in Places
  BY DEF Working, OnDevice, Places
<1>3. accepted[c] = 0
  BY Zenon, <1>1 DEF InProgress, CallInv
<1>4. CallInv(c)'
  BY Zenon, <1>1, <1>2, <1>3 DEF CallInv, InProgress
<1> QED
  BY Zenon, <1>2, <1>4, ProgressByOne DEF ProgressInv

\* Counting the first time.
LEMMA CountOne ==
  ASSUME NEW f, NEW c \in DOMAIN f, f[c] = 0
  PROVE  LET g == [f EXCEPT ![c] = @ + 1] IN
         DOMAIN g = DOMAIN f /\ g[c] = 1 /\ \A o \in DOMAIN f \ {c} : g[o] = f[o]
OBVIOUS

LEMMA StartProgress ==
  ASSUME ProgressInv, NEW c \in Calls, ClickSend(c) \/ SendImageBytes(c)
  PROVE  ProgressInv'
<1>1. CallInv(c) /\ pc[c] = "idle" /\ accepted[c] = 0
  BY Zenon DEF ClickSend, SendImageBytes, ProgressInv, CallInv
<1>2. UNCHANGED <<accepted, uploaded, rows>>
  BY Zenon DEF ClickSend, SendImageBytes, results
<1>3. CASE ClickSend(c)
  <2>1. pc' = [pc EXCEPT ![c] = "attempt"] /\ c \in TextCalls
    BY Zenon, <1>3 DEF ClickSend, GoOn
  <2>2. CallInv(c)'
    BY Zenon, <1>1, <1>2, <2>1, SenderAssumption DEF SenderAssumption, ProgressInv, CallInv
  <2> QED
    BY Zenon, <1>2, <2>1, <2>2, ProgressByOne DEF ProgressInv, Places
<1>4. CASE SendImageBytes(c)
  <2>1. PICK where \in {"upload", "failed"} : pc' = [pc EXCEPT ![c] = where]
    BY Zenon, <1>4 DEF SendImageBytes, GoOn, FailCall, Return
  <2>2. c \in ImageCalls
    BY Zenon, <1>4 DEF SendImageBytes
  <2>3. CallInv(c)'
    BY Zenon, <1>1, <1>2, <2>1, <2>2, SenderAssumption DEF SenderAssumption, ProgressInv, CallInv
  <2> QED
    BY Zenon, <1>2, <2>1, <2>3, ProgressByOne DEF ProgressInv, Places
<1> QED
  BY Zenon, <1>3, <1>4

LEMMA SaveTextProgress ==
  ASSUME ProgressInv, NEW c \in Calls, SaveText(c)
  PROVE  ProgressInv'
<1>1. c \notin ImageCalls /\ accepted[c] = 1
  BY Zenon, SenderAssumption DEF SenderAssumption, SaveText, ProgressInv, CallInv
<1>2. /\ c \in TextCalls /\ pc' = [pc EXCEPT ![c] = "sent"]
      /\ rows' \subseteq rows \cup {c} /\ UNCHANGED <<accepted, uploaded>>
  BY Zenon DEF SaveText, InsertRow, GoOn
<1>3. CallInv(c)'
  BY Zenon, <1>1, <1>2 DEF ProgressInv, CallInv
<1> QED
  BY Zenon, <1>2, <1>3, ProgressByOne DEF ProgressInv, Places

LEMMA AcceptProgress ==
  ASSUME ProgressInv, NEW c \in Calls, ServerAccepts(c)
  PROVE  ProgressInv'
<1>1. CallInv(c) /\ pc[c] = "encrypt" /\ accepted[c] = 0
  BY Zenon DEF ServerAccepts, Sending, ProgressInv, CallInv
<1>2. PICK where \in {IF c \in TextCalls THEN "accepted" ELSE "sent", "failed"} :
        pc' = [pc EXCEPT ![c] = where]
  BY Zenon DEF ServerAccepts, Return, FailCall, GoOn
<1>3. accepted' = [accepted EXCEPT ![c] = @ + 1] /\ UNCHANGED <<rows, uploaded>>
  BY Zenon DEF ServerAccepts
<1>4. /\ accepted'[c] = 1 /\ DOMAIN accepted' = Calls
      /\ \A o \in Calls \ {c} : accepted'[o] = accepted[o]
  BY Zenon, <1>1, <1>3, CountOne DEF ProgressInv
<1>5. CallInv(c)'
  BY Zenon, <1>1, <1>2, <1>3, <1>4, SenderAssumption DEF SenderAssumption, ProgressInv, CallInv
<1> QED
  BY Zenon, <1>2, <1>3, <1>4, <1>5, ProgressByOne DEF ProgressInv, Places

LEMMA UploadProgress ==
  ASSUME ProgressInv, NEW c \in Calls, Upload(c)
  PROVE  ProgressInv'
<1>1. CallInv(c) /\ pc[c] = "upload" /\ UNCHANGED <<accepted, rows>>
  BY Zenon DEF Upload, ProgressInv
<1>2. CASE uploaded' = uploaded \cup {c} /\ GoOn(c, "attempt")
  <2>1. CallInv(c)'
    BY Zenon, <1>1, <1>2 DEF ProgressInv, CallInv, GoOn
  <2> QED
    BY Zenon, <1>1, <1>2, <2>1, ProgressByOne DEF ProgressInv, Places, GoOn
<1>3. CASE FailCall(c) /\ UNCHANGED uploaded
  BY Zenon, <1>1, <1>3, QuietProgress DEF InProgress, FailCall, Return, GoOn
<1> QED
  BY Zenon, <1>2, <1>3 DEF Upload

\* Where the steps of an attempt lead.
LEMMA CallProgress ==
  ASSUME ProgressInv, NEW c \in Calls, CallStep(c)
  PROVE  ProgressInv'
<1> DEFINE Onward == {"attempt", "prekeys", "list", "refused", "failed"} \cup Working
           Quiet == /\ pc[c] \notin {"idle", "upload", "accepted", "sent", "failed"}
                    /\ UNCHANGED <<accepted, rows, uploaded>>
                    /\ \/ \E where \in Onward : pc' = [pc EXCEPT ![c] = where]
                       \/ pc' = pc
<1>1. ASSUME Attempt(c) \/ GiveUp(c) \/ NoDevicesLeft(c) \/ GetPreKeys(c) \/ ListDevices(c)
      PROVE  Quiet
  <2>1. \E where \in {"prekeys", "list", "encrypt", "failed"} : pc' = [pc EXCEPT ![c] = where]
    BY Zenon, <1>1 DEF Attempt, GiveUp, NoDevicesLeft, GetPreKeys, ListDevices, Prepare, FailCall,
                Return, GoOn
  <2>2. pc[c] \in {"attempt", "prekeys", "list", "encrypt"} /\ UNCHANGED <<accepted, rows, uploaded>>
    BY Zenon, <1>1 DEF Attempt, GiveUp, NoDevicesLeft, GetPreKeys, ListDevices, results
  <2> QED
    BY Zenon, <2>1, <2>2 DEF Working
<1>2. ASSUME BuildSession(c) \/ EncryptLoads(c) \/ EncryptStores(c) \/ RegistrationId(c)
      PROVE  Quiet
  <2>1. \E where \in {"encrypt", "load", "store", "id", "failed"} : pc' = [pc EXCEPT ![c] = where]
    BY Zenon, <1>2 DEF BuildSession, EncryptLoads, EncryptStores, RegistrationId, FailCall, Return, GoOn
  <2>2. pc[c] \in {"build", "load", "store", "id"} /\ UNCHANGED <<accepted, rows, uploaded>>
    BY Zenon, <1>2 DEF BuildSession, EncryptLoads, EncryptStores, RegistrationId, results
  <2> QED
    BY Zenon, <2>1, <2>2 DEF Working, OnDevice
<1>3. ASSUME NEW d \in Devices, NextDevice(c, d) \/ DeleteSession(c, d) PROVE Quiet
  <2>1. \/ \E where \in {"attempt", "build", "load"} : pc' = [pc EXCEPT ![c] = where]
        \/ pc' = pc
    BY Zenon, <1>3 DEF NextDevice, DeleteSession, GoOn
  <2>2. pc[c] \in {"encrypt", "refused"} /\ UNCHANGED <<accepted, rows, uploaded>>
    BY Zenon, <1>3 DEF NextDevice, DeleteSession, results
  <2> QED
    BY Zenon, <2>1, <2>2 DEF Working, OnDevice
<1>4. ASSUME SendFails(c) \/ ServerRefuses(c)
      PROVE  Quiet
  <2>1. \E where \in {"refused", "failed"} : pc' = [pc EXCEPT ![c] = where]
    BY Zenon, <1>4 DEF SendFails, ServerRefuses, FailCall, Return, GoOn
  <2>2. pc[c] = "encrypt" /\ UNCHANGED <<accepted, rows, uploaded>>
    BY Zenon, <1>4 DEF SendFails, ServerRefuses, Sending, results
  <2> QED
    BY Zenon, <2>1, <2>2
<1>5. ASSUME Quiet PROVE ProgressInv'
  <2>1. CASE pc' = pc
    BY Zenon, <1>5, <2>1 DEF ProgressInv, CallInv
  <2>2. ASSUME NEW where \in Onward, pc' = [pc EXCEPT ![c] = where] PROVE ProgressInv'
    BY Zenon, <1>5, <2>2, QuietProgress DEF InProgress
  <2> QED
    BY Zenon, <1>5, <2>1, <2>2
<1> QED
  BY Zenon, <1>1, <1>2, <1>3, <1>4, <1>5, SaveTextProgress, UploadProgress, AcceptProgress
     DEF CallStep

\* Every step keeps messages, rows and uploads in line.
LEMMA ProgressNext == ProgressInv /\ [SenderNext]_senderVars => ProgressInv'
<1> SUFFICES ASSUME ProgressInv, [SenderNext]_senderVars PROVE ProgressInv'
  BY Zenon
<1>1. ASSUME NEW c \in Calls, ClickSend(c) \/ SendImageBytes(c) \/ CallStep(c)
      PROVE  ProgressInv'
  BY Zenon, <1>1, StartProgress, CallProgress
<1>2. CASE \/ DevicesChange \/ UNCHANGED senderVars \/ \E d \in Devices : SessionFromIncoming(d)
  <2>1. UNCHANGED <<pc, accepted, rows, uploaded>>
    BY Zenon, <1>2 DEF DevicesChange, SessionFromIncoming, senderVars, results
  <2> QED
    BY Zenon, <2>1 DEF ProgressInv, CallInv
<1> QED
  BY Zenon, <1>1, <1>2 DEF SenderNext

-----------------------------------------------------------------------------
(* Functions of some of the devices *)

LEMMA PartialMeans ==
  ASSUME NEW V, NEW f
  PROVE  f \in Partial(V) <=> /\ f = [d \in DOMAIN f |-> f[d]]
                              /\ DOMAIN f \subseteq Devices
                              /\ \A d \in DOMAIN f : f[d] \in V
<1>1. ASSUME f \in Partial(V)
      PROVE  f = [d \in DOMAIN f |-> f[d]] /\ DOMAIN f \subseteq Devices /\ \A d \in DOMAIN f : f[d] \in V
  <2>1. PICK S \in SUBSET Devices : f \in [S -> V]
    BY Zenon, <1>1 DEF Partial
  <2> QED
    BY Zenon, <2>1
<1>2. ASSUME f = [d \in DOMAIN f |-> f[d]], DOMAIN f \subseteq Devices, \A d \in DOMAIN f : f[d] \in V
      PROVE  f \in Partial(V)
  <2>1. f \in [DOMAIN f -> V]
    BY Zenon, <1>2
  <2> QED
    BY Zenon, <1>2, <2>1 DEF Partial
<1> QED
  BY Zenon, <1>1, <1>2

LEMMA NoDevicesPartial == ASSUME NEW V PROVE NoDevices \in Partial(V) /\ DOMAIN NoDevices = {}
BY Zenon, PartialMeans DEF NoDevices

\* Adding or replacing one device.
LEMMA WithPartial ==
  ASSUME NEW V, NEW f \in Partial(V), NEW d \in Devices, NEW v \in V
  PROVE  With(f, d, v) \in Partial(V)
<1>1. DOMAIN f \subseteq Devices /\ \A e \in DOMAIN f : f[e] \in V
  BY Zenon, PartialMeans
<1>2. With(f, d, v) \in [DOMAIN f \cup {d} -> V]
  BY Zenon, <1>1 DEF With
<1> QED
  BY Zenon, <1>1, <1>2 DEF Partial

\* Taking devices out.
LEMMA WithoutPartial ==
  ASSUME NEW V, NEW f \in Partial(V), NEW S
  PROVE  Without(f, S) \in Partial(V)
<1>1. DOMAIN f \subseteq Devices /\ \A e \in DOMAIN f : f[e] \in V
  BY Zenon, PartialMeans
<1>2. Without(f, S) \in [DOMAIN f \ S -> V]
  BY Zenon, <1>1 DEF Without
<1> QED
  BY Zenon, <1>1, <1>2 DEF Partial

-----------------------------------------------------------------------------
(* Types *)

\* A step of call c that ends it.
LEMMA ReturnTypes ==
  ASSUME SenderTypeOK, NEW c \in Calls, NEW outcome \in {"accepted", "sent", "failed"},
         Return(c, outcome)
  PROVE  /\ pc' \in [Calls -> Places]
         /\ attempt' \in [Calls -> 0 .. 2]
         /\ todo' \in [Calls -> Partial(Ids \cup {NoValue})]
         /\ device' \in [Calls -> Devices \cup {NoValue}]
         /\ loaded' \in [Calls -> Ids \cup {NoValue}]
         /\ push' \in [Calls -> Partial(Ids \cup {NoValue})]
<1>1. NoDevices \in Partial(Ids \cup {NoValue})
  BY Zenon, NoDevicesPartial
<1>2. /\ pc' = [pc EXCEPT ![c] = outcome]
      /\ attempt' = [attempt EXCEPT ![c] = 0]
      /\ todo' = [todo EXCEPT ![c] = NoDevices]
      /\ device' = [device EXCEPT ![c] = NoValue]
      /\ loaded' = [loaded EXCEPT ![c] = NoValue]
      /\ push' = [push EXCEPT ![c] = NoDevices]
  BY Zenon DEF Return, GoOn
<1>3. attempt' \in [Calls -> 0 .. 2]
  BY <1>2 DEF SenderTypeOK
<1>4. device' \in [Calls -> Devices \cup {NoValue}] /\ loaded' \in [Calls -> Ids \cup {NoValue}]
  BY Zenon, <1>2 DEF SenderTypeOK
<1> QED
  BY Zenon, <1>1, <1>2, <1>3, <1>4 DEF SenderTypeOK, Places

LEMMA FailTypes ==
  ASSUME SenderTypeOK, NEW c \in Calls, FailCall(c), UNCHANGED <<registered, sessions, results>>
  PROVE  SenderTypeOK'
BY Zenon, ReturnTypes DEF FailCall, SenderTypeOK, results

LEMMA StoreTypes ==
  ASSUME SenderTypeOK, NEW d \in Devices, NEW id \in Ids, NEW excused \in SUBSET Calls,
         StoreSession(d, id, excused)
  PROVE  sessions' \in Partial(Ids) /\ disturbed' \subseteq Calls
BY Zenon, WithPartial DEF StoreSession, SenderTypeOK

LEMMA PrepareTypes ==
  ASSUME SenderTypeOK, NEW c \in Calls, NEW devices \in Partial(Ids \cup {NoValue}),
         Prepare(c, devices), UNCHANGED <<registered, sessions, results>>
  PROVE  SenderTypeOK'
<1>1. CASE todo' = [todo EXCEPT ![c] = devices] /\ GoOn(c, "encrypt")
           /\ UNCHANGED <<attempt, deviceVars, push, disturbed>>
  <2>1. todo' \in [Calls -> Partial(Ids \cup {NoValue})] /\ pc' \in [Calls -> Places]
    BY Zenon, <1>1 DEF SenderTypeOK, GoOn, Places
  <2> QED
    BY Zenon, <1>1, <2>1 DEF SenderTypeOK, deviceVars, results
<1> QED
  BY Zenon, <1>1, FailTypes DEF Prepare

\* Starting a call, and what its attempts do between the devices.
LEMMA PreparationTypes ==
  ASSUME SenderTypeOK, NEW c \in Calls, CallInv(c),
         \/ ClickSend(c) \/ SendImageBytes(c) \/ SaveText(c) \/ Upload(c) \/ Attempt(c)
         \/ GiveUp(c) \/ NoDevicesLeft(c) \/ GetPreKeys(c) \/ ListDevices(c)
  PROVE  SenderTypeOK'
<1>1. CASE ClickSend(c)
  BY Zenon, <1>1 DEF ClickSend, SenderTypeOK, Places, GoOn, requestVars, deviceVars, results
<1>2. CASE SendImageBytes(c)
  <2>1. CASE GoOn(c, "upload") /\ UNCHANGED <<requestVars, disturbed>>
    BY Zenon, <1>2, <2>1 DEF SendImageBytes, SenderTypeOK, Places, GoOn, requestVars, deviceVars, results
  <2> QED
    BY Zenon, <1>2, <2>1, FailTypes DEF SendImageBytes
<1>3. CASE SaveText(c)
  <2>1. rows' \subseteq TextCalls /\ pc' \in [Calls -> Places]
    BY Zenon, <1>3 DEF SaveText, InsertRow, SenderTypeOK, Places, GoOn
  <2> QED
    BY Zenon, <1>3, <2>1 DEF SaveText, SenderTypeOK, requestVars, deviceVars
<1>4. CASE Upload(c)
  <2>1. c \in ImageCalls
    BY Zenon, <1>4 DEF Upload, CallInv, Calls
  <2>2. CASE uploaded' = uploaded \cup {c} /\ GoOn(c, "attempt") /\ UNCHANGED <<requestVars, disturbed>>
    BY Zenon, <1>4, <2>1, <2>2 DEF Upload, SenderTypeOK, Places, GoOn, requestVars, deviceVars
  <2>3. CASE FailCall(c) /\ UNCHANGED uploaded
    BY Zenon, <1>4, <2>3, FailTypes DEF Upload, results
  <2> QED
    BY Zenon, <1>4, <2>2, <2>3 DEF Upload
<1>5. CASE Attempt(c)
  <2>1. attempt' \in [Calls -> 0 .. 2]
    BY <1>5 DEF Attempt, MayRetry, SenderTypeOK
  <2>2. pc' \in [Calls -> Places]
    BY Zenon, <1>5 DEF Attempt, SenderTypeOK, Places, GoOn
  <2> QED
    BY Zenon, <1>5, <2>1, <2>2 DEF Attempt, SenderTypeOK, deviceVars, results
<1>6. CASE GiveUp(c) \/ NoDevicesLeft(c)
  BY Zenon, <1>6, ReturnTypes DEF GiveUp, NoDevicesLeft, SenderTypeOK, results
<1>7. CASE GetPreKeys(c)
  <2>1. registered \in Partial(Ids \cup {NoValue})
    BY PartialMeans DEF SenderTypeOK
  <2> QED
    BY Zenon, <1>7, <2>1, PrepareTypes DEF GetPreKeys
<1>8. CASE ListDevices(c)
  <2>1. SubDeviceSessions \subseteq Devices
    <3>1. DOMAIN sessions \subseteq Devices
      BY Zenon, PartialMeans DEF SenderTypeOK
    <3> QED
      BY Zenon, <3>1, SenderAssumption DEF SenderAssumption, SubDeviceSessions
  <2>2. [d \in SubDeviceSessions |-> NoValue] \in [SubDeviceSessions -> Ids \cup {NoValue}]
    BY Zenon
  <2>3. [d \in SubDeviceSessions |-> NoValue] \in Partial(Ids \cup {NoValue})
    BY Zenon, <2>1, <2>2 DEF Partial
  <2> QED
    BY Zenon, <1>8, <2>3, PrepareTypes DEF ListDevices
<1> QED
  BY Zenon, <1>1, <1>2, <1>3, <1>4, <1>5, <1>6, <1>7, <1>8

\* One device of an attempt.
LEMMA DeviceTypes ==
  ASSUME SenderTypeOK, NEW c \in Calls, StageInv(c),
         \/ \E d \in Devices : NextDevice(c, d) \/ DeleteSession(c, d)
         \/ BuildSession(c) \/ EncryptLoads(c) \/ EncryptStores(c) \/ RegistrationId(c)
  PROVE  SenderTypeOK'
<1> USE DEF results
<1>0. /\ todo[c] \in Partial(Ids \cup {NoValue}) /\ push[c] \in Partial(Ids \cup {NoValue})
      /\ \A d : Without(todo[c], {d}) \in Partial(Ids \cup {NoValue})
      /\ \A d : Without(push[c], {d}) \in Partial(Ids \cup {NoValue})
      /\ \A d : Without(sessions, {d}) \in Partial(Ids)
      /\ \A d \in DOMAIN sessions : sessions[d] \in Ids
      /\ \A d \in DOMAIN todo[c] : todo[c][d] \in Ids \cup {NoValue}
      /\ Others(c) \in SUBSET Calls
  BY Zenon, WithoutPartial, PartialMeans DEF SenderTypeOK, Others
<1>1. ASSUME NEW d \in Devices, NextDevice(c, d) PROVE SenderTypeOK'
  <2>1. todo' \in [Calls -> Partial(Ids \cup {NoValue})]
    BY Zenon, <1>0, <1>1 DEF NextDevice, SenderTypeOK
  <2>2. device' \in [Calls -> Devices \cup {NoValue}] /\ pc' \in [Calls -> Places]
    <3>1. \/ device' = device /\ pc' = pc
          \/ /\ device' = [device EXCEPT ![c] = d]
             /\ \E where \in {"load", "build"} : pc' = [pc EXCEPT ![c] = where]
      BY Zenon, <1>1 DEF NextDevice, GoOn
    <3> QED
      BY Zenon, <3>1 DEF SenderTypeOK, Places
  <2> QED
    BY Zenon, <1>1, <2>1, <2>2 DEF NextDevice, SenderTypeOK
<1>2. ASSUME NEW d \in Devices, DeleteSession(c, d) PROVE SenderTypeOK'
  <2>1. push' \in [Calls -> Partial(Ids \cup {NoValue})] /\ sessions' \in Partial(Ids)
    BY Zenon, <1>0, <1>2 DEF DeleteSession, SenderTypeOK
  <2>2. disturbed' \subseteq Calls /\ pc' \in [Calls -> Places]
    BY Zenon, <1>0, <1>2 DEF DeleteSession, SenderTypeOK, GoOn, Places
  <2> QED
    BY Zenon, <1>2, <2>1, <2>2 DEF DeleteSession, SenderTypeOK, deviceVars
<1>3. CASE BuildSession(c)
  <2>1. device[c] \in Devices /\ todo[c][device[c]] \in Ids
    BY Zenon, <1>0, <1>3 DEF BuildSession, StageInv, OnDevice
  <2>2. CASE /\ StoreSession(device[c], todo[c][device[c]], Others(c))
             /\ todo' = [todo EXCEPT ![c] = Without(@, {device[c]})]
             /\ GoOn(c, "load") /\ UNCHANGED <<attempt, deviceVars, push>>
    <3>1. sessions' \in Partial(Ids) /\ disturbed' \subseteq Calls
      BY Zenon, <1>0, <2>1, <2>2, StoreTypes
    <3>2. todo' \in [Calls -> Partial(Ids \cup {NoValue})] /\ pc' \in [Calls -> Places]
      BY Zenon, <1>0, <2>2 DEF SenderTypeOK, GoOn, Places
    <3> QED
      BY Zenon, <1>3, <2>2, <3>1, <3>2 DEF BuildSession, SenderTypeOK, deviceVars
  <2> QED
    BY Zenon, <1>3, <2>2, FailTypes DEF BuildSession
<1>4. CASE EncryptLoads(c)
  <2>1. CASE /\ device[c] \in DOMAIN sessions
             /\ loaded' = [loaded EXCEPT ![c] = sessions[device[c]]]
             /\ GoOn(c, "store") /\ UNCHANGED <<attempt, todo, device, push, disturbed>>
    <3>1. loaded' \in [Calls -> Ids \cup {NoValue}] /\ pc' \in [Calls -> Places]
      BY Zenon, <1>0, <2>1 DEF SenderTypeOK, GoOn, Places
    <3> QED
      BY Zenon, <1>4, <2>1, <3>1 DEF EncryptLoads, SenderTypeOK
  <2>2. CASE Return(c, "failed") /\ UNCHANGED disturbed
    BY Zenon, <1>4, <2>2, ReturnTypes DEF EncryptLoads, SenderTypeOK
  <2> QED
    BY Zenon, <1>4, <2>1, <2>2, FailTypes DEF EncryptLoads
<1>5. CASE EncryptStores(c)
  <2>1. device[c] \in Devices /\ loaded[c] \in Ids
    BY Zenon, <1>5 DEF EncryptStores, StageInv, OnDevice, SenderTypeOK
  <2>2. sessions' \in Partial(Ids) /\ disturbed' \subseteq Calls
    BY Zenon, <1>0, <1>5, <2>1, StoreTypes DEF EncryptStores
  <2>3. loaded' \in [Calls -> Ids \cup {NoValue}] /\ pc' \in [Calls -> Places]
    BY Zenon, <1>5 DEF EncryptStores, SenderTypeOK, GoOn, Places
  <2> QED
    BY Zenon, <1>5, <2>2, <2>3 DEF EncryptStores, SenderTypeOK
<1>6. CASE RegistrationId(c)
  <2>1. device[c] \in Devices
    BY Zenon, <1>6 DEF RegistrationId, StageInv, OnDevice
  <2>2. \A v \in Ids \cup {NoValue} : With(push[c], device[c], v) \in Partial(Ids \cup {NoValue})
    BY Zenon, <1>0, <2>1, WithPartial
  <2>3. push' \in [Calls -> Partial(Ids \cup {NoValue})]
    BY Zenon, <1>0, <1>6, <2>2 DEF RegistrationId, SenderTypeOK
  <2>4. device' \in [Calls -> Devices \cup {NoValue}] /\ pc' \in [Calls -> Places]
    BY Zenon, <1>6 DEF RegistrationId, SenderTypeOK, GoOn, Places
  <2> QED
    BY Zenon, <1>6, <2>3, <2>4 DEF RegistrationId, SenderTypeOK
<1> QED
  BY Zenon, <1>1, <1>2, <1>3, <1>4, <1>5, <1>6

LEMMA CallTypes ==
  ASSUME SenderTypeOK, NEW c \in Calls, CallInv(c), StageInv(c),
         ClickSend(c) \/ SendImageBytes(c) \/ CallStep(c)
  PROVE  SenderTypeOK'
<1>1. CASE SendFails(c)
  BY Zenon, <1>1, FailTypes DEF SendFails
<1>2. CASE ServerAccepts(c)
  <2>1. accepted' \in [Calls -> Nat]
    BY <1>2 DEF ServerAccepts, SenderTypeOK
  <2>2. \E outcome \in {"accepted", "sent", "failed"} : Return(c, outcome)
    BY Zenon, <1>2 DEF ServerAccepts, FailCall
  <2>3. disturbed' \subseteq Calls /\ UNCHANGED <<registered, sessions, uploaded, rows>>
    BY Zenon, <1>2 DEF ServerAccepts, FailCall, SenderTypeOK
  <2> QED
    BY Zenon, <2>1, <2>2, <2>3, ReturnTypes DEF SenderTypeOK
<1>3. CASE ServerRefuses(c)
  BY Zenon, <1>3 DEF ServerRefuses, SenderTypeOK, Places, GoOn, requestVars, deviceVars, results
<1> QED
  BY Zenon, <1>1, <1>2, <1>3, PreparationTypes, DeviceTypes DEF CallStep

-----------------------------------------------------------------------------
(* Two attempts are enough *)

\* The store only gained sessions the server will take.
Improved ==
  /\ UNCHANGED registered
  /\ DOMAIN sessions \subseteq DOMAIN sessions'
  /\ \A d \in DOMAIN sessions' \cap DOMAIN registered :
       \/ d \in DOMAIN sessions /\ sessions'[d] = sessions[d]
       \/ sessions'[d] = registered[d]

\* A call that does not move keeps its invariant if the store improves, and if
\* it does not, the call counts as disturbed.
LEMMA StandingRetry ==
  ASSUME NEW o \in Calls, StageInv(o), RetryInv(o),
         pc'[o] = pc[o], attempt'[o] = attempt[o], todo'[o] = todo[o], push'[o] = push[o],
         device'[o] = device[o], loaded'[o] = loaded[o],
         o \notin disturbed' => o \notin disturbed,
         InProgress(o) /\ o \notin disturbed' => Improved
  PROVE  StageInv(o)' /\ RetryInv(o)'
<1>1. StageInv(o)'
  BY Zenon DEF StageInv
<1>2. CASE o \in disturbed' \/ ~InProgress(o)
  BY Zenon, <1>1, <1>2 DEF RetryInv, InProgress, Working, OnDevice
<1>3. CASE o \notin disturbed' /\ InProgress(o)
  <2>1. Improved /\ o \notin disturbed
    BY Zenon, <1>3
  <2>2. Clean => Clean'
    BY Zenon, <2>1 DEF Improved, Clean
  <2>3. InHand(o)' = InHand(o)
    BY Zenon DEF InHand
  <2>4. Covered(o) => Covered(o)'
    BY Zenon, <2>1, <2>3 DEF Improved, Covered
  <2>5. PrimaryInHand(o) => PrimaryInHand(o)'
    BY Zenon, <2>1 DEF Improved, PrimaryInHand
  <2>6. Exact(o) => Exact(o)'
    BY Zenon, <2>1, <2>3 DEF Improved, Exact
  <2>7. AttemptInv(o) => AttemptInv(o)'
    BY Zenon, <2>2, <2>4, <2>5, <2>6 DEF AttemptInv
  <2>8. \A d \in DOMAIN sessions : d \in DOMAIN sessions'
    BY Zenon, <2>1 DEF Improved
  <2> QED
    BY Zenon, <1>1, <2>1, <2>2, <2>4, <2>7, <2>8 DEF RetryInv
<1> QED
  BY Zenon, <1>1, <1>2, <1>3

\* A step that leaves the sessions and the server's devices alone.
LEMMA SameIsImproved == UNCHANGED <<registered, sessions>> => Improved
BY Zenon DEF Improved

\* A session that is stored improves the store, or disturbs the other calls.
LEMMA StoreImproves ==
  ASSUME NEW d, NEW id, NEW excused, StoreSession(d, id, excused), UNCHANGED registered
  PROVE  (Improved \/ excused \subseteq disturbed') /\ disturbed \subseteq disturbed'
<1>1. /\ DOMAIN sessions' = DOMAIN sessions \cup {d}
      /\ \A e \in DOMAIN sessions \ {d} : sessions'[e] = sessions[e]
      /\ sessions'[d] = id
  BY Zenon DEF StoreSession, With
<1>2. CASE Has(registered, d, id)
  BY Zenon, <1>1, <1>2 DEF StoreSession, Has, Improved
<1>3. CASE ~Has(registered, d, id)
  BY Zenon, <1>3 DEF StoreSession
<1> QED
  BY Zenon, <1>2, <1>3

\* What a step of call c may do to another call.
LEMMA CallFrame ==
  ASSUME SenderTypeOK, NEW c \in Calls, ClickSend(c) \/ SendImageBytes(c) \/ CallStep(c),
         NEW o \in Calls \ {c}
  PROVE  /\ pc'[o] = pc[o] /\ attempt'[o] = attempt[o]
         /\ todo'[o] = todo[o] /\ push'[o] = push[o]
         /\ device'[o] = device[o] /\ loaded'[o] = loaded[o]
         /\ o \notin disturbed' => o \notin disturbed
         /\ InProgress(o) /\ o \notin disturbed' => Improved
<1> DEFINE Same == /\ pc'[o] = pc[o] /\ attempt'[o] = attempt[o]
                   /\ todo'[o] = todo[o] /\ push'[o] = push[o]
                   /\ device'[o] = device[o] /\ loaded'[o] = loaded[o]
           Excused == /\ o \notin disturbed' => o \notin disturbed
                      /\ InProgress(o) /\ o \notin disturbed' => Improved
<1> USE DEF GoOn, requestVars, deviceVars
<1>0. ASSUME NEW where, Return(c, where) PROVE Same
  BY Zenon, <1>0 DEF Return, SenderTypeOK
<1>1. CASE ClickSend(c) \/ SendImageBytes(c) \/ SaveText(c)
  BY Zenon, <1>0, <1>1, SameIsImproved DEF ClickSend, SendImageBytes, SaveText, FailCall, SenderTypeOK
<1>2. CASE Upload(c) \/ Attempt(c) \/ GiveUp(c)
  BY Zenon, <1>0, <1>2, SameIsImproved DEF Upload, Attempt, GiveUp, FailCall, SenderTypeOK
<1>3. CASE GetPreKeys(c) \/ ListDevices(c)
  BY Zenon, <1>0, <1>3, SameIsImproved DEF GetPreKeys, ListDevices, Prepare, FailCall, SenderTypeOK
<1>4. CASE NoDevicesLeft(c) \/ SendFails(c) \/ ServerRefuses(c)
  BY Zenon, <1>0, <1>4, SameIsImproved DEF NoDevicesLeft, SendFails, ServerRefuses, FailCall, SenderTypeOK
<1>5. CASE ServerAccepts(c)
  BY Zenon, <1>0, <1>5, SameIsImproved DEF ServerAccepts, FailCall
<1>6. ASSUME NEW d \in Devices, NextDevice(c, d) PROVE Same /\ Excused
  BY Zenon, <1>6, SameIsImproved DEF NextDevice, SenderTypeOK
<1>7. ASSUME NEW d \in Devices, DeleteSession(c, d) PROVE Same /\ Excused
  <2>1. Same
    BY Zenon, <1>7 DEF DeleteSession, SenderTypeOK
  <2> QED
    BY Zenon, <1>7, <2>1 DEF DeleteSession, Others
<1>8. CASE BuildSession(c)
  <2>1. CASE FailCall(c) /\ UNCHANGED sessions
    BY Zenon, <1>0, <1>8, <2>1, SameIsImproved DEF BuildSession, FailCall
  <2>2. CASE /\ StoreSession(device[c], todo[c][device[c]], Others(c))
             /\ todo' = [todo EXCEPT ![c] = Without(@, {device[c]})]
             /\ GoOn(c, "load") /\ UNCHANGED <<attempt, deviceVars, push>>
    <3>1. Same /\ UNCHANGED registered
      BY Zenon, <1>8, <2>2 DEF BuildSession, SenderTypeOK
    <3> QED
      BY Zenon, <2>2, <3>1, StoreImproves DEF Others
  <2> QED
    BY Zenon, <1>8, <2>1, <2>2 DEF BuildSession
<1>9. CASE EncryptLoads(c)
  BY Zenon, <1>0, <1>9, SameIsImproved DEF EncryptLoads, FailCall, SenderTypeOK
<1>10. CASE EncryptStores(c)
  <2>1. Same /\ UNCHANGED registered
    BY Zenon, <1>10 DEF EncryptStores, SenderTypeOK
  <2> QED
    BY Zenon, <1>10, <2>1, StoreImproves DEF EncryptStores, Others
<1>11. CASE RegistrationId(c)
  BY Zenon, <1>11, SameIsImproved DEF RegistrationId, SenderTypeOK
<1> QED
  BY Zenon, <1>1, <1>2, <1>3, <1>4, <1>5, <1>6, <1>7, <1>8, <1>9, <1>10, <1>11 DEF CallStep

\* What an attempt that goes on has to show.
LEMMA WorkingRetry ==
  ASSUME NEW c \in Calls, pc'[c] \in Working, attempt'[c] > 0,
         IF pc'[c] \in OnDevice THEN device'[c] \in Devices ELSE device'[c] = NoValue,
         pc'[c] = "build" => device'[c] \in DOMAIN todo'[c] /\ todo'[c][device'[c]] # NoValue,
         pc'[c] = "store" => loaded'[c] # NoValue,
         c \notin disturbed' =>
           /\ AttemptInv(c)'
           /\ pc'[c] \in {"load", "id"} => device'[c] \in DOMAIN sessions'
  PROVE  StageInv(c)' /\ RetryInv(c)'
<1>1. pc'[c] \notin {"idle", "upload", "attempt", "prekeys", "list", "refused", "failed"}
  BY DEF Working, OnDevice
<1>2. StageInv(c)'
  BY Zenon, <1>1 DEF StageInv
<1>3. RetryInv(c)'
  BY Zenon, <1>1 DEF RetryInv
<1> QED
  BY Zenon, <1>2, <1>3

\* The next attempt: the sessions of the store, or the prekeys to come.
LEMMA AttemptRetry ==
  ASSUME SenderInv, NEW c \in Calls, Attempt(c)
  PROVE  StageInv(c)' /\ RetryInv(c)'
<1>0. StageInv(c) /\ RetryInv(c) /\ SenderTypeOK /\ pc[c] = "attempt"
  BY Zenon DEF SenderInv, Attempt
<1>1. /\ attempt[c] \in {0, 1} /\ attempt'[c] = attempt[c] + 1
      /\ UNCHANGED <<registered, sessions, disturbed, todo, device, push>>
  BY <1>0 DEF SenderTypeOK, Attempt, MayRetry, deviceVars
<1>2. DOMAIN push'[c] = {} /\ DOMAIN todo'[c] = {} /\ device'[c] = NoValue
  BY Zenon, <1>0, <1>1 DEF StageInv, Working, OnDevice
<1>3. CASE FetchesPreKeys(c)
  <2>1. pc'[c] = "prekeys" /\ (c \notin disturbed /\ attempt[c] = 1 => Clean)
    BY Zenon, <1>0, <1>3 DEF SenderTypeOK, Attempt, GoOn, RetryInv
  <2>2. Clean => Clean'
    BY Zenon, <1>1 DEF Clean
  <2>3. attempt'[c] > 0 /\ (attempt'[c] = 2 => attempt[c] = 1)
    BY <1>1
  <2>4. StageInv(c)'
    BY <1>2, <2>1, <2>3 DEF StageInv, Working, OnDevice
  <2>5. c \notin disturbed' /\ attempt'[c] = 2 => Clean'
    BY Zenon, <1>1, <2>1, <2>2, <2>3
  <2>6. RetryInv(c)'
    BY <2>1, <2>5 DEF RetryInv, Working, OnDevice
  <2> QED
    BY Zenon, <2>4, <2>6
<1>4. CASE ~FetchesPreKeys(c)
  <2>1. attempt'[c] = 1 /\ 1 \in DOMAIN sessions'
    BY <1>1, <1>4 DEF FetchesPreKeys
  <2>2. pc'[c] = "list"
    BY Zenon, <1>0, <1>4 DEF SenderTypeOK, Attempt, GoOn
  <2>3. StageInv(c)'
    BY <1>2, <2>1, <2>2 DEF StageInv, Working, OnDevice
  <2>4. RetryInv(c)'
    BY <2>1, <2>2 DEF RetryInv, Working, OnDevice
  <2> QED
    BY Zenon, <2>3, <2>4
<1> QED
  BY Zenon, <1>3, <1>4

\* The devices of a prekey response are those the server knows.
LEMMA PreKeysRetry ==
  ASSUME SenderInv, NEW c \in Calls, GetPreKeys(c), ~FailCall(c)
  PROVE  StageInv(c)' /\ RetryInv(c)'
<1>0. StageInv(c) /\ RetryInv(c) /\ SenderTypeOK
  BY Zenon DEF SenderInv
<1>1. /\ pc[c] = "prekeys" /\ pc'[c] = "encrypt" /\ todo'[c] = registered
      /\ UNCHANGED <<registered, sessions, attempt, push, device, disturbed>>
  BY Zenon, <1>0 DEF GetPreKeys, Prepare, GoOn, SenderTypeOK, deviceVars
<1>2. /\ DOMAIN push'[c] = {} /\ device'[c] = NoValue /\ attempt'[c] > 0
      /\ c \notin disturbed /\ attempt[c] = 2 => Clean
  BY Zenon, <1>0, <1>1 DEF StageInv, RetryInv, OnDevice
<1>3. 1 \in DOMAIN registered /\ registered[1] # NoValue
  BY PartialMeans, SenderAssumption DEF SenderAssumption, SenderInv, SenderTypeOK
<1>4. InHand(c)' = DOMAIN registered
  BY Zenon, <1>1, <1>2 DEF InHand
<1>5. PrimaryInHand(c)' /\ Covered(c)' /\ Exact(c)'
  BY Zenon, <1>1, <1>2, <1>3, <1>4 DEF PrimaryInHand, Covered, Exact
<1>6. Clean => Clean'
  BY Zenon, <1>1 DEF Clean
<1>7. c \notin disturbed' => AttemptInv(c)'
  BY Zenon, <1>1, <1>2, <1>5, <1>6 DEF AttemptInv
<1> QED
  BY Zenon, <1>1, <1>2, <1>7, WorkingRetry DEF Working, OnDevice

\* A first attempt without prekeys is for all the sessions of the store.
LEMMA ListRetry ==
  ASSUME SenderInv, NEW c \in Calls, ListDevices(c), ~FailCall(c)
  PROVE  StageInv(c)' /\ RetryInv(c)'
<1>0. StageInv(c) /\ RetryInv(c) /\ SenderTypeOK
  BY Zenon DEF SenderInv
<1>1. /\ pc[c] = "list" /\ pc'[c] = "encrypt" /\ DOMAIN todo'[c] = SubDeviceSessions
      /\ UNCHANGED <<registered, sessions, attempt, push, device, disturbed>>
  <2>1. /\ pc[c] = "list" /\ pc' = [pc EXCEPT ![c] = "encrypt"]
        /\ todo' = [todo EXCEPT ![c] = [d \in SubDeviceSessions |-> NoValue]]
        /\ UNCHANGED <<registered, sessions, attempt, push, device, disturbed>>
    BY Zenon DEF ListDevices, Prepare, GoOn, deviceVars
  <2> QED
    BY Zenon, <1>0, <2>1 DEF SenderTypeOK
<1>2. /\ device'[c] = NoValue /\ attempt'[c] = 1 /\ attempt'[c] > 0
      /\ c \notin disturbed => 1 \in DOMAIN sessions
  BY Zenon, <1>0, <1>1 DEF StageInv, RetryInv, OnDevice
<1>3. ASSUME c \notin disturbed' PROVE AttemptInv(c)'
  <2>1. 1 \in DOMAIN sessions
    BY Zenon, <1>1, <1>2, <1>3
  <2>2. DOMAIN todo'[c] = DOMAIN sessions
    BY Zenon, <1>1, <2>1, NoDevicesPartial DEF SubDeviceSessions
  <2>3. PrimaryInHand(c)' /\ Covered(c)'
    BY Zenon, <1>1, <2>1, <2>2 DEF PrimaryInHand, Covered, InHand
  <2>4. attempt'[c] # 2
    BY <1>2
  <2> QED
    BY Zenon, <2>3, <2>4 DEF AttemptInv
<1> QED
  BY Zenon, <1>1, <1>2, <1>3, WorkingRetry DEF Working, OnDevice

\* A device is taken from the list.
LEMMA NextDeviceRetry ==
  ASSUME SenderInv, NEW c \in Calls, NEW d \in Devices, NextDevice(c, d)
  PROVE  StageInv(c)' /\ RetryInv(c)'
<1>0. StageInv(c) /\ RetryInv(c) /\ SenderTypeOK /\ pc[c] = "encrypt"
  BY Zenon DEF SenderInv, NextDevice
<1>1. /\ UNCHANGED <<registered, sessions, attempt, push, disturbed>> /\ d \in DOMAIN todo[c]
      /\ device[c] = NoValue /\ attempt[c] > 0 /\ d # NoValue
      /\ c \notin disturbed => AttemptInv(c)
  BY Zenon, <1>0, SenderAssumption DEF SenderAssumption, NextDevice, StageInv, RetryInv, Working, OnDevice
<1>2. Clean => Clean'
  BY Zenon, <1>1 DEF Clean
<1>3. /\ DOMAIN Without(todo[c], {d}) = DOMAIN todo[c] \ {d}
      /\ \A e \in DOMAIN todo[c] \ {d} : Without(todo[c], {d})[e] = todo[c][e]
  BY Zenon DEF Without
<1>4. CASE d \in DOMAIN sessions
  <2>1. todo'[c] = Without(todo[c], {d}) /\ device'[c] = d /\ pc'[c] = "load"
    BY Zenon, <1>0, <1>4 DEF NextDevice, GoOn, SenderTypeOK
  <2>2. InHand(c)' = InHand(c)
    BY Zenon, <1>1, <1>3, <2>1 DEF InHand
  <2>3. PrimaryInHand(c) => PrimaryInHand(c)'
    BY Zenon, <1>1, <1>3, <2>1, SenderAssumption DEF SenderAssumption, PrimaryInHand
  <2>4. Covered(c) => Covered(c)'
    BY Zenon, <1>1, <2>2 DEF Covered
  <2>5. Exact(c) => Exact(c)'
    BY <1>1, <1>3, <2>1, <2>2 DEF Exact
  <2>6. AttemptInv(c) => AttemptInv(c)'
    BY Zenon, <1>1, <1>2, <2>3, <2>4, <2>5 DEF AttemptInv
  <2> QED
    BY Zenon, <1>1, <1>4, <2>1, <2>6, WorkingRetry DEF Working, OnDevice
<1>5. CASE d \notin DOMAIN sessions /\ todo[c][d] # NoValue
  <2>1. todo'[c] = todo[c] /\ device'[c] = d /\ pc'[c] = "build"
    BY Zenon, <1>0, <1>5 DEF NextDevice, GoOn, SenderTypeOK
  <2>2. InHand(c)' = InHand(c)
    BY Zenon, <1>1, <2>1 DEF InHand
  <2>3. PrimaryInHand(c) => PrimaryInHand(c)'
    BY Zenon, <1>1, <2>1, SenderAssumption DEF SenderAssumption, PrimaryInHand
  <2>4. Covered(c) => Covered(c)'
    BY Zenon, <1>1, <2>2 DEF Covered
  <2>5. Exact(c) => Exact(c)'
    BY <1>1, <2>1, <2>2 DEF Exact
  <2>6. AttemptInv(c) => AttemptInv(c)'
    BY Zenon, <1>1, <1>2, <2>3, <2>4, <2>5 DEF AttemptInv
  <2> QED
    BY Zenon, <1>1, <1>5, <2>1, <2>6, WorkingRetry DEF Working, OnDevice
<1>6. CASE d \notin DOMAIN sessions /\ todo[c][d] = NoValue
  <2>1. todo'[c] = Without(todo[c], {d}) /\ device'[c] = NoValue /\ pc'[c] = "encrypt"
    BY Zenon, <1>0, <1>1, <1>6 DEF NextDevice, GoOn, SenderTypeOK
  <2>2. InHand(c)' = InHand(c) \ {d} \/ InHand(c)' = InHand(c)
    BY Zenon, <1>1, <1>3, <2>1 DEF InHand
  <2>3. PrimaryInHand(c) => PrimaryInHand(c)'
    BY Zenon, <1>1, <1>3, <1>6, <2>1, SenderAssumption DEF SenderAssumption, PrimaryInHand
  <2>4. Covered(c) => Covered(c)'
    BY Zenon, <1>1, <1>6, <2>2 DEF Covered
  <2>5. ~Exact(c)
    BY <1>0, <1>1, <1>6, PartialMeans, SenderAssumption
       DEF SenderAssumption, Exact, InHand, SenderTypeOK
  <2>6. AttemptInv(c) => AttemptInv(c)'
    BY Zenon, <1>1, <2>3, <2>4, <2>5 DEF AttemptInv
  <2> QED
    BY Zenon, <1>1, <2>1, <2>6, WorkingRetry DEF Working, OnDevice
<1> QED
  BY Zenon, <1>4, <1>5, <1>6

\* process(bundle): the call's own session, for a device it has in hand.
LEMMA BuildRetry ==
  ASSUME SenderInv, NEW c \in Calls, BuildSession(c), ~FailCall(c)
  PROVE  StageInv(c)' /\ RetryInv(c)'
<1> DEFINE d == device[c]
<1>0. StageInv(c) /\ RetryInv(c) /\ SenderTypeOK /\ pc[c] = "build"
  BY Zenon DEF SenderInv, BuildSession
<1>1. /\ d \in Devices /\ d \in DOMAIN todo[c] /\ attempt[c] > 0 /\ d # NoValue
      /\ c \notin disturbed => AttemptInv(c)
  BY Zenon, <1>0, SenderAssumption DEF SenderAssumption, StageInv, RetryInv, Working, OnDevice
<1>2. /\ sessions' = With(sessions, d, todo[c][d]) /\ pc'[c] = "load"
      /\ todo'[c] = Without(todo[c], {d})
      /\ UNCHANGED <<registered, attempt, push, device, loaded>>
      /\ c \notin disturbed' => c \notin disturbed
  BY Zenon, <1>0 DEF BuildSession, StoreSession, GoOn, SenderTypeOK, deviceVars
<1>3. /\ DOMAIN sessions' = DOMAIN sessions \cup {d} /\ sessions'[d] = todo[c][d]
      /\ \A e \in DOMAIN sessions \ {d} : sessions'[e] = sessions[e]
  BY Zenon, <1>2 DEF With
<1>4. /\ DOMAIN todo'[c] = DOMAIN todo[c] \ {d}
      /\ \A e \in DOMAIN todo'[c] : todo'[c][e] = todo[c][e]
  BY Zenon, <1>2 DEF Without
<1>5. InHand(c)' = InHand(c) /\ d \in InHand(c)
  BY Zenon, <1>1, <1>2, <1>4 DEF InHand
<1>6. PrimaryInHand(c) => PrimaryInHand(c)'
  BY Zenon, <1>2, <1>3, <1>4 DEF PrimaryInHand
<1>7. Covered(c) => Covered(c)'
  BY Zenon, <1>2, <1>3, <1>5 DEF Covered
<1>8. Clean /\ Exact(c) => Clean'
  BY Zenon, <1>1, <1>2, <1>3 DEF Clean, Exact
<1>9. Exact(c) => Exact(c)'
  BY <1>2, <1>4, <1>5 DEF Exact
<1>10. AttemptInv(c) => AttemptInv(c)'
  BY Zenon, <1>2, <1>6, <1>7, <1>8, <1>9 DEF AttemptInv
<1> QED
  BY Zenon, <1>1, <1>2, <1>3, <1>10, WorkingRetry DEF Working, OnDevice

\* encrypt() up to the point where it has the session.
LEMMA LoadRetry ==
  ASSUME SenderInv, NEW c \in Calls, EncryptLoads(c), ~FailCall(c)
  PROVE  StageInv(c)' /\ RetryInv(c)'
<1> DEFINE d == device[c]
<1>0. StageInv(c) /\ RetryInv(c) /\ SenderTypeOK /\ pc[c] = "load"
  BY Zenon DEF SenderInv, EncryptLoads
<1>1. /\ d \in Devices /\ attempt[c] > 0 /\ d # NoValue
      /\ c \notin disturbed => AttemptInv(c) /\ d \in DOMAIN sessions
  BY Zenon, <1>0, SenderAssumption DEF SenderAssumption, StageInv, RetryInv, Working, OnDevice
<1>2. CASE d \in DOMAIN sessions
  <2>1. /\ loaded'[c] = sessions[d] /\ pc'[c] = "store"
        /\ UNCHANGED <<registered, sessions, attempt, todo, push, device, disturbed>>
    BY Zenon, <1>0, <1>2 DEF EncryptLoads, GoOn, SenderTypeOK
  <2>2. sessions[d] # NoValue
    BY <1>0, <1>2, PartialMeans, SenderAssumption DEF SenderAssumption, SenderTypeOK
  <2>3. InHand(c)' = InHand(c) /\ d \in InHand(c)
    BY Zenon, <1>1, <2>1 DEF InHand
  <2>4. /\ PrimaryInHand(c) => PrimaryInHand(c)'
        /\ Covered(c) => Covered(c)'
        /\ Clean => Clean'
    BY Zenon, <2>1, <2>3 DEF PrimaryInHand, Covered, Clean
  <2>5. Clean /\ Exact(c) => Exact(c)'
    BY Zenon, <1>2, <2>1, <2>3 DEF Clean, Exact
  <2>6. AttemptInv(c) => AttemptInv(c)'
    BY Zenon, <2>1, <2>4, <2>5 DEF AttemptInv
  <2> QED
    BY Zenon, <1>1, <2>1, <2>2, <2>6, WorkingRetry DEF Working, OnDevice
<1>3. CASE d \notin DOMAIN sessions
  <2>1. c \in disturbed' /\ Return(c, "failed")
    BY Zenon, <1>1, <1>3 DEF EncryptLoads
  <2>2. pc'[c] = "failed" /\ device'[c] = NoValue /\ todo'[c] = NoDevices
    BY Zenon, <1>0, <2>1 DEF Return, GoOn, SenderTypeOK
  <2> QED
    BY Zenon, <2>1, <2>2, NoDevicesPartial DEF StageInv, RetryInv, Working, OnDevice
<1> QED
  BY Zenon, <1>2, <1>3

\* ... and back into the store.
LEMMA StoreRetry ==
  ASSUME SenderInv, NEW c \in Calls, EncryptStores(c)
  PROVE  StageInv(c)' /\ RetryInv(c)'
<1> DEFINE d == device[c]
<1>0. StageInv(c) /\ RetryInv(c) /\ SenderTypeOK /\ pc[c] = "store"
  BY Zenon DEF SenderInv, EncryptStores
<1>1. /\ d \in Devices /\ attempt[c] > 0 /\ d # NoValue
      /\ c \notin disturbed => AttemptInv(c)
  BY Zenon, <1>0, SenderAssumption DEF SenderAssumption, StageInv, RetryInv, Working, OnDevice
<1>2. /\ sessions' = With(sessions, d, loaded[c]) /\ pc'[c] = "id"
      /\ UNCHANGED <<registered, attempt, todo, push, device>>
      /\ c \notin disturbed' => c \notin disturbed
  BY Zenon, <1>0 DEF EncryptStores, StoreSession, GoOn, SenderTypeOK
<1>3. /\ DOMAIN sessions' = DOMAIN sessions \cup {d} /\ sessions'[d] = loaded[c]
      /\ \A e \in DOMAIN sessions \ {d} : sessions'[e] = sessions[e]
  BY Zenon, <1>2 DEF With
<1>4. InHand(c)' = InHand(c) /\ d \in InHand(c)
  BY Zenon, <1>1, <1>2 DEF InHand
<1>5. PrimaryInHand(c) => PrimaryInHand(c)'
  BY Zenon, <1>2, <1>3 DEF PrimaryInHand
<1>6. Covered(c) => Covered(c)'
  BY Zenon, <1>2, <1>3, <1>4 DEF Covered
<1>7. Clean /\ Exact(c) => Clean'
  BY Zenon, <1>0, <1>2, <1>3 DEF Clean, Exact
<1>8. Exact(c) => Exact(c)'
  BY <1>2, <1>4 DEF Exact
<1>9. AttemptInv(c) => AttemptInv(c)'
  BY Zenon, <1>2, <1>5, <1>6, <1>7, <1>8 DEF AttemptInv
<1> QED
  BY Zenon, <1>1, <1>2, <1>3, <1>9, WorkingRetry DEF Working, OnDevice

\* The registration id that goes with the ciphertext.
LEMMA IdRetry ==
  ASSUME SenderInv, NEW c \in Calls, RegistrationId(c)
  PROVE  StageInv(c)' /\ RetryInv(c)'
<1> DEFINE d == device[c]
           id == IF d \in DOMAIN sessions THEN sessions[d] ELSE NoValue
<1>0. StageInv(c) /\ RetryInv(c) /\ SenderTypeOK /\ pc[c] = "id"
  BY Zenon DEF SenderInv, RegistrationId
<1>1. /\ d \in Devices /\ attempt[c] > 0 /\ d # NoValue
      /\ c \notin disturbed => AttemptInv(c) /\ d \in DOMAIN sessions
  BY Zenon, <1>0, SenderAssumption DEF SenderAssumption, StageInv, RetryInv, Working, OnDevice
<1>2. /\ push'[c] = With(push[c], d, id) /\ device'[c] = NoValue /\ pc'[c] = "encrypt"
      /\ UNCHANGED <<registered, sessions, attempt, todo, disturbed>>
  BY Zenon, <1>0 DEF RegistrationId, GoOn, SenderTypeOK
<1>3. /\ DOMAIN push'[c] = DOMAIN push[c] \cup {d} /\ push'[c][d] = id
      /\ \A e \in DOMAIN push[c] \ {d} : push'[c][e] = push[c][e]
  BY Zenon, <1>2 DEF With
<1>4. InHand(c)' = InHand(c) /\ d \in InHand(c)
  <2>1. InHand(c) = DOMAIN push[c] \cup DOMAIN todo[c] \cup {d}
    BY Zenon, <1>1 DEF InHand
  <2>2. InHand(c)' = DOMAIN push'[c] \cup DOMAIN todo[c]
    BY Zenon, <1>2 DEF InHand
  <2> QED
    BY Zenon, <1>3, <2>1, <2>2
<1>5. /\ PrimaryInHand(c) => PrimaryInHand(c)'
      /\ Covered(c) => Covered(c)'
      /\ Clean => Clean'
  BY Zenon, <1>2, <1>3, <1>4 DEF PrimaryInHand, Covered, Clean
<1>6. Clean /\ Exact(c) /\ d \in DOMAIN sessions => Exact(c)'
  <2> SUFFICES ASSUME Clean, Exact(c), d \in DOMAIN sessions PROVE Exact(c)'
    BY Zenon
  <2>1. id = registered[d]
    BY Zenon, <1>4 DEF Clean, Exact
  <2> HIDE DEF id
  <2>2. \A e \in DOMAIN push'[c] : push'[c][e] = registered[e]
    BY Zenon, <1>3, <2>1 DEF Exact
  <2>3. pc'[c] # "store"
    BY <1>2
  <2> QED
    BY Zenon, <1>2, <1>4, <2>2, <2>3 DEF Exact
<1>7. AttemptInv(c) /\ d \in DOMAIN sessions => AttemptInv(c)'
  BY Zenon, <1>2, <1>5, <1>6 DEF AttemptInv
<1> QED
  BY Zenon, <1>1, <1>2, <1>7, WorkingRetry DEF Working, OnDevice

\* A second attempt is not refused, so a refusal leaves one to come.
LEMMA RefusalRetry ==
  ASSUME SenderInv, NEW c \in Calls, ServerRefuses(c)
  PROVE  StageInv(c)' /\ RetryInv(c)'
<1>0. StageInv(c) /\ RetryInv(c) /\ SenderTypeOK /\ pc[c] = "encrypt"
  BY Zenon DEF SenderInv, ServerRefuses, Sending
<1>1. /\ todo[c] = NoDevices /\ push[c] # registered /\ pc'[c] = "refused"
      /\ UNCHANGED <<registered, sessions, attempt, todo, push, device, disturbed>>
  BY Zenon, <1>0 DEF ServerRefuses, Sending, GoOn, SenderTypeOK, requestVars, deviceVars
<1>2. /\ DOMAIN todo[c] = {} /\ device[c] = NoValue /\ attempt[c] \in {1, 2}
  BY <1>0, <1>1, NoDevicesPartial DEF StageInv, Working, OnDevice, SenderTypeOK
<1>3. c \notin disturbed => AttemptInv(c)
  BY Zenon, <1>0 DEF RetryInv, Working
<1>4. ~Exact(c)
  <2> SUFFICES ASSUME Exact(c) PROVE push[c] = registered
    BY Zenon, <1>1
  <2>1. /\ push[c] = [e \in DOMAIN push[c] |-> push[c][e]]
        /\ registered = [e \in DOMAIN registered |-> registered[e]]
    BY <1>0, PartialMeans DEF SenderTypeOK
  <2>2. DOMAIN push[c] = DOMAIN registered /\ \A e \in DOMAIN push[c] : push[c][e] = registered[e]
    BY Zenon, <1>2 DEF Exact, InHand
  <2> QED
    BY Zenon, <2>1, <2>2
<1>5. Covered(c) => Covered(c)'
  BY Zenon, <1>1 DEF Covered, InHand
<1>6. c \notin disturbed' => attempt'[c] = 1 /\ Covered(c)'
  BY Zenon, <1>1, <1>2, <1>3, <1>4, <1>5 DEF AttemptInv
<1>7. StageInv(c)'
  BY Zenon, <1>1, <1>2 DEF StageInv, Working, OnDevice
<1>8. RetryInv(c)'
  BY Zenon, <1>1, <1>6 DEF RetryInv, Working, OnDevice
<1> QED
  BY Zenon, <1>7, <1>8

\* What is left in the store after the last deletion is clean.
LEMMA DeleteRetry ==
  ASSUME SenderInv, NEW c \in Calls, NEW d \in Devices, DeleteSession(c, d)
  PROVE  StageInv(c)' /\ RetryInv(c)'
<1>0. StageInv(c) /\ RetryInv(c) /\ SenderTypeOK /\ pc[c] = "refused"
  BY Zenon DEF SenderInv, DeleteSession
<1>1. /\ sessions' = Without(sessions, {d}) /\ push'[c] = Without(push[c], {d})
      /\ UNCHANGED <<registered, attempt, todo, device>>
      /\ c \notin disturbed' => c \notin disturbed
      /\ (DOMAIN push[c] = {d} /\ pc'[c] = "attempt") \/ pc'[c] = "refused"
  BY Zenon, <1>0 DEF DeleteSession, Deletes, GoOn, SenderTypeOK, deviceVars
<1>2. DOMAIN todo[c] = {} /\ device[c] = NoValue
  BY Zenon, <1>0 DEF StageInv, Working, OnDevice
<1>3. /\ DOMAIN sessions' = DOMAIN sessions \ {d} /\ DOMAIN push'[c] = DOMAIN push[c] \ {d}
      /\ \A e \in DOMAIN sessions' : sessions'[e] = sessions[e]
  BY Zenon, <1>1 DEF Without
<1>4. Covered(c) => Covered(c)'
  BY Zenon, <1>1, <1>2, <1>3 DEF Covered, InHand
<1>5. Covered(c)' /\ DOMAIN push[c] = {d} => Clean'
  BY Zenon, <1>1, <1>2, <1>3 DEF Covered, InHand, Clean
<1>6. StageInv(c)'
  BY Zenon, <1>1, <1>2, <1>3 DEF StageInv, Working, OnDevice
<1>7. ASSUME c \notin disturbed' PROVE Covered(c)' /\ attempt'[c] = 1 /\ attempt'[c] < 2
  <2>1. Covered(c) /\ attempt[c] = 1
    BY Zenon, <1>0, <1>1, <1>7 DEF RetryInv
  <2> QED
    BY <1>1, <1>4, <2>1
<1>8. RetryInv(c)'
  BY Zenon, <1>1, <1>5, <1>7 DEF RetryInv, Working, OnDevice
<1> QED
  BY Zenon, <1>6, <1>8

\* A call that ends, with an excuse if it failed.
LEMMA EndedRetry ==
  ASSUME SenderTypeOK, NEW c \in Calls, NEW outcome \in {"accepted", "sent", "failed"},
         Return(c, outcome), outcome = "failed" => c \in disturbed'
  PROVE  StageInv(c)' /\ RetryInv(c)'
<1>1. pc'[c] = outcome /\ device'[c] = NoValue /\ todo'[c] = NoDevices
  BY Zenon DEF Return, GoOn, SenderTypeOK
<1> QED
  BY Zenon, <1>1, NoDevicesPartial DEF StageInv, RetryInv, Working, OnDevice

\* A call that has made no attempt yet.
LEMMA FreshCall ==
  ASSUME NEW c \in Calls, StageInv(c), pc[c] \in {"idle", "upload"},
         pc'[c] \in {"attempt", "upload"}, UNCHANGED requestVars,
         DOMAIN push[c] = {}
  PROVE  StageInv(c)' /\ RetryInv(c)'
<1>1. attempt'[c] = 0 /\ DOMAIN todo'[c] = {} /\ device'[c] = NoValue /\ DOMAIN push'[c] = {}
  BY Zenon DEF StageInv, Working, OnDevice, requestVars, deviceVars
<1>2. StageInv(c)'
  BY <1>1 DEF StageInv, Working, OnDevice
<1>3. RetryInv(c)'
  BY <1>1 DEF RetryInv, Working, OnDevice
<1> QED
  BY Zenon, <1>2, <1>3

\* A step of call c for that call itself.
LEMMA CallRetry ==
  ASSUME SenderInv, NEW c \in Calls, ClickSend(c) \/ SendImageBytes(c) \/ CallStep(c)
  PROVE  StageInv(c)' /\ RetryInv(c)'
<1>0. StageInv(c) /\ RetryInv(c) /\ SenderTypeOK
  BY Zenon DEF SenderInv
<1>1. ASSUME FailCall(c) PROVE StageInv(c)' /\ RetryInv(c)'
  BY Zenon, <1>0, <1>1, EndedRetry DEF FailCall
<1>2. CASE ClickSend(c) \/ (SendImageBytes(c) /\ ~FailCall(c)) \/ (Upload(c) /\ ~FailCall(c))
  <2>1. /\ pc[c] \in {"idle", "upload"} /\ pc'[c] \in {"attempt", "upload"}
        /\ UNCHANGED requestVars
    BY Zenon, <1>0, <1>2 DEF ClickSend, SendImageBytes, Upload, GoOn, SenderTypeOK
  <2>2. DOMAIN push[c] = {}
    BY Zenon, <1>0, <2>1 DEF StageInv
  <2> QED
    BY Zenon, <1>0, <2>1, <2>2, FreshCall
<1>3. CASE SaveText(c)
  <2>1. pc[c] = "accepted" /\ pc'[c] = "sent" /\ UNCHANGED <<todo, device>>
    BY Zenon, <1>0, <1>3 DEF SaveText, GoOn, SenderTypeOK, requestVars, deviceVars
  <2> QED
    BY Zenon, <1>0, <2>1 DEF StageInv, RetryInv, Working, OnDevice
<1>4. CASE GiveUp(c)
  <2>1. c \in disturbed' /\ Return(c, "failed")
    BY Zenon, <1>0, <1>4 DEF GiveUp, MayRetry, RetryInv
  <2> QED
    BY Zenon, <1>0, <2>1, EndedRetry
<1>5. CASE NoDevicesLeft(c)
  <2>1. pc[c] = "encrypt" /\ DOMAIN todo[c] = {} /\ DOMAIN push[c] = {} /\ device[c] = NoValue
    BY Zenon, <1>0, <1>5, NoDevicesPartial DEF NoDevicesLeft, StageInv, OnDevice
  <2>2. ~PrimaryInHand(c)
    BY Zenon, <2>1, SenderAssumption DEF SenderAssumption, PrimaryInHand
  <2>3. c \in disturbed' /\ Return(c, "failed")
    BY Zenon, <1>0, <1>5, <2>1, <2>2 DEF NoDevicesLeft, RetryInv, AttemptInv, Working
  <2> QED
    BY Zenon, <1>0, <2>3, EndedRetry
<1>6. CASE ServerAccepts(c)
  <2>1. CASE Return(c, IF c \in TextCalls THEN "accepted" ELSE "sent")
    BY Zenon, <1>0, <2>1, EndedRetry
  <2> QED
    BY Zenon, <1>1, <1>6, <2>1 DEF ServerAccepts
<1>7. CASE SendFails(c) \/ SendImageBytes(c) \/ Upload(c)
  BY Zenon, <1>1, <1>2, <1>7 DEF SendFails
<1>8. CASE GetPreKeys(c) \/ ListDevices(c) \/ BuildSession(c) \/ EncryptLoads(c)
  BY Zenon, <1>1, <1>8, PreKeysRetry, ListRetry, BuildRetry, LoadRetry
<1> QED
  BY Zenon, <1>2, <1>3, <1>4, <1>5, <1>6, <1>7, <1>8, AttemptRetry, NextDeviceRetry,
     DeleteRetry, StoreRetry, IdRetry, RefusalRetry DEF CallStep

\* The recipient's devices and incoming messages.
LEMMA AroundTypes ==
  ASSUME SenderInv,
         DevicesChange \/ UNCHANGED senderVars \/ \E d \in Devices : SessionFromIncoming(d)
  PROVE  SenderTypeOK' /\ 1 \in DOMAIN registered'
<1> USE DEF requestVars, deviceVars, results
<1>0. SenderTypeOK /\ 1 \in DOMAIN registered
  BY Zenon DEF SenderInv
<1>1. CASE DevicesChange
  <2>1. PICK d \in Devices : \E r \in RegistrationIds[d] :
          \/ registered' = With(registered, d, r)
          \/ d # 1 /\ registered' = Without(registered, {d})
    BY Zenon, <1>1 DEF DevicesChange
  <2>2. PICK r \in RegistrationIds[d] :
          \/ registered' = With(registered, d, r)
          \/ d # 1 /\ registered' = Without(registered, {d})
    BY Zenon, <2>1
  <2>3. r \in Ids /\ registered \in Partial(Ids)
    BY Zenon, <1>0 DEF Ids, SenderTypeOK
  <2>4. registered' \in Partial(Ids)
    BY Zenon, <2>2, <2>3, WithPartial, WithoutPartial
  <2>5. 1 \in DOMAIN registered'
    BY Zenon, <1>0, <2>2 DEF With, Without
  <2> QED
    BY Zenon, <1>0, <1>1, <2>4, <2>5 DEF DevicesChange, SenderTypeOK
<1>2. CASE UNCHANGED senderVars
  BY Zenon, <1>0, <1>2 DEF senderVars, SenderTypeOK
<1>3. ASSUME NEW d \in Devices, SessionFromIncoming(d)
      PROVE  SenderTypeOK' /\ 1 \in DOMAIN registered'
  <2>1. PICK id \in RegistrationIds[d] : StoreSession(d, id, {c \in Calls : InProgress(c)})
    BY Zenon, <1>3 DEF SessionFromIncoming
  <2>2. id \in Ids /\ {c \in Calls : InProgress(c)} \in SUBSET Calls
    BY Zenon DEF Ids
  <2>3. sessions' \in Partial(Ids) /\ disturbed' \subseteq Calls
    BY Zenon, <1>0, <2>1, <2>2, StoreTypes
  <2> QED
    BY Zenon, <1>0, <1>3, <2>3 DEF SessionFromIncoming, SenderTypeOK
<1> QED
  BY Zenon, <1>1, <1>2, <1>3

LEMMA AroundRetry ==
  ASSUME SenderInv, NEW o \in Calls,
         DevicesChange \/ UNCHANGED senderVars \/ \E d \in Devices : SessionFromIncoming(d)
  PROVE  StageInv(o)' /\ RetryInv(o)'
<1>0. StageInv(o) /\ RetryInv(o)
  BY Zenon DEF SenderInv
<1>1. UNCHANGED <<pc, attempt, todo, push, device, loaded>>
  BY Zenon DEF DevicesChange, SessionFromIncoming, senderVars, requestVars, deviceVars
<1>2. /\ disturbed \subseteq disturbed'
      /\ InProgress(o) /\ o \notin disturbed' => Improved
  <2>1. CASE DevicesChange
    BY Zenon, <2>1 DEF DevicesChange
  <2>2. CASE UNCHANGED senderVars
    BY Zenon, <2>2, SameIsImproved DEF senderVars
  <2>3. ASSUME NEW d \in Devices, SessionFromIncoming(d)
        PROVE  /\ disturbed \subseteq disturbed'
               /\ InProgress(o) /\ o \notin disturbed' => Improved
    <3>1. PICK id \in RegistrationIds[d] : StoreSession(d, id, {c \in Calls : InProgress(c)})
      BY Zenon, <2>3 DEF SessionFromIncoming
    <3>2. UNCHANGED registered
      BY Zenon, <2>3 DEF SessionFromIncoming
    <3> QED
      BY Zenon, <3>1, <3>2, StoreImproves
  <2> QED
    BY Zenon, <2>1, <2>2, <2>3
<1> QED
  BY Zenon, <1>0, <1>1, <1>2, StandingRetry

-----------------------------------------------------------------------------
(* The invariant and what follows *)

LEMMA SenderStarts == SenderInit => SenderInv
<1> SUFFICES ASSUME SenderInit PROVE SenderInv
  BY Zenon
<1>1. registered \in Partial(Ids) /\ 1 \in DOMAIN registered
  <2>1. RegistrationIds[1] \subseteq Ids
    BY Zenon, SenderAssumption DEF SenderAssumption, Ids
  <2> QED
    BY <2>1, SenderAssumption DEF SenderAssumption, SenderInit, Partial
<1>2. SenderTypeOK
  BY <1>1, NoDevicesPartial DEF SenderInit, SenderTypeOK, Places
<1>3. ProgressInv
  BY SenderAssumption DEF SenderAssumption, SenderInit, ProgressInv, CallInv, Places
<1>4. \A c \in Calls : StageInv(c) /\ RetryInv(c)
  BY Zenon, NoDevicesPartial DEF SenderInit, StageInv, RetryInv, Working, OnDevice
<1> QED
  BY Zenon, <1>1, <1>2, <1>3, <1>4 DEF SenderInv

LEMMA SenderSteps == SenderInv /\ [SenderNext]_senderVars => SenderInv'
<1> SUFFICES ASSUME SenderInv, [SenderNext]_senderVars PROVE SenderInv'
  BY Zenon
<1>0. SenderTypeOK /\ ProgressInv /\ \A c \in Calls : CallInv(c) /\ StageInv(c)
  BY Zenon DEF SenderInv, ProgressInv
<1>1. ProgressInv'
  BY Zenon, <1>0, ProgressNext
<1>2. ASSUME NEW c \in Calls, ClickSend(c) \/ SendImageBytes(c) \/ CallStep(c)
      PROVE  SenderInv'
  <2>1. SenderTypeOK'
    BY Zenon, <1>0, <1>2, CallTypes
  <2>2. UNCHANGED registered
    BY Zenon, <1>2 DEF ClickSend, SendImageBytes, CallStep, SaveText, Upload, Attempt, GiveUp,
         GetPreKeys, ListDevices, NextDevice, DeleteSession, BuildSession, EncryptLoads,
         EncryptStores, RegistrationId, NoDevicesLeft, ServerAccepts, SendFails, ServerRefuses
  <2>3. ASSUME NEW o \in Calls PROVE StageInv(o)' /\ RetryInv(o)'
    <3>1. CASE o = c
      BY Zenon, <1>2, <3>1, CallRetry
    <3>2. CASE o \in Calls \ {c}
      <4>1. StageInv(o) /\ RetryInv(o)
        BY Zenon DEF SenderInv
      <4> QED
        BY Zenon, <1>0, <1>2, <3>2, <4>1, CallFrame, StandingRetry
    <3> QED
      BY Zenon, <3>1, <3>2
  <2>4. 1 \in DOMAIN registered'
    BY Zenon, <2>2 DEF SenderInv
  <2> QED
    BY Zenon, <1>1, <2>1, <2>3, <2>4 DEF SenderInv
<1>3. CASE DevicesChange \/ UNCHANGED senderVars \/ \E d \in Devices : SessionFromIncoming(d)
  BY Zenon, <1>1, <1>3, AroundTypes, AroundRetry DEF SenderInv
<1> QED
  BY Zenon, <1>2, <1>3 DEF SenderNext

LEMMA SenderHolds == SenderSpec => []SenderInv
BY SenderStarts, SenderSteps, PTL DEF SenderSpec

\* The counters, lists and places of every call stay what the code can hold; the
\* attempt counter of sendMessage stops at two.
THEOREM SenderTypes == SenderSpec => []SenderTypeOK
<1>1. SenderInv => SenderTypeOK
  BY Zenon DEF SenderInv
<1> QED
  BY <1>1, SenderHolds, PTL

\* However many calls run at once and however they end, the server takes a
\* message at most once (the retry of MessageSender.kt:220-226).
THEOREM TakenAtMostOnce == SenderSpec => []AcceptedAtMostOnce
<1>1. SenderInv => AcceptedAtMostOnce
  <2>1. SUFFICES ASSUME SenderInv, NEW c \in Calls PROVE accepted[c] <= 1
    BY Zenon DEF AcceptedAtMostOnce
  <2>2. accepted[c] \in {0, 1}
    BY Zenon, <2>1 DEF SenderInv, ProgressInv, CallInv
  <2> QED
    BY <2>2
<1> QED
  BY <1>1, SenderHolds, PTL

\* A text ChatActivity has stored is one the server has, after any number of
\* refusals, lost answers and calls at the same time.
THEOREM StoredTextsAreTaken == SenderSpec => []StoredTextWasTaken
<1>1. SenderInv => StoredTextWasTaken
  <2>1. SUFFICES ASSUME SenderInv, NEW c \in rows PROVE accepted[c] = 1
    BY Zenon DEF StoredTextWasTaken
  <2>2. c \in TextCalls /\ c \in Calls
    BY Zenon, <2>1 DEF SenderInv, SenderTypeOK, Calls
  <2> QED
    BY Zenon, <2>1, <2>2 DEF SenderInv, ProgressInv, CallInv
<1> QED
  BY <1>1, SenderHolds, PTL

\* An image message is sent only after its ciphertext was uploaded.
THEOREM PointersStayGood == SenderSpec => []PointerHasCiphertext
<1>1. SenderInv => PointerHasCiphertext
  <2>1. SUFFICES ASSUME SenderInv, NEW c \in ImageCalls, accepted[c] > 0 PROVE c \in uploaded
    BY Zenon DEF PointerHasCiphertext
  <2>2. CallInv(c)
    BY Zenon, <2>1 DEF SenderInv, ProgressInv, Calls
  <2>3. accepted[c] \in {0, 1}
    BY Zenon, <2>2 DEF CallInv
  <2>4. accepted[c] = 1
    BY <2>1, <2>3
  <2> QED
    BY Zenon, <2>2, <2>4 DEF CallInv
<1> QED
  BY <1>1, SenderHolds, PTL

\* Two attempts are enough for a call nobody interferes with, for any number of
\* devices, registration ids, stale sessions and concurrent calls, although the
\* store is read and written in several steps and no lock guards it.
THEOREM TwoAttemptsSuffice == SenderSpec => []UndisturbedSucceeds
<1>1. SenderInv => UndisturbedSucceeds
  BY Zenon DEF SenderInv, RetryInv, UndisturbedSucceeds
<1> QED
  BY <1>1, SenderHolds, PTL

-----------------------------------------------------------------------------
(* A receiver chain *)

LOCAL INSTANCE SequenceTheorems

\* The inductive invariant.  KeysAreUnused is inductive with the types; the
\* other two need it to know that the stored keys lie behind the chain.
Inv == TypeOK /\ KeysAreUnused /\ StorageBounded /\ LateMessageOpens

\* A set of naturals below a bound is finite.
LEMMA BoundedIsFinite ==
  ASSUME NEW i \in Nat, NEW S \in SUBSET Nat, \A k \in S : k < i
  PROVE  IsFiniteSet(S)
<1>1. S \in SUBSET (0 .. i)
  OBVIOUS
<1>2. IsFiniteSet(0 .. i)
  BY FS_Interval
<1> QED
  BY Zenon, <1>1, <1>2, FS_Subset

\* A nonempty set of naturals has a least element.
LEMMA LeastElement ==
  ASSUME NEW S \in SUBSET Nat, S # {}
  PROVE  \E x \in S : \A y \in S : x <= y
<1> DEFINE less == OpToRel(<, Nat)
<1>1. \A x, y \in Nat : y < x => <<y, x>> \in less
  BY Zenon DEF OpToRel
<1> HIDE DEF less
<1>2. \E x \in S : \A y \in S : ~(<<y, x>> \in less)
  <2>1. IsWellFoundedOn(less, Nat)
    BY Zenon, NatLessThanWellFounded DEF less
  <2> QED
    BY Zenon, <2>1, WFMin
<1>3. PICK x \in S : \A y \in S : ~(<<y, x>> \in less)
  BY Zenon, <1>2
<1>4. \A y \in S : ~(y < x)
  BY Zenon, <1>1, <1>3
<1>5. \A y \in S : x <= y
  BY <1>4
<1> QED
  BY Zenon, <1>5

\* set_message_keys trims to the limit: of the keys that survive, the least has
\* the others above it, so there are at most MAX_MESSAGE_KEYS.
LEMMA NewestIsBounded ==
  ASSUME NEW S \in SUBSET Nat, IsFiniteSet(S)
  PROVE  IsFiniteSet(Newest(S)) /\ Cardinality(Newest(S)) <= MaxMessageKeys
<1>1. IsFiniteSet(Newest(S)) /\ Cardinality(Newest(S)) \in Nat
  BY Zenon, FS_Subset, FS_CardinalityType DEF Newest
<1>2. CASE Newest(S) = {}
  BY <1>2, FS_EmptySet, ChainAssumption DEF ChainAssumption
<1>3. CASE Newest(S) # {}
  <2>1. PICK m \in Newest(S) : \A k \in Newest(S) : m <= k
    BY Zenon, <1>3, LeastElement DEF Newest
  <2> DEFINE above == {j \in S : j > m}
  <2>2. m \in S /\ Cardinality(above) < MaxMessageKeys
    BY Zenon DEF Newest
  <2>3. IsFiniteSet(above) /\ Cardinality(above) \in Nat
    BY Zenon, FS_Subset, FS_CardinalityType
  <2>4. Newest(S) \ {m} \in SUBSET above
    <3>1. \A k \in Newest(S) : k \in S /\ k \in Nat /\ m \in Nat
      BY Zenon DEF Newest
    <3> QED
      BY <2>1, <3>1
  <2>5. Cardinality(Newest(S) \ {m}) <= Cardinality(above)
    BY Zenon, <2>3, <2>4, FS_Subset
  <2>6. Cardinality(Newest(S) \ {m}) = Cardinality(Newest(S)) - 1
    BY Zenon, <1>1, FS_RemoveElement
  <2> QED
    BY <1>1, <2>2, <2>3, <2>5, <2>6, ChainAssumption DEF ChainAssumption
<1> QED
  BY Zenon, <1>1, <1>2, <1>3

\* A key with fewer than MAX_MESSAGE_KEYS counters between it and the end of the
\* chain survives the trimming.
LEMMA NewestKeepsRecent ==
  ASSUME NEW n \in Nat, NEW S \in SUBSET Nat, \A k \in S : k < n,
         NEW m \in S, n - m <= MaxMessageKeys
  PROVE  m \in Newest(S)
<1> DEFINE above == {j \in S : j > m}
<1> DEFINE lo == m + 1
           hi == n - 1
<1>1. /\ lo \in Int /\ hi \in Int
      /\ hi - lo + 1 = n - 1 - m
      /\ m \in Nat /\ m < n
  OBVIOUS
<1>5. above \in SUBSET (lo .. hi)
  <2> SUFFICES ASSUME NEW j \in S, j > m PROVE j \in lo .. hi
    BY Zenon
  <2>1. j \in Nat /\ j < n
    BY Zenon
  <2> QED
    BY <1>1, <2>1
<1> HIDE DEF lo, hi
<1>2. /\ IsFiniteSet(lo .. hi)
      /\ Cardinality(lo .. hi) = IF lo > hi THEN 0 ELSE hi - lo + 1
  BY Zenon, <1>1, FS_Interval
<1>3. /\ Cardinality(above) <= Cardinality(lo .. hi)
      /\ Cardinality(above) \in Nat
  BY Zenon, <1>5, <1>2, FS_Subset, FS_CardinalityType
<1>4. Cardinality(above) < MaxMessageKeys
  BY <1>1, <1>2, <1>3, ChainAssumption DEF ChainAssumption
<1> QED
  BY Zenon, <1>4 DEF Newest

\* What get_or_create_message_key does when it returns a key.
LEMMA ReceiveCases ==
  ASSUME TypeOK, NEW n \in Counters, Receive(n)
  PROVE  /\ opens' = [opens EXCEPT ![n] = @ + 1]
         /\ \/ n < chain.index /\ n \in chain.keys /\ chain' = TakeStored(chain, n)
            \/ n >= chain.index /\ chain' = SkipTo(chain, n)
<1>1. n \in Nat /\ chain.index \in Nat
  BY Zenon, CountersAssumption DEF CountersAssumption, TypeOK
<1>2. CASE n < chain.index /\ n \in chain.keys
  BY <1>2 DEF Receive, GetOrCreateMessageKey
<1>3. CASE n < chain.index /\ n \notin chain.keys
  BY Zenon, <1>1, <1>3 DEF Receive, GetOrCreateMessageKey
<1>4. CASE n >= chain.index
  BY <1>1, <1>4 DEF Receive, GetOrCreateMessageKey
<1> QED
  BY <1>1, <1>2, <1>3, <1>4
\* Receiving a message whose key was stored.
LEMMA StoredInv ==
  ASSUME Inv, NEW n \in Counters,
         n < chain.index, n \in chain.keys,
         chain' = TakeStored(chain, n), opens' = [opens EXCEPT ![n] = @ + 1]
  PROVE  Inv'
<1>1. /\ n \in Nat /\ chain.index \in Nat /\ chain.keys \in SUBSET Nat
      /\ IsFiniteSet(chain.keys)
  BY Zenon, CountersAssumption, BoundedIsFinite
     DEF CountersAssumption, Inv, TypeOK, KeysAreUnused
<1>2. chain'.index = chain.index /\ chain'.keys = chain.keys \ {n}
  BY Zenon DEF Inv, TypeOK, TakeStored
<1>3. /\ opens'[n] = opens[n] + 1
      /\ \A m \in Counters \ {n} : opens'[m] = opens[m]
  BY Zenon DEF Inv, TypeOK
<1>4. TypeOK'
  BY <1>1 DEF Inv, TypeOK, TakeStored
<1>5. KeysAreUnused'
  BY Zenon, <1>2, <1>3 DEF Inv, KeysAreUnused
<1>6. StorageBounded'
  <2>1. Cardinality(chain.keys \ {n}) = Cardinality(chain.keys) - 1
        /\ Cardinality(chain.keys) \in Nat
    BY Zenon, <1>1, FS_RemoveElement, FS_CardinalityType
  <2> QED
    BY <1>2, <2>1, ChainAssumption DEF ChainAssumption, Inv, StorageBounded
<1>7. LateMessageOpens'
  <2>1. opens[n] \in Nat
    BY Zenon DEF Inv, TypeOK
  <2> QED
    BY <1>2, <1>3, <2>1 DEF Inv, LateMessageOpens
<1> QED
  BY Zenon, <1>4, <1>5, <1>6, <1>7 DEF Inv

\* Receiving a message at or ahead of the chain's index.
LEMMA SkipInv ==
  ASSUME Inv, NEW n \in Counters, n >= chain.index,
         chain' = SkipTo(chain, n), opens' = [opens EXCEPT ![n] = @ + 1]
  PROVE  Inv'
<1> DEFINE S == chain.keys \cup (chain.index .. n - 1)
<1>1. n \in Nat /\ chain.index \in Nat /\ chain.keys \in SUBSET Nat
  BY Zenon, CountersAssumption DEF CountersAssumption, Inv, TypeOK
<1>2. S \in SUBSET Nat /\ \A k \in S : k < n
  BY <1>1 DEF Inv, KeysAreUnused
<1>3. \A m \in Nat : m \in S <=> m \in chain.keys \/ (m >= chain.index /\ m < n)
  BY <1>1
<1>4. chain' = [chain EXCEPT !.keys = Newest(S), !.index = n + 1]
  BY Zenon DEF SkipTo
<1> HIDE DEF S
<1>5. chain'.index = n + 1 /\ chain'.keys = Newest(S)
  BY Zenon, <1>4 DEF Inv, TypeOK
<1>6. Newest(S) \in SUBSET S
  BY Zenon DEF Newest
<1>7. /\ opens'[n] = opens[n] + 1
      /\ \A m \in Counters \ {n} : opens'[m] = opens[m]
      /\ opens[n] \in Nat
  BY Zenon DEF Inv, TypeOK
<1>8. TypeOK'
  <2>1. chain' \in [index : Nat, keys : SUBSET Nat]
    <3>1. Newest(S) \in SUBSET Nat
      BY <1>2, <1>6, Zenon
    <3>2. n + 1 \in Nat
      BY <1>1
    <3> QED
      BY Zenon, <1>4, <3>1, <3>2 DEF Inv, TypeOK
  <2>2. opens' \in [Counters -> Nat]
    BY DEF Inv, TypeOK
  <2> QED
    BY Zenon, <2>1, <2>2 DEF TypeOK
<1>9. KeysAreUnused'
  <2>1. \A k \in chain'.keys : k < chain'.index
    <3> SUFFICES ASSUME NEW k \in Newest(S) PROVE k < n + 1
      BY Zenon, <1>5
    <3>1. k \in S /\ k \in Nat
      BY <1>2, <1>6, Zenon
    <3> QED
      BY <1>1, <1>2, <3>1
  <2>2. ASSUME NEW m \in Counters, opens'[m] > 0
        PROVE  m < chain'.index /\ m \notin chain'.keys
    <3>1. CASE m = n
      BY <1>1, <1>2, <1>5, <1>6, <3>1
    <3>2. CASE m # n
      <4>1. m < chain.index /\ m \notin chain.keys /\ m \in Nat
        BY Zenon, <1>7, <2>2, <3>2, CountersAssumption
           DEF CountersAssumption, Inv, KeysAreUnused
      <4>2. m \notin S
        BY <1>1, <1>3, <4>1
      <4> QED
        BY <1>1, <1>5, <1>6, <4>1, <4>2
    <3> QED
      BY Zenon, <3>1, <3>2
  <2> QED
    BY Zenon, <2>1, <2>2 DEF KeysAreUnused
<1>10. StorageBounded'
  BY Zenon, <1>1, <1>2, <1>5, BoundedIsFinite, NewestIsBounded DEF StorageBounded
<1>11. LateMessageOpens'
  <2> SUFFICES ASSUME NEW m \in Counters, opens'[m] = 0, m < n + 1,
                      (n + 1) - m <= MaxMessageKeys
               PROVE  m \in Newest(S)
    BY <1>5, Zenon DEF LateMessageOpens
  <2>1. m < n + 1 /\ (n + 1) - m <= MaxMessageKeys
    BY Zenon
  <2>2. m \in Nat /\ m # n /\ opens[m] = 0
    BY <1>7, CountersAssumption DEF CountersAssumption
  <2>3. m \in S
    <3>1. CASE m >= chain.index
      BY <1>1, <1>3, <2>1, <2>2, <3>1
    <3>2. CASE m < chain.index
      <4>1. chain.index - m <= MaxMessageKeys
        BY <1>1, <2>1, <2>2, ChainAssumption DEF ChainAssumption
      <4> QED
        BY Zenon, <1>3, <2>2, <3>2, <4>1 DEF Inv, LateMessageOpens
    <3> QED
      BY <1>1, <2>2, <3>1, <3>2
  <2>4. n - m <= MaxMessageKeys
    BY <1>1, <2>1, <2>2, ChainAssumption DEF ChainAssumption
  <2> QED
    BY Zenon, <1>1, <1>2, <1>5, <2>3, <2>4, NewestKeepsRecent
<1> QED
  BY Zenon, <1>8, <1>9, <1>10, <1>11 DEF Inv

\* Every step preserves the invariant.
LEMMA NextInv == Inv /\ [Next]_chainVars => Inv'
<1> SUFFICES ASSUME Inv, [Next]_chainVars PROVE Inv'
  BY Zenon
<1>1. ASSUME NEW n \in Counters, Receive(n) PROVE Inv'
  <2>1. TypeOK
    BY Zenon DEF Inv
  <2> QED
    BY Zenon, <1>1, <2>1, ReceiveCases, StoredInv, SkipInv
<1>2. CASE UNCHANGED chainVars
  BY Zenon, <1>2 DEF chainVars, Inv, TypeOK, KeysAreUnused, StorageBounded,
              LateMessageOpens
<1> QED
  BY Zenon, <1>1, <1>2 DEF Next

\* A new chain satisfies the invariant.
LEMMA InitInv == Init => Inv
<1> SUFFICES ASSUME Init PROVE Inv
  BY Zenon
<1>1. chain.index = 0 /\ chain.keys = {} /\ \A n \in Counters : opens[n] = 0
  BY Zenon DEF Init
<1>2. TypeOK
  BY Zenon DEF Init, TypeOK
<1>3. KeysAreUnused
  BY <1>1 DEF KeysAreUnused
<1>4. StorageBounded
  BY <1>1, FS_EmptySet, ChainAssumption DEF ChainAssumption, StorageBounded
<1>5. LateMessageOpens
  BY <1>1, CountersAssumption DEF CountersAssumption, LateMessageOpens
<1> QED
  BY Zenon, <1>2, <1>3, <1>4, <1>5 DEF Inv

\* The invariant holds in every reachable state of a receiver chain.
THEOREM Invariance == Spec => []Inv
BY InitInv, NextInv, PTL DEF Spec

\* Keys that were used are never stored or derived again.
THEOREM UsedKeysAreGone == Spec => []KeysAreUnused
<1>1. Inv => KeysAreUnused
  BY Zenon DEF Inv
<1> QED
  BY <1>1, Invariance, PTL

\* The stored keys never exceed MAX_MESSAGE_KEYS, whatever its value.
THEOREM StorageIsBounded == Spec => []StorageBounded
<1>1. Inv => StorageBounded
  BY Zenon DEF Inv
<1> QED
  BY <1>1, Invariance, PTL

\* A message that is late by no more than MAX_MESSAGE_KEYS has its key stored.
THEOREM LateMessagesOpen == Spec => []LateMessageOpens
<1>1. Inv => LateMessageOpens
  BY Zenon DEF Inv
<1> QED
  BY <1>1, Invariance, PTL

\* get_or_create_message_key implements AtMostOnce: no repeated or reordered
\* delivery opens the message of a counter twice.
THEOREM Refinement == Spec => OpensOnce
<1>1. Init => Once!Init
  BY Zenon DEF Init, Once!Init
<1>2. Inv /\ [Next]_chainVars => [Once!Next]_opens
  <2> SUFFICES ASSUME Inv, NEW n \in Counters, Receive(n) PROVE Once!Open
    BY Zenon DEF Next, chainVars, Once!Next
  <2>1. /\ opens' = [opens EXCEPT ![n] = @ + 1]
        /\ n < chain.index => n \in chain.keys
    <3>1. n \in Nat /\ chain.index \in Nat
      BY Zenon, CountersAssumption DEF CountersAssumption, Inv, TypeOK
    <3> QED
      BY <3>1, ReceiveCases DEF Inv
  <2>2. opens[n] = 0 /\ n \in DOMAIN opens
    BY <2>1 DEF Inv, TypeOK, KeysAreUnused
  <2>3. opens' = [opens EXCEPT ![n] = 1]
    BY <2>1, <2>2
  <2> QED
    BY Zenon, <2>2, <2>3 DEF Once!Open
<1> QED
  BY <1>1, <1>2, Invariance, PTL DEF Spec, OpensOnce, Once!Spec

\* The chain and its counts keep their types for any set of counters.
THEOREM TypeCorrect == Spec => []TypeOK
<1>1. Inv => TypeOK
  BY Zenon DEF Inv
<1> QED
  BY <1>1, Invariance, PTL

-----------------------------------------------------------------------------
(* The padding of a message *)

\* The largest element of a set of integers, where there is one.
LEMMA LargestIsMax ==
  ASSUME NEW S \in SUBSET Int, NEW x \in S, \A y \in S : y <= x
  PROVE  Max(S) = x
<1> DEFINE m == Max(S)
<1>1. m \in S /\ \A y \in S : m >= y
  BY Zenon DEF Max
<1> HIDE DEF m
<1>2. m = x
  BY <1>1
<1> QED
  BY Zenon, <1>2 DEF m

\* What MessageSender makes of a content: its bytes, the mark, and the zeros.
LEMMA PadFacts ==
  ASSUME NEW bytes \in Seq(Int), NEW zeros \in Nat, NEW padded, padded = Pad(bytes, zeros)
  PROVE  /\ padded \in Seq(Int)
         /\ Len(padded) = Len(bytes) + 1 + zeros
         /\ \A i \in 1..Len(bytes) : padded[i] = bytes[i]
         /\ padded[Len(bytes) + 1] = 128
         /\ \A i \in (Len(bytes) + 2)..Len(padded) : padded[i] = 0
<1> DEFINE n == Len(bytes)
           a == Append(bytes, 128)
           b == [i \in 1..zeros |-> 0]
<1>1. n \in Nat
  BY Zenon, LenProperties
<1>2. a \in Seq(Int) /\ Len(a) = n + 1 /\ a[n + 1] = 128 /\ \A i \in 1..n : a[i] = bytes[i]
  BY AppendProperties
<1>3. b \in Seq(Int) /\ Len(b) = zeros /\ \A i \in 1..zeros : b[i] = 0
  OBVIOUS
<1> HIDE DEF n, a, b
<1>4. /\ a \o b \in Seq(Int) /\ Len(a \o b) = n + 1 + zeros
      /\ \A i \in 1..(n + 1 + zeros) : (a \o b)[i] = IF i <= n + 1 THEN a[i] ELSE b[i - (n + 1)]
  <2>0. a \in Seq(Int) /\ b \in Seq(Int)
    BY Zenon, <1>2, <1>3
  <2>1. /\ a \o b \in Seq(Int) /\ Len(a \o b) = Len(a) + Len(b)
        /\ \A i \in 1..(Len(a) + Len(b)) :
             (a \o b)[i] = IF i <= Len(a) THEN a[i] ELSE b[i - Len(a)]
    BY Zenon, <2>0, ConcatProperties
  <2> QED
    BY <1>2, <1>3, <2>1
<1>5. padded = a \o b
  BY Zenon DEF Pad, a, b
<1>6. \A i \in 1..n : padded[i] = bytes[i]
  BY <1>1, <1>2, <1>4, <1>5
<1>7. padded[n + 1] = 128
  BY <1>1, <1>2, <1>4, <1>5
<1>8. ASSUME NEW i \in (n + 2)..(n + 1 + zeros) PROVE padded[i] = 0
  <2>1. ~(i <= n + 1) /\ i \in 1..(n + 1 + zeros) /\ i - (n + 1) \in 1..zeros
    BY <1>1
  <2> QED
    BY Zenon, <1>3, <1>4, <1>5, <2>1
<1> QED
  BY ZenonT(30), <1>4, <1>5, <1>6, <1>7, <1>8 DEF n

\* Whatever the content ends with, MessageReceiver takes off what was put on.
LEMMA UnpadUndoesPad ==
  ASSUME NEW bytes \in Seq(Int), NEW zeros \in Nat
  PROVE  Unpad(Pad(bytes, zeros)) = bytes
<1> DEFINE n == Len(bytes)
           padded == Pad(bytes, zeros)
           S == {0} \cup {i \in DOMAIN padded : padded[i] # 0}
<1>1. n \in Nat
  BY Zenon, LenProperties
<1>2. /\ padded \in Seq(Int) /\ Len(padded) = n + 1 + zeros
      /\ \A i \in 1..n : padded[i] = bytes[i]
      /\ padded[n + 1] = 128
      /\ \A i \in (n + 2)..Len(padded) : padded[i] = 0
  BY PadFacts
<1>3. Unpad(padded) = SubSeq(padded, 1, IF Max(S) > 0 /\ padded[Max(S)] = 128
                                         THEN Max(S) - 1 ELSE Max(S))
  BY Zenon DEF Unpad
<1> HIDE DEF padded, n
<1>4. DOMAIN padded = 1..(n + 1 + zeros)
  BY <1>2
<1>5. Max(S) = n + 1
  <2>1. S \in SUBSET Int
    BY <1>1, <1>4
  <2>2. n + 1 \in S
    BY <1>1, <1>2, <1>4
  <2>3. ASSUME NEW y \in S PROVE y <= n + 1
    BY <1>1, <1>2, <1>4
  <2> HIDE DEF S
  <2> QED
    BY Zenon, <2>1, <2>2, <2>3, LargestIsMax
<1> HIDE DEF S
<1>6. Unpad(padded) = SubSeq(padded, 1, n)
  <2>1. n + 1 > 0 /\ (n + 1) - 1 = n
    BY <1>1
  <2> QED
    BY Zenon, <1>2, <1>3, <1>5, <2>1
<1>7. \A i \in 1..n : padded[i] \in Int
  BY <1>1, <1>2
<1>8. SubSeq(padded, 1, n) \in Seq(Int) /\ Len(SubSeq(padded, 1, n)) = n
      /\ \A i \in 1..n : SubSeq(padded, 1, n)[i] = padded[i]
  BY <1>1, <1>7, SubSeqProperties
<1>9. SubSeq(padded, 1, n) = bytes
  BY <1>2, <1>8, SeqEqual DEF n
<1> QED
  BY Zenon, <1>6, <1>9 DEF padded

\* The receiver gets the content that was sent, for contents of any length,
\* also one that ends with zeros or with the mark, and any padding.
THEOREM PaddingTakenOff == PaddingSpec => []PaddingComesOff
<1> DEFINE Bytewise == content \in Seq(Int)
<1>1. PaddingInit => Bytewise
  BY Zenon, EmptySeq DEF PaddingInit
<1>2. Bytewise /\ [PaddingNext]_content => Bytewise'
  <2> SUFFICES ASSUME Bytewise, [PaddingNext]_content PROVE Bytewise'
    BY Zenon
  <2>1. ASSUME NEW b \in Int PROVE Append(content, b) \in Seq(Int)
    OBVIOUS
  <2>2. CASE PaddingNext
    <3>1. PICK b \in {0, 1, 128} : content' = Append(content, b)
      BY Zenon, <2>2 DEF PaddingNext
    <3>2. b \in Int
      OBVIOUS
    <3> QED
      BY <2>1, <3>1, <3>2
  <2>3. CASE UNCHANGED content
    BY Zenon, <2>3
  <2> QED
    BY Zenon, <2>2, <2>3
<1>3. Bytewise => PaddingComesOff
  <2> SUFFICES ASSUME Bytewise, NEW zeros \in 0..MaxZeros
               PROVE  Unpad(Pad(content, zeros)) = content
    BY Zenon DEF PaddingComesOff
  <2>1. zeros \in Nat
    OBVIOUS
  <2> QED
    BY Zenon, <2>1, UnpadUndoesPad
<1> QED
  BY <1>1, <1>2, <1>3, PTL DEF PaddingSpec

=============================================================================
