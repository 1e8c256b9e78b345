---------------------------- MODULE Registration ----------------------------
(***************************************************************************)
(* Registration: LoginActivity with the captcha, ProfileSetupActivity, and *)
(* what CredentialsManager and SharedPrefsSignalProtocolStore keep of it.  *)
(*                                                                         *)
(* Every press of the login button makes keys and a password of its own:   *)
(* an attempt stands for them.  Requests are answered on the main thread,  *)
(* also after the activity that made them is gone; the server may have     *)
(* acted although its answer gets lost.  Credentials and keys are written  *)
(* to two files by apply(), the credentials first.                         *)
(***************************************************************************)
EXTENDS Integers, FiniteSets

CONSTANTS Attempts,  \* bound: presses of the login button
          None

VARIABLES
  account,    \* server: the attempt whose keys and password the account has
  uploadedKeys, \* server: the one-time prekeys of the account, by identity
  creds,      \* CredentialsManager: password and profile key
  keys,       \* SharedPrefsSignalProtocolStore: identity and prekeys
  files,      \* what of them is on disk
  screen,     \* the activity in front
  page,       \* the login screen asks for the phone number or for the code
  enabled,    \* the enabled ones of btnRequestSms and btnLogin
  sms,        \* the request for a code under way
  call,       \* where each attempt is
  mine,       \* the attempts of the activity in front
  unsure,     \* history: attempts overlapped, the answer to a registration
              \* got lost, or the process died before both files were written
  smsFailed   \* history: the code could not be requested, in this activity

server == <<account, uploadedKeys>>
stored == <<creds, keys, files>>
login == <<screen, page, enabled, sms, smsFailed>>
registrationVars == <<server, stored, login, call, mine, unsure>>

Identities == {"aci", "pni"}
UnderWay(a) == call[a] \notin {"new", "over"}

FreshLogin == /\ page' = "phone" /\ enabled' = {"sms", "login"}
              /\ sms' = "idle" /\ smsFailed' = FALSE /\ mine' = {}

RegistrationInit ==
  /\ account = None /\ uploadedKeys = [i \in Identities |-> None]
  /\ creds = None /\ keys = None /\ files = [creds |-> None, keys |-> None]
  /\ screen = "off" /\ page = "phone" /\ sms = "idle"
  /\ enabled = {"sms", "login"}
  /\ call = [a \in Attempts |-> "new"] /\ mine = {}
  /\ unsure = FALSE /\ smsFailed = FALSE

-----------------------------------------------------------------------------
(* Activities and the process *)

\* onCreate: with credentials straight to the home screen.
Launch ==
  /\ screen = "off"
  /\ screen' = IF creds # None THEN "home" ELSE "login"
  /\ FreshLogin
  /\ UNCHANGED <<server, stored, call, unsure>>

\* The user leaves, or the activity is destroyed; its requests go on.
Leave ==
  /\ screen # "off"
  /\ screen' = "off"
  /\ FreshLogin
  /\ UNCHANGED <<server, stored, call, unsure>>

\* apply(): the credentials' file is written before the keys' file.
Flush ==
  /\ IF files.creds # creds THEN files' = [files EXCEPT !.creds = creds]
     ELSE files.keys # keys /\ files' = [files EXCEPT !.keys = keys]
  /\ UNCHANGED <<server, creds, keys, login, call, mine, unsure>>

ProcessDies ==
  /\ creds' = files.creds /\ keys' = files.keys
  /\ screen' = "off"
  /\ FreshLogin
  /\ call' = [a \in Attempts |-> IF UnderWay(a) THEN "over" ELSE call[a]]
  /\ unsure' = \/ unsure \/ files # [creds |-> creds, keys |-> keys]
                \/ \E a \in Attempts : call[a] = "registered"
  /\ UNCHANGED <<server, files>>

-----------------------------------------------------------------------------
(* btnRequestSms: createSession, requestSms, the captcha and patchSession *)

RequestSms ==
  /\ screen = "login" /\ page = "phone" /\ "sms" \in enabled
  /\ enabled' = enabled \ {"sms"}
  /\ sms' = "session"
  /\ UNCHANGED <<server, stored, screen, page, smsFailed, call, mine, unsure>>

SessionRefused == enabled' = enabled \cup {"sms"}

SessionAnswer ==
  /\ sms = "session"
  /\ \/ sms' = "sms" /\ UNCHANGED enabled
     \/ sms' = "idle" /\ SessionRefused
  /\ UNCHANGED <<server, stored, screen, page, smsFailed, call, mine, unsure>>

\* Sent; a captcha is wanted; or refused, and the button is not enabled again.
SmsAnswer ==
  /\ sms = "sms"
  /\ \/ sms' = "idle" /\ page' = "code" /\ UNCHANGED smsFailed
     \/ sms' = "captcha" /\ UNCHANGED <<page, smsFailed>>
     \/ sms' = "idle" /\ smsFailed' = TRUE /\ UNCHANGED page
  /\ UNCHANGED <<server, stored, screen, enabled, call, mine, unsure>>

\* onActivityResult, and the answer to patchSession.
CaptchaAnswer ==
  /\ sms = "captcha"
  /\ \/ sms' = "sms" /\ UNCHANGED smsFailed
     \/ sms' = "idle" /\ smsFailed' = TRUE
  /\ UNCHANGED <<server, stored, screen, page, enabled, call, mine, unsure>>

-----------------------------------------------------------------------------
(* btnLogin: verifySmsCode, registerAccount, uploadPreKeys twice *)

ClickLogin(a) ==
  /\ screen = "login" /\ page = "code" /\ "login" \in enabled
  /\ call[a] = "new"
  /\ call' = [call EXCEPT ![a] = "verify"]
  /\ enabled' = enabled \ {"login"}
  /\ mine' = mine \cup {a}
  /\ unsure' = (unsure \/ \E b \in Attempts \ mine : UnderWay(b))
  /\ UNCHANGED <<server, stored, screen, page, sms, smsFailed>>

\* Any failure: btnLogin of the attempt's own activity is enabled again.
Fail(a) ==
  /\ call' = [call EXCEPT ![a] = "over"]
  /\ enabled' = IF a \in mine THEN enabled \cup {"login"} ELSE enabled
  /\ UNCHANGED <<screen, page, sms, smsFailed>>

Goes(a, where) == call' = [call EXCEPT ![a] = where] /\ UNCHANGED login

\* The code is right, and registerAccount is sent with new keys; or it is not.
VerifyAnswer(a) ==
  /\ call[a] = "verify"
  /\ Goes(a, "register") \/ Fail(a)
  /\ UNCHANGED <<server, stored, mine, unsure>>

\* The server registers the account anew, without one-time prekeys; or refuses,
\* or is not reached.
ServerRegisters(a) ==
  /\ call[a] = "register"
  /\ \/ /\ account' = a /\ uploadedKeys' = [i \in Identities |-> None]
        /\ Goes(a, "registered")
     \/ Fail(a) /\ UNCHANGED server
  /\ UNCHANGED <<stored, mine, unsure>>

\* Mutant: credentials of an earlier attempt are kept.
SaveCredentialsOnce(a) == creds' = (IF creds = None THEN a ELSE creds) /\ keys' = a

\* saveCredentials, saveSignalKeys, saveProfileKey; then the store's keys.
SaveCredentials(a) == creds' = a /\ keys' = a

RegisterAnswer(a) ==
  /\ call[a] = "registered"
  /\ \/ SaveCredentials(a) /\ Goes(a, "aci") /\ UNCHANGED unsure
     \/ Fail(a) /\ unsure' = TRUE /\ UNCHANGED <<creds, keys>>
  /\ UNCHANGED <<server, files, mine>>

\* uploadPreKeys, which needs the password of the account.
ServerTakesPreKeys(a, i) ==
  /\ call[a] = i
  /\ \/ /\ account = a
        /\ uploadedKeys' = [uploadedKeys EXCEPT ![i] = a]
        /\ Goes(a, IF i = "aci" THEN "aci taken" ELSE "pni taken")
     \/ Fail(a) /\ UNCHANGED uploadedKeys
  /\ UNCHANGED <<account, stored, mine, unsure>>

\* Mutant: the prekeys of one identity are thought enough.
PreKeysAnswerAci(a) ==
  /\ call[a] = "aci taken"
  /\ call' = [call EXCEPT ![a] = "over"]
  /\ screen' = "setup"
  /\ UNCHANGED <<server, stored, page, enabled, sms, smsFailed, mine, unsure>>

\* The answers; after the second one ProfileSetupActivity takes over.
PreKeysAnswer(a) ==
  /\ \/ call[a] = "aci taken" /\ Goes(a, "pni")
     \/ /\ call[a] = "pni taken"
        /\ call' = [call EXCEPT ![a] = "over"]
        /\ screen' = "setup"
        /\ UNCHANGED <<page, enabled, sms, smsFailed>>
     \/ call[a] \in {"aci taken", "pni taken"} /\ Fail(a)
  /\ UNCHANGED <<server, stored, mine, unsure>>

\* uploadProfile; while it fails, the button is there to try again.
SaveProfile ==
  /\ screen = "setup"
  /\ screen' = "home"
  /\ UNCHANGED <<server, stored, page, enabled, sms, smsFailed, call, mine, unsure>>

AttemptStep(a) ==
  \/ VerifyAnswer(a) \/ ServerRegisters(a) \/ RegisterAnswer(a)
  \/ \E i \in Identities : ServerTakesPreKeys(a, i)
  \/ PreKeysAnswer(a)

RegistrationNext ==
  \/ Launch \/ Leave \/ Flush \/ ProcessDies
  \/ RequestSms \/ SessionAnswer \/ SmsAnswer \/ CaptchaAnswer
  \/ \E a \in Attempts : ClickLogin(a) \/ AttemptStep(a)
  \/ SaveProfile

RegistrationSpec == RegistrationInit /\ [][RegistrationNext]_registrationVars

-----------------------------------------------------------------------------
RegistrationTypeOK ==
  /\ account \in Attempts \cup {None}
  /\ creds \in Attempts \cup {None} /\ keys \in Attempts \cup {None}
  /\ uploadedKeys \in [Identities -> Attempts \cup {None}]
  /\ files \in [creds : Attempts \cup {None}, keys : Attempts \cup {None}]
  /\ screen \in {"off", "login", "setup", "home"} /\ page \in {"phone", "code"}
  /\ enabled \subseteq {"sms", "login"}
  /\ sms \in {"idle", "session", "sms", "captcha"}
  /\ call \in [Attempts -> {"new", "verify", "register", "registered", "aci",
                            "aci taken", "pni", "pni taken", "over"}]
  /\ mine \subseteq Attempts

\* However requests fail, an activity registers once at a time: two sets of keys
\* never race from one login screen.
OneAtATime == \A a, b \in mine : UnderWay(a) /\ UnderWay(b) => a = b

\* The login screen never waits for nothing: with no request under way, the
\* button of its page is enabled on every error path.  The request for the code
\* is the exception: after an error there btnRequestSms stays disabled.
NeverStuck ==
  screen = "login" =>
    IF page = "phone" THEN sms # "idle" \/ "sms" \in enabled \/ smsFailed
    ELSE "login" \in enabled \/ \E a \in mine : UnderWay(a)

\* What the app has saved opens the account, with the keys the server gives to
\* others, through failures, new attempts and deaths of the process, unless two
\* attempts overlapped, the answer of registerAccount got lost, or the process
\* died before apply() had written both files.
CredentialsAreCurrent ==
  creds # None /\ ~unsure /\ ~(\E a \in Attempts : call[a] = "registered")
    => creds = account /\ keys = account

\* The one-time prekeys the server gives out for either identity are ones whose
\* private halves the app has saved, under the same exceptions.
PreKeysAreOurs ==
  \A i \in Identities : uploadedKeys[i] # None /\ ~unsure => uploadedKeys[i] = keys

\* The user comes to the profile set-up only when the prekeys of both identities
\* are uploaded for the account as it is registered, unless attempts overlapped.
SetupHasPreKeys ==
  [][screen' = "setup" /\ screen # "setup" =>
       unsure \/ \A i \in Identities : uploadedKeys[i] = account]_registrationVars

=============================================================================
