--------------------------- MODULE MCSeparateParts ---------------------------
(***************************************************************************)
(* Model-checks together the parts that share no state with any other: the *)
(* receiver chain, registration, contacts, key transparency, the           *)
(* incremental MAC and the padding.  A behaviour is about one of them, the *)
(* rest stand still.                                                       *)
(***************************************************************************)
EXTENDS ReceiverChain, Registration, Contacts, KeyTransparency, IncrementalMac, Padding

VARIABLE subject

partsVars == <<chainVars, registrationVars, contactsVars, keyVars, macVars, content,
               subject>>

PartsInit ==
  /\ subject \in {"chain", "registration", "contacts", "keys", "mac", "padding"}
  /\ Init
  /\ RegistrationInit
  /\ ContactsInit /\ (subject # "contacts" => profile.name /\ profile.avatar)
  /\ KeysInit /\ (subject # "keys" => start = Min(Starts))
  /\ MacInit /\ (subject # "mac" => chunkSize = 1)
  /\ PaddingInit

Chain ==
  /\ subject = "chain" /\ Next
  /\ UNCHANGED <<registrationVars, contactsVars, keyVars, macVars, content, subject>>
Registers ==
  /\ subject = "registration" /\ RegistrationNext
  /\ UNCHANGED <<chainVars, contactsVars, keyVars, macVars, content, subject>>
KnowsContacts ==
  /\ subject = "contacts" /\ ContactsNext
  /\ UNCHANGED <<chainVars, registrationVars, keyVars, macVars, content, subject>>
Keys ==
  /\ subject = "keys" /\ KeysNext
  /\ UNCHANGED <<chainVars, registrationVars, contactsVars, macVars, content, subject>>
Mac ==
  /\ subject = "mac" /\ MacNext
  /\ UNCHANGED <<chainVars, registrationVars, contactsVars, keyVars, content, subject>>
Pads ==
  /\ subject = "padding" /\ PaddingNext
  /\ UNCHANGED <<chainVars, registrationVars, contactsVars, keyVars, macVars, subject>>

PartsNext == Chain \/ Registers \/ KnowsContacts \/ Keys \/ Mac \/ Pads

PartsSpec == PartsInit /\ [][PartsNext]_partsVars

=============================================================================
