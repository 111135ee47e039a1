--------------------------------- MODULE PairCU ---------------------------------
(***************************************************************************)
(* src/lockdown-cu.c under tools/idevicepair.c -w: a device that shows a   *)
(* PIN is paired in six steps of SRP, three messages each way, after which *)
(* both sides have a key; requests under that key ask for what a pair      *)
(* record needs and make the device accept it.  The host is synchronous:   *)
(* each of its messages and the answer to it are one action, and a message *)
(* or its answer may be lost.  Ciphers and hashes are what they do: what   *)
(* was made under one key can be read under that key alone.                *)
(***************************************************************************)
EXTENDS Naturals

CONSTANTS Attempts  \* bound: pairings that are begun

VARIABLES
  pc,        \* where the host is
  attempt,   \* the number of the pairing
  state,     \* current_state
  thekey,    \* the key of this pairing on the host, 0 for none
  cuKey,     \* client->cu_key, 0 for none
  devState,  \* the last message of a pairing that the device has accepted
  devTry,    \* the pairing that it is in, 0 for none
  devKey,    \* its key
  pinRight,  \* the PIN that was typed is the one the device shows
  ret,       \* what the last call returned: "ok" or "error"
  values,    \* which values the device gave: a subset of {"WiFiAddress", "DevicePublicKey"}
  record,    \* the pair record made by the host, 0 for none
  known,     \* the pair record that the device has accepted
  saved,     \* the pair record on the host's disk
  spoilt     \* history: a pairing was begun again after one had succeeded

devVars == <<devState, devTry, devKey, known>>
vars == <<pc, attempt, state, thekey, cuKey, devVars, pinRight, ret, values, record, saved, spoilt>>

\* a key that the device cannot have: the host made it with a wrong PIN
WrongKey == Attempts + 1

Init ==
  /\ pc = "idle" /\ attempt = 0 /\ state = 0 /\ thekey = 0 /\ cuKey = 0
  /\ devState = 0 /\ devTry = 0 /\ devKey = 0 /\ pinRight = TRUE
  /\ ret = "ok" /\ values = {} /\ record = 0 /\ known = 0 /\ saved = 0 /\ spoilt = FALSE

-----------------------------------------------------------------------------
(* lockdownd_cu_pairing_create *)

\* what ends the pairing early leaves cu_key as it was
Abort ==
  /\ pc' = "idle" /\ ret' = "error" /\ thekey' = 0
  /\ UNCHANGED <<cuKey, state>>

\* the messages 1 and 2: the device gives its salt and its public key, and shows the PIN; it
\* may have forgotten the key of an earlier pairing; the PIN is asked for once
Begin ==
  /\ pc = "idle" /\ attempt < Attempts
  /\ attempt' = attempt + 1
  /\ spoilt' = (spoilt \/ cuKey # 0)
  /\ \/ devTry' = attempt' /\ devState' = 1 /\ devKey' \in {0, devKey}
     \/ UNCHANGED <<devTry, devState, devKey>>
  /\ \/ Abort /\ UNCHANGED pinRight
     \/ /\ devTry' = attempt'
        /\ pinRight' \in BOOLEAN
        /\ state' = 2 /\ pc' = "prove"
        /\ UNCHANGED <<thekey, cuKey, ret>>
  /\ UNCHANGED <<known, values, record, saved>>

\* mutant: the key is kept before the device has proved that it has it
Prove_Keeps ==
  /\ pc = "prove" /\ state = 2
  /\ cuKey' = IF pinRight THEN attempt ELSE WrongKey
  /\ thekey' = cuKey'
  /\ \/ pc' = "idle" /\ ret' = "error" /\ UNCHANGED <<state, devState>>
     \/ pinRight /\ devState' = 3 /\ state' = 4 /\ pc' = "exchange" /\ UNCHANGED ret
  /\ UNCHANGED <<attempt, devTry, devKey, pinRight, known, values, record, saved, spoilt>>

\* the messages 3 and 4: each side proves that it has the key, the host first
Prove ==
  /\ pc = "prove" /\ state = 2
  /\ \/ devState' = IF pinRight THEN 3 ELSE 0
     \/ UNCHANGED devState
  /\ \/ Abort
     \/ /\ devState' = 3
        /\ thekey' = attempt /\ state' = 4 /\ pc' = "exchange"
        /\ UNCHANGED <<cuKey, ret>>
  /\ UNCHANGED <<attempt, devTry, devKey, pinRight, known, values, record, saved, spoilt>>

\* the messages 5 and 6: keys and names under the key; the device has it from now on, also
\* when its answer is lost
Exchange ==
  /\ pc = "exchange" /\ state = 4
  /\ \/ devState' = 5 /\ devKey' = devTry
     \/ UNCHANGED <<devState, devKey>>
  /\ \/ Abort
     \/ /\ devState' = 5
        /\ cuKey' = thekey /\ thekey' = 0
        /\ state' = 0 /\ ret' = "ok" /\ pc' = "idle"
  /\ UNCHANGED <<attempt, devTry, pinRight, known, values, record, saved, spoilt>>

-----------------------------------------------------------------------------
(* lockdownd_cu_send_request_and_get_reply *)

\* a request that the device can read is one under its own key
Heard == cuKey = devKey /\ cuKey # 0

\* mutant: a refusal is not noticed
Request_Any(heard) == ret' = "ok" /\ (heard \/ ~heard)

\* no answer, a refusal, or one that cannot be read end the call; heard: the device acts
Request(heard) ==
  \/ ret' = "error"
  \/ heard /\ ret' = "ok"

\* lockdownd_get_value_cu succeeds also when the reply has no value
GetValue(name) ==
  /\ Request(Heard)
  /\ IF ret' = "ok" THEN values' \in {values, values \union {name}} ELSE UNCHANGED values

-----------------------------------------------------------------------------
(* lockdownd_pair_cu *)

PairCu ==
  /\ pc = "idle" /\ record = 0
  /\ IF cuKey = 0 THEN ret' = "error" /\ UNCHANGED <<pc, values>>
     ELSE GetValue("WiFiAddress") /\ pc' = (IF ret' = "ok" THEN "pubkey" ELSE "idle")
  /\ UNCHANGED <<attempt, state, thekey, cuKey, devVars, pinRight, record, saved, spoilt>>

\* the record is made of whatever key has come
PublicKey ==
  /\ pc = "pubkey"
  /\ GetValue("DevicePublicKey")
  /\ IF ret' = "ok" THEN pc' = "pair" /\ record' = attempt ELSE pc' = "idle" /\ UNCHANGED record
  /\ UNCHANGED <<attempt, state, thekey, cuKey, devVars, pinRight, saved, spoilt>>

\* the device may have accepted the record when its answer is lost
Pair ==
  /\ pc = "pair"
  /\ Request(Heard)
  /\ known' \in (IF Heard THEN (IF ret' = "ok" THEN {record} ELSE {known, record}) ELSE {known})
  /\ IF ret' = "ok" THEN pc' = "save" /\ UNCHANGED record ELSE pc' = "idle" /\ record' = 0
  /\ UNCHANGED <<attempt, state, thekey, cuKey, devState, devTry, devKey, pinRight, values, saved, spoilt>>

\* a record that could not be saved is a success too
Save ==
  /\ pc = "save" /\ pc' = "idle"
  /\ saved' \in {saved, record} /\ record' = 0
  /\ ret' = "ok"
  /\ UNCHANGED <<attempt, state, thekey, cuKey, devVars, pinRight, values, spoilt>>

\* the host ends between any two steps, and what it had in memory is lost
Crash ==
  /\ pc # "crashed"
  /\ pc' = "crashed" /\ state' = 0 /\ thekey' = 0 /\ cuKey' = 0 /\ record' = 0 /\ values' = {}
  /\ UNCHANGED <<attempt, devVars, pinRight, ret, saved, spoilt>>

Restart ==
  /\ pc = "crashed" /\ pc' = "idle"
  /\ UNCHANGED <<attempt, state, thekey, cuKey, devVars, pinRight, ret, values, record, saved, spoilt>>

Create == Begin \/ Prove \/ Exchange
Next == Create \/ PairCu \/ PublicKey \/ Pair \/ Save \/ Crash \/ Restart

-----------------------------------------------------------------------------
(* Properties *)

TypeOK ==
  /\ pc \in {"idle", "prove", "exchange", "pubkey", "pair", "save", "crashed"}
  /\ attempt \in 0..Attempts /\ state \in {0, 2, 4} /\ devState \in {0, 1, 3, 5}
  /\ {thekey, cuKey, devTry, devKey, record, known, saved} \subseteq 0..WrongKey
  /\ values \subseteq {"WiFiAddress", "DevicePublicKey"}

\* The key that the host keeps is the device's (lockdown-cu.c:926: it is kept only when all
\* six steps are done, after each side has proved that it has it), unless another pairing was
\* begun since: what ends early leaves the old key, which the device may have forgotten.
KeyAgreed == cuKey # 0 /\ ~spoilt => cuKey = devKey

\* A pair record is kept on the host only when the device has accepted that one
\* (lockdown-cu.c:1183), as long as no later one was begun.
RecordAccepted ==
  /\ pc = "save" => known = record
  /\ saved # 0 => known \in saved..attempt
================================================================================
