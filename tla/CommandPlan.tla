---------------------------- MODULE CommandPlan ----------------------------
(***************************************************************************)
(* HwiCommand::plan (types.rs) and what it rests on: which commands, names, *)
(* policies, keys and PSBTs may reach a device of each family, and which   *)
(* response the command may then be answered with (Expect), and what the    *)
(* host is given for it (Interp::end).                                     *)
(*                                                                         *)
(* A text is described by what the checks ask of it.  A name is its length, *)
(* the class of its characters and whether a space is at either end; a     *)
(* path is valid or not and has a first component; a key is what the       *)
(* descriptor parser made of it, with an origin that is None, or the path   *)
(* after its fingerprint.  Texts that do not parse are the value    *)
(* Bad.  The core may refuse a command that passed these checks, and       *)
(* answers the others with any response; both are external.                *)
(***************************************************************************)
EXTENDS Integers, Sequences

CONSTANTS Kinds,     \* device families
          Commands,  \* the commands asked
          None, Bad

(* What the source tells apart by type. *)
ASSUME NoneAssumption ==
  /\ None \notin {"short", "zero", "set"} /\ Bad # << >>
  /\ \A c \in Commands :
       c # None /\ (c.op = "RegisterWallet" => \A h \in {None, "set"} :
         None # [name |-> c.name, descriptor |-> c.descriptor, hmac |-> h])

ASSUME PlanAssumption ==
  Kinds \subseteq {"Ledger", "Coldcard", "BitBox", "Jade", "Trezor", "KeepKey", "Specter"}

(* The commands of the enum HwiCommand. *)
Ops == {"Unlock", "GetVersion", "PromptPin", "SendPin", "GetMasterFingerprint", "GetXpub",
        "DisplayAddress", "DisplayDescriptorAddress", "DisplayMultisigAddress",
        "RegisterWallet", "SignMessage", "SignPsbt"}

ASSUME CommandsAssumption == \A c \in Commands : c.op \in Ops

(* What the parsers make of a key, and of a policy to sign with.  An       *)
(* extended key is always compressed.                                      *)
Steps == [n : Nat, hard : BOOLEAN]

KeyTexts ==
  {x \in [form : {"xpub", "multi", "single"}, net : {"main", "test"}, depth : Nat, child : Steps,
          suffix : {"branches", "others", "receive", "concrete", "hardened", "hardwild", "none"},
          compressed : BOOLEAN, origin : {None} \cup Seq(Steps)] :
     x.form # "single" => x.compressed}

Wrappers == {"pkh", "sh(wpkh)", "wpkh", "tr", "wsh", "bare"}

PolicyText(p) ==
  /\ p.name.len \in Nat
  /\ p.hmac \in {None, "short", "zero", "set"}
  /\ p.descriptor = Bad \/ p.descriptor \in [wrapper : Wrappers, keys : Seq(KeyTexts)]

ASSUME PoliciesAssumption ==
  \A c \in Commands : c.op = "SignPsbt" /\ c.policy # None => PolicyText(c.policy)

VARIABLES kind, command, stage, result

vars == <<kind, command, stage, result>>

Stages == {"idle", "asked", "refused", "sent", "done"}
(* What the core may answer (bc::Response), and what end() makes of it      *)
(* (HwiResponse).  "Unmodelled" are backup blobs and the like.             *)
Responses == {"TaskDone", "DeviceAction", "Info", "MasterFingerprint", "Xpub", "Address",
              "Signature", "SignedPsbt", "WalletRegistration", "EncryptionKey", "Unmodelled"}
Answers   == {"TaskDone", "DeviceAction", "Info", "Fingerprint", "Xpub", "Address",
              "MessageSignature", "SignedPsbt", "WalletRegistration", "Other"}

TypeOK ==
  /\ kind \in Kinds
  /\ stage \in Stages
  /\ stage = "idle" => command = None
  /\ result \in Answers \cup {"none", "invalid", "device", "authrefused", "userrefused",
                            "unlocked"}

Init ==
  /\ kind \in Kinds /\ command = None
  /\ stage = "idle" /\ result = "none"

-----------------------------------------------------------------------------
(* validate_policy_name.  Classes of characters: letters, digits and '_'   *)
(* only ("word"), other printable ASCII without '&' ("plain"), printable   *)
(* ASCII with '&' ("ampersand"), text beyond ASCII ("text"), or a control  *)
(* character somewhere ("control").                                        *)
Ascii == {"word", "plain", "ampersand"}

Printable(n, max) ==
  /\ n.len \in 1 .. max
  /\ n.class \in Ascii
  /\ ~n.edge

(* Mutant of ValidName: `registration` is read the wrong way round. *)
ValidNameInverted(n, k, registration) ==
  CASE k = "Ledger"   -> (registration /\ n.len = 0) \/ Printable(n, 64)
    [] k = "Jade"     -> n.len \in 1 .. 16 /\ n.class = "word"
    [] k = "Coldcard" -> n.len \in 2 .. 20 /\ n.class \in Ascii
    [] k = "BitBox"   -> Printable(n, 30)
    [] k = "Specter"  -> n.len > 0 /\ n.class \notin {"ampersand", "control"}
    [] OTHER          -> n.class # "control"

ValidName(n, k, registration) ==
  CASE k = "Ledger"   -> (~registration /\ n.len = 0) \/ Printable(n, 64)
    [] k = "Jade"     -> n.len \in 1 .. 16 /\ n.class = "word"
    [] k = "Coldcard" -> n.len \in 2 .. 20 /\ n.class \in Ascii
    [] k = "BitBox"   -> Printable(n, 30)
    [] k = "Specter"  -> n.len > 0 /\ n.class \notin {"ampersand", "control"}
    [] OTHER          -> n.class # "control"

-----------------------------------------------------------------------------
(* parse_public_policy: origin-bearing account xpubs, nothing hardened      *)
(* after them.  Suffixes: "branches" is /<0;1>/*, "others" /<2;3>/*,        *)
(* "receive" /0/*, "concrete" /0/5, "hardened" has a hardened step,        *)
(* "hardwild" the wildcard *'; a single key has "none".                    *)

PublicKey(x) ==
  /\ x.form \in {"xpub", "multi"}
  /\ x.origin # None
  /\ x.suffix \notin {"hardened", "hardwild"}

ValidPolicy(d) ==
  /\ d # Bad
  /\ d.wrapper # "bare"
  /\ d.keys # << >>
  /\ \A i \in DOMAIN d.keys : PublicKey(d.keys[i])

(* WalletPolicy::context: the name, the HMAC, the descriptor.  The HMAC is *)
(* None, "short" (not 32 bytes), "zero" or "set".                          *)
ValidContext(p, k) ==
  /\ ValidName(p.name, k, FALSE)
  /\ p.hmac # None => k = "Ledger" /\ p.hmac # "short"
  /\ ValidPolicy(p.descriptor)

CarriesContext(p, k) == p # None /\ k \in {"Ledger", "BitBox", "Specter"}

(* validate_ledger_signing_policy: a registered policy, or the account the *)
(* device derives by itself.                                               *)
Hard(n) == [n |-> n, hard |-> TRUE]

Purpose(wrapper) ==
  CASE wrapper = "pkh" -> 44 [] wrapper = "sh(wpkh)" -> 49
    [] wrapper = "wpkh" -> 84 [] wrapper = "tr" -> 86 [] OTHER -> 0

(* Mutant of Coin: the network of the xpub is ignored. *)
CoinMainnet(x) == 0

Coin(x) == IF x.net = "main" THEN 0 ELSE 1

DefaultAccount(d) ==
  /\ Purpose(d.wrapper) # 0
  /\ Len(d.keys) = 1
  /\ LET x == d.keys[1] IN
     /\ x.form = "multi" /\ x.suffix = "branches"
     /\ \E account \in 0 .. 100 :
          /\ x.origin = <<Hard(Purpose(d.wrapper)), Hard(Coin(x)), Hard(account)>>
          /\ x.depth = 3 /\ x.child = Hard(account)

LedgerMaySign(p) ==
  IF p.hmac # None THEN p.name.len > 0 /\ p.hmac # "zero"
                   ELSE p.name.len = 0 /\ DefaultAccount(p.descriptor)

(* What marks an input as a script spend for a BitBox. *)
ScriptSpend(x) ==
  \/ x.witnessScript
  \/ x.witnessUtxo /\ x.spend = "p2wsh"
  \/ x.redeem \notin {None, "p2wpkh"}

(* parse_concrete_key. *)
ConcreteKey(x, k) ==
  /\ x.origin # None
  /\ \/ x.form = "single" /\ x.compressed /\ k # "Jade"
     \/ x.form = "xpub" /\ x.suffix = "concrete" /\ k \in {"Jade", "Trezor"}

-----------------------------------------------------------------------------
(* HwiCommand::plan, one conjunction per command. *)

Taproot(format, path) == format = "Taproot" \/ (format = None /\ path.first = 86)

PlansPin(k, c)  == c.digits = "digits" /\ k \in {"Trezor", "KeepKey"}
PlansPath(k, c) == c.path # Bad
PlansAddress(k, c) ==
  /\ c.path # Bad
  /\ ~(k = "KeepKey" /\ Taproot(c.format, c.path))
PlansRegistration(k, c) == ValidName(c.name, k, TRUE) /\ ValidPolicy(c.descriptor)
PlansDescriptorAddress(k, c) ==
  /\ ~c.index.hard
  /\ ValidContext(c.policy, k)
  /\ k \notin {"Trezor", "KeepKey"}
PlansMultisig(k, c) ==
  /\ Len(c.keys) \in 1 .. 15
  /\ c.threshold \in 1 .. Len(c.keys)
  /\ k = "KeepKey" => c.sorted
  /\ \A i \in DOMAIN c.keys : ConcreteKey(c.keys[i], k)
PlansPsbt(k, c) ==
  /\ c.inputs # Bad
  /\ c.policy # None => ValidContext(c.policy, k)
  /\ k = "Ledger" => c.policy # None /\ LedgerMaySign(c.policy)
  /\ k = "BitBox" /\ ~CarriesContext(c.policy, k) =>
       \A i \in DOMAIN c.inputs : ~ScriptSpend(c.inputs[i])

Plans(k, c) ==
  CASE c.op = "SendPin"                  -> PlansPin(k, c)
    [] c.op \in {"GetXpub", "SignMessage"} -> PlansPath(k, c)
    [] c.op = "DisplayAddress"           -> PlansAddress(k, c)
    [] c.op = "RegisterWallet"           -> PlansRegistration(k, c)
    [] c.op = "DisplayDescriptorAddress" -> PlansDescriptorAddress(k, c)
    [] c.op = "DisplayMultisigAddress"   -> PlansMultisig(k, c)
    [] c.op = "SignPsbt"                 -> PlansPsbt(k, c)
    [] OTHER                             -> TRUE

(* Mutant of Expected: Expect::Any for every command. *)
ExpectedAny(c) == Responses

(* Expect: the responses a command may be answered with. *)
Expected(c) ==
  CASE c.op = "Unlock"                      -> Responses
    [] c.op = "GetVersion"                  -> {"Info"}
    [] c.op \in {"PromptPin", "SendPin"}    -> {"DeviceAction"}
    [] c.op = "GetMasterFingerprint"        -> {"MasterFingerprint"}
    [] c.op = "GetXpub"                     -> {"Xpub"}
    [] c.op \in {"DisplayAddress", "DisplayDescriptorAddress",
                 "DisplayMultisigAddress"}  -> {"Address"}
    [] c.op = "RegisterWallet"              -> {"WalletRegistration"}
    [] c.op = "SignMessage"                 -> {"Signature"}
    [] OTHER                                -> {"SignedPsbt"}

-----------------------------------------------------------------------------
(* The host calls Interp::start with a command. *)
Ask(c) ==
  /\ stage = "idle"
  /\ stage' = "asked" /\ command' = c
  /\ UNCHANGED <<kind, result>>

(* Interp::start plans the command: InvalidInput, or the core is asked.    *)
Start ==
  /\ stage = "asked"
  /\ stage' = IF Plans(kind, command) THEN "sent" ELSE "refused"
  /\ result' = IF Plans(kind, command) THEN "none" ELSE "invalid"
  /\ UNCHANGED <<kind, command>>

(* map_error: the errors of the core a caller can tell apart. *)
CoreErrors == {"AuthenticationRefused", "UserCancelled", "DeviceAlreadyUnlocked",
               "MissingCommandInfo", "InvalidInput", "Device"}

MapError(e) ==
  CASE e = "AuthenticationRefused" -> "authrefused"
    [] e = "UserCancelled"         -> "userrefused"
    [] e = "DeviceAlreadyUnlocked" -> "unlocked"
    [] e \in {"MissingCommandInfo", "InvalidInput"} -> "invalid"
    [] OTHER                       -> "device"

(* The conversion to the family's command, or the core, refuses. *)
CoreRefuses(e) ==
  /\ stage = "sent"
  /\ stage' = "refused"
  /\ result' = MapError(e)
  /\ UNCHANGED <<kind, command>>

(* HwiResponse::from. *)
Converted(r) ==
  CASE r = "MasterFingerprint"                 -> "Fingerprint"
    [] r = "Signature"                         -> "MessageSignature"
    [] r \in {"EncryptionKey", "Unmodelled"}   -> "Other"
    [] OTHER                                   -> r

(* Interp::end with the core's response.  A Coldcard's session key never   *)
(* reaches the gate: it goes to the engine, which may refuse it, and any    *)
(* command so answered is reported as done.                                *)
EndKeyed ==
  /\ stage = "sent" /\ kind = "Coldcard"
  /\ stage' = "done"
  /\ result' \in {"TaskDone", "device"}
  /\ UNCHANGED <<kind, command>>

(* Any other response: the gate on its kind, then that on signed PSBTs,    *)
(* which refuses one that was not asked for and those of SigningRounds.    *)
End(r) ==
  /\ stage = "sent" /\ ~(kind = "Coldcard" /\ r = "EncryptionKey")
  /\ stage' = "done"
  /\ \/ /\ r \in Expected(command) /\ (r = "SignedPsbt" => command.op = "SignPsbt")
        /\ result' = Converted(r)
     \/ /\ r \notin Expected(command) \/ r = "SignedPsbt"
        /\ result' = "device"
  /\ UNCHANGED <<kind, command>>

Answer ==
  \/ Start \/ (\E e \in CoreErrors : CoreRefuses(e))
  \/ EndKeyed \/ (\E r \in Responses : End(r))

-----------------------------------------------------------------------------
(***************************************************************************)
(* Properties.                                                             *)
(***************************************************************************)

(* A policy that a device was asked to register can be used with it: the   *)
(* same name and descriptor, with the HMAC a Ledger returns, pass the      *)
(* checks of signing and, where the family displays descriptor addresses,  *)
(* of display.  A name that only registration admits would strand a wallet *)
(* whose registration the user has just confirmed on the device.           *)
RegisteredIsUsable ==
  stage = "sent" /\ command.op = "RegisterWallet" =>
    LET policy == [name |-> command.name, descriptor |-> command.descriptor,
                   hmac |-> IF kind = "Ledger" THEN "set" ELSE None]
    IN /\ Plans(kind, [op |-> "SignPsbt", inputs |-> << >>, policy |-> policy])
       /\ kind \notin {"Trezor", "KeepKey"} =>
            Plans(kind, [op |-> "DisplayDescriptorAddress", policy |-> policy,
                         index |-> [n |-> 0, hard |-> FALSE]])

(* What the methods of HwiSession.kt cast the answer to their command to,  *)
(* with `?: unexpected()` for any other.  unlock() returns what it gets.   *)
Casts(op) ==
  CASE op \in {"PromptPin", "SendPin"}   -> {"DeviceAction"}
    [] op = "Unlock"                     -> Answers
    [] op = "GetVersion"                 -> {"Info"}
    [] op = "GetMasterFingerprint"       -> {"Fingerprint"}
    [] op = "GetXpub"                    -> {"Xpub"}
    [] op \in {"DisplayAddress", "DisplayDescriptorAddress",
               "DisplayMultisigAddress"} -> {"Address"}
    [] op = "RegisterWallet"             -> {"WalletRegistration"}
    [] op = "SignMessage"                -> {"MessageSignature"}
    [] op = "SignPsbt"                   -> {"SignedPsbt"}

(* Rust and Kotlin agree on the answer of every command: what end() lets   *)
(* through the facade takes, so that its "unexpected response kind" never  *)
(* reaches an application.  HwiSession.kt:231 relies on it: "The crate     *)
(* validates the response kind per command".  The one exception the code   *)
(* makes is the TaskDone of a Coldcard that sent a session key.            *)
ResultFits ==
  stage = "done" /\ result \in Answers =>
    \/ result \in Casts(command.op)
    \/ kind = "Coldcard" /\ result = "TaskDone"

(* What README.md:85 and the refusal of types.rs:401 say: without its      *)
(* registered policy a BitBox is only asked to sign single-signature       *)
(* spends.                                                                 *)
BitBoxScriptNeedsPolicy ==
  stage = "sent" /\ kind = "BitBox" /\ command.op = "SignPsbt" /\ command.policy = None =>
    \A i \in DOMAIN command.inputs :
      command.inputs[i].spend \in {"p2pkh", "p2wpkh", "p2sh-p2wpkh", "p2tr"}
=============================================================================
