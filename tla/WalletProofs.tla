---------------------------- MODULE WalletProofs ----------------------------
(***************************************************************************)
(* Proofs about Wallet and the CommandPlan it extends, for any commands and *)
(* helper calls, any bounds on counts, indices and amounts.                *)
(***************************************************************************)
EXTENDS Wallet, SequenceTheorems, TLAPS

-----------------------------------------------------------------------------
(* What the preflight decided stays true of the command that is on its way, *)
(* and only signing may ask something that is not one of Commands.         *)
Planned ==
  /\ stage \in {"asked", "sent", "done"} => command \in Commands \/ command.op = "SignPsbt"
  /\ stage \in {"sent", "done"} => Plans(kind, command)

(* The result of a command that ended is an error, a response it expects,  *)
(* converted, or the TaskDone of a Coldcard that sent a key.               *)
Answered ==
  stage = "done" =>
    \/ result = "device"
    \/ kind = "Coldcard" /\ result = "TaskDone"
    \/ \E r \in Expected(command) : result = Converted(r)

PlanInv == TypeOK /\ Planned /\ Answered

LEMMA PlanInit == WalletInit => PlanInv
BY DEF WalletInit, Init, PlanInv, TypeOK, Stages, Planned, Answered

LEMMA ConvertedTyped ==
  ASSUME NEW r \in Responses
  PROVE  Converted(r) \in Answers
BY DEF Converted, Responses, Answers

(* What Expect admits is, once converted, what the facade casts it to.     *)
LEMMA ExpectedFits ==
  ASSUME NEW c, c.op \in Ops, NEW r \in Expected(c)
  PROVE  Converted(r) \in Casts(c.op)
<1>1. CASE c.op = "Unlock"
  BY <1>1, ConvertedTyped DEF Expected, Casts
<1>2. CASE c.op # "Unlock"
  BY <1>2 DEF Expected, Casts, Converted, Ops
<1> QED
  BY <1>1, <1>2

LEMMA PlanStep ==
  PlanInv /\ [WalletNext]_walletVars => PlanInv'
<1> SUFFICES ASSUME PlanInv, [WalletNext]_walletVars PROVE PlanInv'
  OBVIOUS
<1> USE DEF PlanInv, TypeOK, Stages, Planned, Answered
<1>1. CASE Helps
  <2>1. UNCHANGED planVars
    BY <1>1 DEF Helps, CallsHelper, BuildDescriptor, DeriveStarts, DeriveNext, SummaryStarts,
                SumInput, InputsSummed, SumOutput, SummaryEnds, Finish
  <2> QED
    BY <2>1 DEF planVars
<1>2. CASE Asks
  <2>1. PICK c : Ask(c) /\ (c \in Commands \/ c.op = "SignPsbt")
    BY <1>2 DEF Asks
  <2> QED
    BY <2>1 DEF Ask
<1>3. CASE Start
  BY <1>3 DEF Start
<1>4. CASE \E e \in CoreErrors : CoreRefuses(e)
  <2>1. PICK e \in CoreErrors : CoreRefuses(e)
    BY <1>4
  <2>2. MapError(e) \in {"invalid", "device", "authrefused", "userrefused", "unlocked"}
    BY DEF MapError
  <2> QED
    BY <2>1, <2>2 DEF CoreRefuses
<1>5. CASE \E r \in Responses : End(r)
  <2>1. PICK r \in Responses : End(r)
    BY <1>5
  <2>2. Converted(r) \in Answers
    BY ConvertedTyped
  <2> QED
    BY <2>1, <2>2 DEF End
<1>7. CASE EndKeyed
  BY <1>7 DEF EndKeyed, Answers
<1>6. CASE UNCHANGED walletVars
  BY <1>6 DEF walletVars, planVars
<1> QED
  BY <1>1, <1>2, <1>3, <1>4, <1>5, <1>6, <1>7 DEF WalletNext, Answer

LEMMA PlanInvariance == WalletSpec => []PlanInv
BY PlanInit, PlanStep, PTL DEF WalletSpec

(* Every variable of CommandPlan keeps its type. *)
THEOREM PlanTypeCorrect == WalletSpec => []TypeOK
<1>1. PlanInv => TypeOK
  BY DEF PlanInv
<1> QED
  BY <1>1, PlanInvariance, PTL

-----------------------------------------------------------------------------
(* A name that may be registered may be used, and on a Ledger is not empty. *)
LEMMA RegisteredName ==
  ASSUME NEW n, NEW k, ValidName(n, k, TRUE)
  PROVE  ValidName(n, k, FALSE) /\ (k = "Ledger" => n.len > 0)
<1>1. CASE k = "Ledger"
  <2>1. Printable(n, 64)
    BY <1>1 DEF ValidName
  <2>2. n.len > 0
    BY <2>1 DEF Printable
  <2>3. ValidName(n, k, FALSE)
    BY <1>1, <2>1 DEF ValidName
  <2> QED
    BY <2>2, <2>3
<1>2. CASE k # "Ledger"
  BY <1>2 DEF ValidName
<1> QED
  BY <1>1, <1>2

(* The checks of signing and of display, for a policy that was registered. *)
LEMMA RegisteredPlans ==
  ASSUME NEW k, NEW c \in Commands, c.op = "RegisterWallet", PlansRegistration(k, c)
  PROVE  LET policy == [name |-> c.name, descriptor |-> c.descriptor,
                        hmac |-> IF k = "Ledger" THEN "set" ELSE None]
         IN /\ Plans(k, [op |-> "SignPsbt", inputs |-> << >>, policy |-> policy])
            /\ k \notin {"Trezor", "KeepKey"} =>
                 Plans(k, [op |-> "DisplayDescriptorAddress", policy |-> policy,
                           index |-> [n |-> 0, hard |-> FALSE]])
<1> DEFINE h      == IF k = "Ledger" THEN "set" ELSE None
           policy == [name |-> c.name, descriptor |-> c.descriptor, hmac |-> h]
           sign   == [op |-> "SignPsbt", inputs |-> << >>, policy |-> policy]
           show   == [op |-> "DisplayDescriptorAddress", policy |-> policy,
                      index |-> [n |-> 0, hard |-> FALSE]]
<1>1. policy.name = c.name /\ policy.descriptor = c.descriptor /\ policy.hmac = h
  OBVIOUS
<1>2. None # policy
  BY NoneAssumption
<1> HIDE DEF policy
<1>3. ValidContext(policy, k)
  BY <1>1, RegisteredName, NoneAssumption DEF ValidContext, PlansRegistration
<1>4. k = "Ledger" => LedgerMaySign(policy)
  BY <1>1, RegisteredName, NoneAssumption DEF LedgerMaySign, PlansRegistration
<1>5. PlansPsbt(k, sign)
  BY <1>2, <1>3, <1>4, NoneAssumption DEF PlansPsbt
<1>6. k \notin {"Trezor", "KeepKey"} => PlansDescriptorAddress(k, show)
  BY <1>3 DEF PlansDescriptorAddress
<1>7. Plans(k, sign)
  BY <1>5 DEF Plans
<1>8. k \notin {"Trezor", "KeepKey"} => Plans(k, show)
  BY <1>6 DEF Plans
<1> QED
  BY <1>7, <1>8 DEF policy

(* A policy the device was asked to register passes the checks of signing  *)
(* and of display, whatever its name, descriptor and family.               *)
THEOREM RegistrationNeverStrands == WalletSpec => []RegisteredIsUsable
<1>1. PlanInv => RegisteredIsUsable
  <2> SUFFICES ASSUME PlanInv, stage = "sent", command.op = "RegisterWallet"
               PROVE  RegisteredIsUsable
    BY DEF RegisteredIsUsable
  <2>1. command \in Commands /\ Plans(kind, command)
    BY DEF PlanInv, Planned
  <2>2. PlansRegistration(kind, command)
    BY <2>1 DEF Plans
  <2> QED
    BY <2>1, <2>2, RegisteredPlans DEF RegisteredIsUsable
<1> QED
  BY <1>1, PlanInvariance, PTL

(* Every kind of answer end() lets through is one the facade takes for that *)
(* command, but for the TaskDone of a Coldcard that sent a session key.    *)
THEOREM ResultsFit == WalletSpec => []ResultFits
<1>1. PlanInv => ResultFits
  <2> SUFFICES ASSUME PlanInv, stage = "done", result \in Answers,
                      ~(kind = "Coldcard" /\ result = "TaskDone")
               PROVE  result \in Casts(command.op)
    BY DEF ResultFits
  <2>1. result # "device"
    BY DEF Answers
  <2>2. PICK r \in Expected(command) : result = Converted(r)
    BY <2>1 DEF PlanInv, Answered
  <2>3. command.op \in Ops
    BY CommandsAssumption DEF PlanInv, Planned, Ops
  <2> QED
    BY <2>2, <2>3, ExpectedFits
<1> QED
  BY <1>1, PlanInvariance, PTL

-----------------------------------------------------------------------------
(* What reaches a Ledger, and what it is asked with a descriptor just built. *)

SignBuilt == [op |-> "SignPsbt", policy |-> Unnamed(built), inputs |-> << >>]

(* A built descriptor stays the one its call describes, and once a command *)
(* was asked it is one of Commands, or the one that signs with what was    *)
(* built.                                                                  *)
BuiltInv ==
  /\ phase = "none" => built = None
  /\ phase # "none" => call \in Calls
  /\ built # None =>
       /\ phase = "ok" /\ call.op = "build" /\ Buildable(call)
       /\ built = Built(call.xpub, call.origin, call.format)
  /\ stage # "idle" =>
       \/ phase = "none" /\ command \in Commands
       \/ built # None /\ command = SignBuilt

LEMMA BuiltInit == WalletInit => BuiltInv
BY DEF WalletInit, Init, HelperInit, BuiltInv

LEMMA BuiltStep ==
  BuiltInv /\ [WalletNext]_walletVars => BuiltInv'
<1> SUFFICES ASSUME BuiltInv, [WalletNext]_walletVars PROVE BuiltInv'
  OBVIOUS
<1> USE DEF BuiltInv
<1>1. CASE CallsHelper
  BY <1>1 DEF CallsHelper, planVars
<1>2. CASE BuildDescriptor
  BY <1>2 DEF BuildDescriptor, Finish, planVars
<1>3. CASE DeriveStarts \/ DeriveNext
  BY <1>3 DEF DeriveStarts, DeriveNext, Finish, planVars
<1>4. CASE SummaryStarts \/ SumInput \/ InputsSummed \/ SumOutput \/ SummaryEnds
  BY <1>4 DEF SummaryStarts, SumInput, InputsSummed, SumOutput, SummaryEnds, Finish, planVars
<1>5. CASE Asks
  BY <1>5 DEF Asks, Ask, helperVars, SignBuilt
<1>6. CASE Answer /\ UNCHANGED helperVars
  BY <1>6 DEF Answer, Start, CoreRefuses, End, EndKeyed, helperVars, SignBuilt
<1>7. CASE UNCHANGED walletVars
  BY <1>7 DEF walletVars, helperVars, planVars, SignBuilt
<1> QED
  BY <1>1, <1>2, <1>3, <1>4, <1>5, <1>6, <1>7 DEF WalletNext, Helps

LEMMA BuiltInvariance == WalletSpec => []BuiltInv
BY BuiltInit, BuiltStep, PTL DEF WalletSpec

(* The descriptor a call builds, and the parts of it the checks read. *)
LEMMA BuiltTyped ==
  ASSUME NEW c \in Calls, c.op = "build", Buildable(c)
  PROVE  LET d == Built(c.xpub, c.origin, c.format) IN
         /\ d \in [wrapper : Wrappers, keys : Seq(KeyTexts)]
         /\ c.origin # None
         /\ Len(d.keys) = 1 /\ d.wrapper = Wrapper(c.format)
         /\ d.keys[1].form = "multi" /\ d.keys[1].suffix = "branches"
         /\ d.keys[1].net = c.xpub.net /\ d.keys[1].depth = c.xpub.depth
         /\ d.keys[1].child = c.xpub.child /\ d.keys[1].origin = c.origin
<1> DEFINE x == [form |-> "multi", suffix |-> "branches", net |-> c.xpub.net,
                 depth |-> c.xpub.depth, child |-> c.xpub.child,
                 compressed |-> TRUE, origin |-> c.origin]
<1>1. /\ c.format \in Formats
      /\ c.xpub \in [net : {"main", "test"}, depth : Nat, child : Steps]
      /\ c.origin # None /\ c.origin \in Seq(Steps)
  BY CallsAssumption DEF Buildable
<1>2. x \in KeyTexts
  BY <1>1 DEF KeyTexts
<1>3. Wrapper(c.format) \in Wrappers
  BY <1>1 DEF Wrapper, Wrappers, Formats
<1> HIDE DEF x
<1>4. <<x>> \in Seq(KeyTexts) /\ Len(<<x>>) = 1 /\ <<x>>[1] = x
  BY <1>2
<1>6. /\ x.form = "multi" /\ x.suffix = "branches" /\ x.net = c.xpub.net
      /\ x.depth = c.xpub.depth /\ x.child = c.xpub.child /\ x.origin = c.origin
  BY DEF x
<1>5. Built(c.xpub, c.origin, c.format) = [wrapper |-> Wrapper(c.format), keys |-> <<x>>]
  BY DEF Built, x
<1> QED
  BY <1>1, <1>3, <1>4, <1>5, <1>6

(* The descriptors a Ledger accepts without a name are those that          *)
(* build_singlesig_descriptor writes.                                      *)
LEMMA DefaultIsStandard ==
  ASSUME NEW d \in [wrapper : Wrappers, keys : Seq(KeyTexts)], DefaultAccount(d)
  PROVE  d \in StandardAccounts
<1> DEFINE x == d.keys[1]
<1>1. Len(d.keys) = 1 /\ x \in KeyTexts /\ d.keys = <<x>>
  <2>1. Len(d.keys) = 1 /\ d.keys \in Seq(KeyTexts)
    BY DEF DefaultAccount
  <2>2. x \in KeyTexts
    BY <2>1, ElementOfSeq
  <2> QED
    BY <2>1, <2>2
<1>2. PICK account \in 0 .. 100 :
        /\ x.form = "multi" /\ x.suffix = "branches"
        /\ x.origin = <<Hard(Purpose(d.wrapper)), Hard(Coin(x)), Hard(account)>>
        /\ x.depth = 3 /\ x.child = Hard(account)
  BY DEF DefaultAccount
<1> HIDE DEF x
<1>3. PICK format \in Formats : Wrapper(format) = d.wrapper /\
        Purpose(d.wrapper) = CASE format = "Legacy" -> 44 [] format = "NestedSegwit" -> 49
                               [] format = "NativeSegwit" -> 84 [] format = "Taproot" -> 86
  BY DEF DefaultAccount, Purpose, Wrapper, Wrappers, Formats
<1>4. PICK network \in Networks : NetworkKind(network) = x.net /\
        Coin(x) = IF network = "Bitcoin" THEN 0 ELSE 1
  BY <1>1 DEF KeyTexts, Networks, NetworkKind, Coin
<1>5. x.origin = StandardPath(format, network, account)
  BY <1>2, <1>3, <1>4 DEF StandardPath
<1>6. x = [form |-> "multi", suffix |-> "branches", net |-> NetworkKind(network), depth |-> 3,
           child |-> Hard(account), compressed |-> TRUE,
           origin |-> StandardPath(format, network, account)]
  BY <1>1, <1>2, <1>4, <1>5 DEF KeyTexts
<1>7. d = Built(StandardXpub(network, account), StandardPath(format, network, account), format)
  BY <1>1, <1>3, <1>6 DEF Built, StandardXpub
<1>8. <<format, network, account>> \in Formats \X Networks \X (0 .. 100)
  BY <1>2, <1>3, <1>4
<1> QED
  BY <1>7, <1>8 DEF StandardAccounts

(* What is signed on a Ledger is bound to a registered policy or to one of *)
(* the accounts it derives itself, whatever commands and descriptors a     *)
(* host comes up with.                                                     *)
THEOREM LedgerIsBound == WalletSpec => []LedgerBound
<1>1. PlanInv /\ BuiltInv => LedgerBound
  <2> SUFFICES ASSUME PlanInv, BuiltInv, stage = "sent", command.op = "SignPsbt", kind = "Ledger"
               PROVE  LedgerBound
    BY DEF LedgerBound
  <2>1. PlansPsbt(kind, command)
    BY DEF PlanInv, Planned, Plans
  <2>2. /\ command.policy # None /\ ValidContext(command.policy, kind)
        /\ LedgerMaySign(command.policy)
    BY <2>1 DEF PlansPsbt
  <2>3. PolicyText(command.policy)
    <3>1. CASE command \in Commands
      BY <2>2, <3>1, PoliciesAssumption
    <3>2. CASE built # None /\ command = SignBuilt
      <4>1. built \in [wrapper : Wrappers, keys : Seq(KeyTexts)]
        BY <3>2, BuiltTyped DEF BuiltInv
      <4> QED
        BY <3>2, <4>1 DEF SignBuilt, Unnamed, PolicyText
    <3> QED
      BY <3>1, <3>2 DEF BuiltInv
  <2>4. CASE command.policy.hmac = None
    <3>1. command.policy.name.len = 0 /\ DefaultAccount(command.policy.descriptor)
      BY <2>2, <2>4 DEF LedgerMaySign
    <3>2. command.policy.descriptor # Bad
      BY <2>2 DEF ValidContext, ValidPolicy
    <3>3. command.policy.descriptor \in StandardAccounts
      BY <2>3, <3>1, <3>2, DefaultIsStandard DEF PolicyText
    <3> QED
      BY <2>2, <2>4, <3>1, <3>3 DEF LedgerBound
  <2>5. CASE command.policy.hmac # None
    <3>1. command.policy.hmac = "set" /\ command.policy.name.len > 0
      BY <2>2, <2>3, <2>5 DEF LedgerMaySign, ValidContext, PolicyText
    <3>2. command.policy.name.len # 0
      BY <2>3, <3>1 DEF PolicyText
    <3> QED
      BY <2>2, <3>1, <3>2 DEF LedgerBound
  <2> QED
    BY <2>4, <2>5
<1> QED
  BY <1>1, PlanInvariance, BuiltInvariance, PTL

(* The default account a built descriptor can be: its path and xpub are    *)
(* those of the call.                                                      *)
LEMMA BuiltDefault ==
  ASSUME NEW c \in Calls, c.op = "build", Buildable(c)
  PROVE  DefaultAccount(Built(c.xpub, c.origin, c.format)) <=>
           \E account \in 0 .. 100 :
             /\ c.origin = StandardPath(c.format, c.network, account)
             /\ c.xpub = StandardXpub(c.network, account)
<1> DEFINE d == Built(c.xpub, c.origin, c.format)
           purpose == CASE c.format = "Legacy" -> 44 [] c.format = "NestedSegwit" -> 49
                        [] c.format = "NativeSegwit" -> 84 [] c.format = "Taproot" -> 86
           coin == IF c.network = "Bitcoin" THEN 0 ELSE 1
<1>1. /\ c.format \in Formats /\ c.network \in Networks
      /\ c.xpub \in [net : {"main", "test"}, depth : Nat, child : Steps]
      /\ c.xpub.net = NetworkKind(c.network)
  BY CallsAssumption DEF Buildable
<1>2. /\ Len(d.keys) = 1 /\ d.wrapper = Wrapper(c.format)
      /\ d.keys[1].form = "multi" /\ d.keys[1].suffix = "branches"
      /\ d.keys[1].origin = c.origin /\ d.keys[1].depth = c.xpub.depth
      /\ d.keys[1].child = c.xpub.child /\ d.keys[1].net = c.xpub.net
  BY BuiltTyped
<1> HIDE DEF d
<1>3. Purpose(d.wrapper) = purpose /\ purpose # 0
  BY <1>1, <1>2 DEF Purpose, Wrapper, Formats
<1>4. Coin(d.keys[1]) = coin
  BY <1>1, <1>2 DEF Coin, NetworkKind, Networks
<1>5. \A account \in 0 .. 100 :
        c.xpub = StandardXpub(c.network, account) <=> c.xpub.depth = 3 /\ c.xpub.child = Hard(account)
  BY <1>1 DEF StandardXpub
<1>6. DefaultAccount(d) <=>
        \E account \in 0 .. 100 :
          /\ c.origin = <<Hard(purpose), Hard(coin), Hard(account)>>
          /\ c.xpub.depth = 3 /\ c.xpub.child = Hard(account)
  BY <1>2, <1>3, <1>4 DEF DefaultAccount
<1>7. \A account \in 0 .. 100 :
        StandardPath(c.format, c.network, account) = <<Hard(purpose), Hard(coin), Hard(account)>>
  BY DEF StandardPath
<1> QED
  BY <1>5, <1>6, <1>7 DEF d

(* Whatever the host builds and however it comes by the xpub: a descriptor *)
(* built is signable without a registration exactly when xpub and path are *)
(* those of one standard account.                                          *)
THEOREM BuiltSignsExactly == WalletSpec => []BuiltIsSignable
<1>1. BuiltInv => BuiltIsSignable
  <2> SUFFICES ASSUME BuiltInv, stage = "asked", built # None, kind = "Ledger"
               PROVE  BuiltIsSignable
    BY DEF BuiltIsSignable
  <2>1. /\ call \in Calls /\ call.op = "build" /\ Buildable(call)
        /\ built = Built(call.xpub, call.origin, call.format)
        /\ command = SignBuilt
    BY DEF BuiltInv
  <2>2. /\ Len(built.keys) = 1 /\ built.wrapper = Wrapper(call.format)
        /\ built.keys \in Seq(KeyTexts)
        /\ PublicKey(built.keys[1])
    BY <2>1, BuiltTyped DEF PublicKey
  <2>3. call.format \in Formats /\ built # Bad /\ Unnamed(built) # None
    BY <2>1, CallsAssumption, BuildAssumption
  <2>4. ValidPolicy(built)
    BY <2>2, <2>3 DEF ValidPolicy, Wrapper, Formats
  <2>5. Plans(kind, command) <=> LedgerMaySign(Unnamed(built))
    <3>1. ValidContext(Unnamed(built), kind)
      BY <2>4 DEF ValidContext, Unnamed, ValidName
    <3> QED
      BY <2>1, <2>3, <3>1, NoneAssumption DEF Plans, PlansPsbt, SignBuilt
  <2>6. LedgerMaySign(Unnamed(built)) <=> DefaultAccount(built)
    BY DEF LedgerMaySign, Unnamed
  <2> QED
    BY <2>1, <2>5, <2>6, BuiltDefault DEF BuiltIsSignable
<1> QED
  BY <1>1, BuiltInvariance, PTL

-----------------------------------------------------------------------------
(* psbt_summary: a checked total is the exact one, or None.                *)
Exact(x) == IF x # None /\ x <= MaxAmount THEN x ELSE None

SumInv ==
  /\ call \in Calls \cup {None}
  /\ phase \in {"none", "called", "deriving", "inputs", "outputs", "ok", "invalid"}
  /\ phase # "none" => call \in Calls
  /\ phase \in {"inputs", "outputs"} => call.op = "summary" /\ call.inputs # Bad /\ at \in Nat \ {0}
  /\ phase = "deriving" => call.op = "derive"
  /\ exactIn \in Nat \cup {None} /\ exactOut \in Nat
  /\ totalIn = Exact(exactIn) /\ totalOut = Exact(exactOut)
  /\ phase = "ok" /\ call.op = "summary" => fee = Fee(Exact(exactIn), Exact(exactOut))

LEMMA ExactAdds ==
  ASSUME NEW x \in Nat \cup {None}, NEW a \in 0 .. MaxAmount
  PROVE  (IF Exact(x) # None THEN CheckedAdd(Exact(x), a) ELSE None)
           = Exact(IF x # None THEN x + a ELSE None)
BY NumbersAssumption DEF Exact, CheckedAdd

(* A sum that left u64 stays above it, one whose term is unknown stays so. *)
LEMMA ExactUnknown == Exact(None) = None
BY DEF Exact

LEMMA UtxoAmount ==
  ASSUME NEW x \in [witness : (0 .. MaxAmount) \cup {None}, vout : Nat,
                    previous : Seq(0 .. MaxAmount) \cup {None}]
  PROVE  Utxo(x) \in (0 .. MaxAmount) \cup {None}
<1>1. CASE x.previous # None /\ x.vout < Len(x.previous)
  <2>1. x.previous \in Seq(0 .. MaxAmount)
    BY <1>1
  <2>2. x.vout + 1 \in 1 .. Len(x.previous)
    BY <1>1, <2>1
  <2>3. x.previous[x.vout + 1] \in 0 .. MaxAmount
    BY <2>1, <2>2, ElementOfSeq
  <2> QED
    BY <2>3 DEF Utxo
<1>2. CASE ~(x.previous # None /\ x.vout < Len(x.previous))
  BY <1>2 DEF Utxo
<1> QED
  BY <1>1, <1>2

LEMMA SumInit == WalletInit => SumInv
BY NumbersAssumption DEF WalletInit, HelperInit, SumInv, Exact

LEMMA SumStep ==
  SumInv /\ [WalletNext]_walletVars => SumInv'
<1> SUFFICES ASSUME SumInv, [WalletNext]_walletVars PROVE SumInv'
  OBVIOUS
<1> USE DEF SumInv
<1>1. CASE CallsHelper
  BY <1>1 DEF CallsHelper
<1>2. CASE BuildDescriptor \/ DeriveStarts \/ DeriveNext
  BY <1>2 DEF BuildDescriptor, DeriveStarts, DeriveNext, Finish
<1>3. CASE SummaryStarts \/ InputsSummed
  BY <1>3 DEF SummaryStarts, InputsSummed, Finish
<1>4. CASE SumInput
  <2> DEFINE amount == Utxo(call.inputs[at])
  <2>1. amount \in (0 .. MaxAmount) \cup {None}
    <3>1. call.inputs \in Seq([witness : (0 .. MaxAmount) \cup {None}, vout : Nat,
                               previous : Seq(0 .. MaxAmount) \cup {None}])
      BY <1>4, CallsAssumption DEF SumInput
    <3>2. at \in 1 .. Len(call.inputs)
      BY <1>4, <3>1 DEF SumInput
    <3>3. call.inputs[at] \in [witness : (0 .. MaxAmount) \cup {None}, vout : Nat,
                               previous : Seq(0 .. MaxAmount) \cup {None}]
      BY <3>1, <3>2, ElementOfSeq
    <3> QED
      BY <3>3, UtxoAmount
  <2>2. /\ totalIn' = IF totalIn # None /\ amount # None THEN CheckedAdd(totalIn, amount) ELSE None
        /\ exactIn' = IF exactIn # None /\ amount # None THEN exactIn + amount ELSE None
        /\ at' = at + 1
        /\ UNCHANGED <<call, phase, totalOut, exactOut, fee>>
    BY <1>4 DEF SumInput
  <2> HIDE DEF amount
  <2>3. totalIn' = Exact(exactIn')
    <3>1. CASE amount = None
      BY <2>2, <3>1, ExactUnknown
    <3>2. CASE amount # None
      BY <2>1, <2>2, <3>2, ExactAdds
    <3> QED
      BY <3>1, <3>2
  <2>4. exactIn' \in Nat \cup {None}
    BY <2>1, <2>2, NumbersAssumption
  <2>5. phase # "ok"
    BY <1>4 DEF SumInput
  <2> QED
    BY <2>2, <2>3, <2>4, <2>5
<1>5. CASE SumOutput
  <2>1. call.outputs[at] \in 0 .. MaxAmount
    <3>1. call.outputs \in Seq(0 .. MaxAmount)
      BY <1>5, CallsAssumption DEF SumOutput
    <3>2. at \in 1 .. Len(call.outputs)
      BY <1>5, <3>1 DEF SumOutput
    <3> QED
      BY <3>1, <3>2, ElementOfSeq
  <2>2. exactOut # None
    BY NumbersAssumption
  <2>3. totalOut' = Exact(exactOut')
    BY <1>5, <2>1, <2>2, ExactAdds DEF SumOutput
  <2>4. exactOut' \in Nat
    BY <1>5, <2>1, NumbersAssumption DEF SumOutput
  <2> QED
    BY <1>5, <2>3, <2>4 DEF SumOutput
<1>6. CASE SummaryEnds
  BY <1>6 DEF SummaryEnds, Finish
<1>7. CASE Asks \/ (Answer /\ UNCHANGED helperVars) \/ UNCHANGED walletVars
  BY <1>7 DEF Asks, walletVars, helperVars
<1> QED
  BY <1>1, <1>2, <1>3, <1>4, <1>5, <1>6, <1>7 DEF WalletNext, Helps

(* The fee a summary reports is exact or unknown, for any number of inputs *)
(* and outputs and any amounts.                                            *)
THEOREM FeeNeverWrong == WalletSpec => []FeeExact
<1>1. SumInv => FeeExact
  <2> SUFFICES ASSUME SumInv, phase = "ok", call.op = "summary" PROVE FeeExact
    BY DEF FeeExact
  <2>1. fee = Fee(Exact(exactIn), Exact(exactOut))
    BY DEF SumInv
  <2>2. exactIn \in Nat \cup {None} /\ exactOut \in Nat /\ exactOut # None /\ MaxAmount \in Nat
    BY NumbersAssumption DEF SumInv
  <2>3. CASE exactIn = None
    BY <2>1, <2>3 DEF FeeExact, Exact, Fee
  <2>4. CASE exactIn # None
    BY <2>1, <2>2, <2>4 DEF FeeExact, Exact, Fee
  <2> QED
    BY <2>3, <2>4
<1>2. WalletSpec => []SumInv
  BY SumInit, SumStep, PTL DEF WalletSpec
<1> QED
  BY <1>1, <1>2, PTL

-----------------------------------------------------------------------------
(* derive_addresses: the addresses of the first n indices from s on.       *)
Derived(s, n, c) == [i \in 1 .. n |-> [index |-> s + i - 1, change |-> c]]

LEMMA DerivedExtends ==
  ASSUME NEW s \in Nat, NEW n \in Nat, NEW c
  PROVE  Append(Derived(s, n, c), [index |-> s + n, change |-> c]) = Derived(s, n + 1, c)
<1> DEFINE S == {[index |-> j, change |-> c] : j \in Int}
           d == Derived(s, n, c)
           e == [index |-> s + n, change |-> c]
<1>1. d \in Seq(S) /\ Len(d) = n /\ e \in S
  BY DEF Derived
<1> HIDE DEF d, e, S
<1>2. /\ Append(d, e) \in Seq(S) /\ Len(Append(d, e)) = n + 1
      /\ \A i \in 1 .. n : Append(d, e)[i] = d[i]
      /\ Append(d, e)[n + 1] = e
  BY <1>1, AppendProperties
<1>3. \A i \in 1 .. n + 1 : Append(d, e)[i] = [index |-> s + i - 1, change |-> c]
  <2> TAKE i \in 1 .. n + 1
  <2>1. CASE i = n + 1
    <3>1. s + i - 1 = s + n
      BY <2>1
    <3>2. Append(d, e)[i] = e
      BY <1>2, <2>1, Zenon
    <3> QED
      BY <3>1, <3>2 DEF e
  <2>2. CASE i \in 1 .. n
    <3>1. d[i] = [index |-> s + i - 1, change |-> c]
      BY <2>2 DEF d, Derived
    <3> QED
      BY <1>2, <2>2, <3>1
  <2>3. i = n + 1 \/ i \in 1 .. n
    OBVIOUS
  <2> QED
    BY <2>1, <2>2, <2>3, Zenon
<1>4. Append(d, e) = [i \in 1 .. n + 1 |-> Append(d, e)[i]]
  BY <1>2, LenProperties
<1> QED
  BY <1>3, <1>4 DEF Derived, d, e

DeriveInv ==
  /\ call \in Calls \cup {None}
  /\ phase \in {"none", "called", "deriving", "inputs", "outputs", "ok", "invalid"}
  /\ phase # "none" => call \in Calls
  /\ phase \in {"none", "called"} => entries = << >>
  /\ phase \in {"inputs", "outputs"} => call.op = "summary"
  /\ phase = "deriving" =>
       /\ call.op = "derive"
       /\ call.start + call.count < Top
       /\ at \in call.start .. call.start + call.count
       /\ entries = Derived(call.start, at - call.start, call.change)
       /\ \A i \in call.start .. at - 1 : DerivesAt(call.descriptor, i)
  /\ DerivedRange

LEMMA DeriveInit == WalletInit => DeriveInv
BY DEF WalletInit, HelperInit, DeriveInv, DerivedRange

(* The call enters the loop, or is refused for one of the reasons named.   *)
LEMMA DeriveStartsStep ==
  ASSUME DeriveInv, DeriveStarts
  PROVE  DeriveInv'
<1>1. /\ call \in Calls /\ call.op = "derive"
      /\ call.start \in Nat /\ call.count \in Nat
      /\ UNCHANGED <<call, entries>> /\ entries = << >>
  BY CallsAssumption, NumbersAssumption DEF DeriveInv, DeriveStarts, Finish
<1> DEFINE accepted == /\ call.count <= MaxDerive
                       /\ RangeEnd(call) # None
                       /\ call.descriptor # Bad
                       /\ call.change => Branches(call.descriptor) > 1
<1>2. CASE accepted
  <2>1. phase' = "deriving" /\ at' = call.start
    BY <1>2 DEF DeriveStarts, Finish
  <2>2. call.start + call.count < Top
    BY <1>2 DEF RangeEnd
  <2>3. entries = Derived(call.start, 0, call.change)
    BY <1>1 DEF Derived
  <2> QED
    BY <1>1, <2>1, <2>2, <2>3 DEF DeriveInv, DerivedRange
<1>3. CASE ~accepted
  <2>1. phase' = "invalid" /\ UNCHANGED at
    BY <1>3 DEF DeriveStarts, Finish
  <2>2. RangeEnd(call) = None => call.start + call.count > Hardened
    BY <1>1, NumbersAssumption DEF RangeEnd
  <2>3. Branches(call.descriptor) \in {1, 2}
    BY DEF Branches
  <2>4. \/ call.count > MaxDerive
        \/ call.start + call.count > Hardened
        \/ call.descriptor = Bad
        \/ call.change /\ Branches(call.descriptor) = 1
    BY <1>1, <1>3, <2>2, <2>3, NumbersAssumption
  <2> QED
    BY <1>1, <2>1, <2>4 DEF DeriveInv, DerivedRange
<1> QED
  BY <1>2, <1>3

(* One turn of the loop, its end, or the first index that does not derive. *)
LEMMA DeriveNextStep ==
  ASSUME DeriveInv, DeriveNext
  PROVE  DeriveInv'
<1>1. /\ call \in Calls /\ call.op = "derive" /\ UNCHANGED call
      /\ call.start \in Nat /\ call.count \in Nat
      /\ RangeEnd(call) = call.start + call.count
      /\ at \in call.start .. call.start + call.count
      /\ entries = Derived(call.start, at - call.start, call.change)
      /\ \A i \in call.start .. at - 1 : DerivesAt(call.descriptor, i)
      /\ call.start + call.count < Top
  BY CallsAssumption, NumbersAssumption DEF DeriveInv, DeriveNext, RangeEnd, Finish
<1>2. CASE at < RangeEnd(call) /\ DerivesAt(call.descriptor, at)
  <2>1. /\ entries' = Append(entries, [index |-> at, change |-> call.change])
        /\ at' = at + 1 /\ phase' = "deriving"
    BY <1>2 DEF DeriveNext
  <2>2. entries' = Derived(call.start, at + 1 - call.start, call.change)
    <3> DEFINE n == at - call.start
    <3>1. n \in Nat /\ call.start + n = at /\ n + 1 = at + 1 - call.start
      BY <1>1
    <3> HIDE DEF n
    <3>2. entries = Derived(call.start, n, call.change)
      BY <1>1 DEF n
    <3>3. Append(Derived(call.start, n, call.change),
                 [index |-> call.start + n, change |-> call.change])
            = Derived(call.start, n + 1, call.change)
      BY <1>1, <3>1, DerivedExtends
    <3> QED
      BY <2>1, <3>1, <3>2, <3>3, Zenon
  <2>3. at' \in call.start .. call.start + call.count
    BY <1>1, <1>2, <2>1
  <2>4. \A i \in call.start .. at' - 1 : DerivesAt(call.descriptor, i)
    BY <1>1, <1>2, <2>1
  <2> QED
    BY <1>1, <2>1, <2>2, <2>3, <2>4, SMTT(30) DEF DeriveInv, DerivedRange
<1>3. CASE at < RangeEnd(call) /\ ~DerivesAt(call.descriptor, at)
  <2>1. entries' = << >> /\ phase' = "invalid"
    BY <1>3 DEF DeriveNext, Finish
  <2>2. call.start + call.count > Hardened \/ ~DerivesAt(call.descriptor, call.start)
    <3>1. CASE Ranged(call.descriptor) /\ ~(at < Hardened)
      BY <1>1, <1>3, <3>1, NumbersAssumption
    <3>2. CASE ~(Ranged(call.descriptor) /\ ~(at < Hardened))
      BY <1>3, <3>2 DEF DerivesAt
    <3> QED
      BY <3>1, <3>2
  <2> QED
    BY <1>1, <2>1, <2>2 DEF DeriveInv, DerivedRange
<1>4. CASE ~(at < RangeEnd(call))
  <2>1. phase' = "ok" /\ UNCHANGED <<entries, at>>
    BY <1>4 DEF DeriveNext, Finish
  <2>2. entries = Derived(call.start, call.count, call.change)
    BY <1>1, <1>4
  <2>3. Ranged(call.descriptor) =>
          \A i \in 1 .. call.count : call.start + i - 1 < Hardened
    <3> SUFFICES ASSUME Ranged(call.descriptor), NEW i \in 1 .. call.count
                 PROVE  call.start + i - 1 < Hardened
      OBVIOUS
    <3>1. call.start + i - 1 \in call.start .. at - 1
      BY <1>1, <1>4
    <3>2. DerivesAt(call.descriptor, call.start + i - 1)
      BY <1>1, <3>1
    <3> QED
      BY <3>2 DEF DerivesAt
  <2> QED
    BY <1>1, <2>1, <2>2, <2>3 DEF DeriveInv, DerivedRange, Derived
<1> QED
  BY <1>2, <1>3, <1>4

LEMMA DeriveStep ==
  DeriveInv /\ [WalletNext]_walletVars => DeriveInv'
<1> SUFFICES ASSUME DeriveInv, [WalletNext]_walletVars PROVE DeriveInv'
  OBVIOUS
<1>1. CASE CallsHelper
  BY <1>1 DEF CallsHelper, DeriveInv, DerivedRange
<1>2. CASE BuildDescriptor
  BY <1>2 DEF BuildDescriptor, Finish, DeriveInv, DerivedRange
<1>3. CASE DeriveStarts
  BY <1>3, DeriveStartsStep
<1>4. CASE DeriveNext
  BY <1>4, DeriveNextStep
<1>5. CASE SummaryStarts \/ SumInput \/ InputsSummed \/ SumOutput \/ SummaryEnds
  BY <1>5 DEF SummaryStarts, SumInput, InputsSummed, SumOutput, SummaryEnds, Finish,
              DeriveInv, DerivedRange
<1>6. CASE Asks \/ (Answer /\ UNCHANGED helperVars) \/ UNCHANGED walletVars
  BY <1>6 DEF Asks, walletVars, helperVars, DeriveInv, DerivedRange
<1> QED
  BY <1>1, <1>2, <1>3, <1>4, <1>5, <1>6 DEF WalletNext, Helps

(* derive_addresses returns exactly the range asked or nothing, whatever   *)
(* the bounds and the range.                                               *)
THEOREM DerivesExactly == WalletSpec => []DerivedRange
<1>1. DeriveInv => DerivedRange
  BY DEF DeriveInv
<1>2. WalletSpec => []DeriveInv
  BY DeriveInit, DeriveStep, PTL DEF WalletSpec
<1> QED
  BY <1>1, <1>2, PTL
=============================================================================
