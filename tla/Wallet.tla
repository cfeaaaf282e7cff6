------------------------------- MODULE Wallet -------------------------------
(***************************************************************************)
(* The device-free helpers (helpers.rs) and the command a host then asks:   *)
(* README.md builds a descriptor from an account xpub and has a Ledger sign *)
(* with it as an unnamed policy.  Each loop of a helper takes one step per  *)
(* element, so that what holds of its accumulators can be stated.          *)
(*                                                                         *)
(* External, as the helpers use them: miniscript derives an address at any  *)
(* index of a branch without a wildcard, and below 2^31 of one with it;     *)
(* nothing hardened can be derived from an xpub.                           *)
(***************************************************************************)
EXTENDS CommandPlan

CONSTANTS Calls,      \* the helper calls made
          MaxDerive,  \* MAX_DERIVE_COUNT, 1000
          Hardened,   \* 2^31, the first hardened index
          Top,        \* 2^32, what a u32 stays below
          MaxAmount   \* 2^64 - 1, the largest amount

ASSUME NumbersAssumption ==
  /\ MaxDerive \in Nat /\ Hardened \in Nat /\ Top \in Nat /\ MaxAmount \in Nat
  /\ Hardened < Top
  /\ None \notin Int

Formats  == {"Legacy", "NestedSegwit", "NativeSegwit", "Taproot"}
Networks == {"Bitcoin", "Testnet", "Signet", "Regtest"}

ASSUME CallsAssumption ==
  \A c \in Calls :
    /\ c # None
    /\ c.op = "derive" => c.start \in 0 .. Top - 1 /\ c.count \in 0 .. Top - 1
    /\ c.op = "summary" /\ c.inputs # Bad =>
         /\ c.outputs \in Seq(0 .. MaxAmount)
         /\ c.inputs \in Seq([witness : (0 .. MaxAmount) \cup {None}, vout : Nat,
                              previous : Seq(0 .. MaxAmount) \cup {None}])
    /\ c.op = "build" =>
         /\ c.format \in Formats /\ c.network \in Networks
         /\ c.xpub = Bad \/ c.xpub \in [net : {"main", "test"}, depth : Nat, child : Steps]
         /\ c.origin = Bad \/ (c.origin # None /\ c.origin \in Seq(Steps))

VARIABLES call,      \* the helper call, None when there is none
          phase,     \* where it is
          at,        \* the index of the loop that runs
          entries,   \* the records built so far
          totalIn, totalOut,  \* Option<Amount>
          exactIn, exactOut,  \* history: the same sums, in unbounded integers
          fee,       \* PsbtSummary::fee_sat
          built      \* the descriptor built

helperVars == <<call, phase, at, entries, totalIn, totalOut, exactIn, exactOut, fee, built>>
planVars   == <<kind, command, stage, result>>
walletVars == <<helperVars, planVars>>

HelperInit ==
  /\ call = None /\ phase = "none" /\ at = 0 /\ entries = << >>
  /\ totalIn = 0 /\ totalOut = 0 /\ exactIn = 0 /\ exactOut = 0
  /\ fee = None /\ built = None

(* The host calls a helper; it returns with a result or InvalidInput. *)
CallsHelper ==
  /\ phase = "none" /\ stage = "idle"
  /\ \E c \in Calls : call' = c
  /\ phase' = "called"
  /\ UNCHANGED <<at, entries, totalIn, totalOut, exactIn, exactOut, fee, built, planVars>>

Finish(p) == phase' = p /\ UNCHANGED <<call, planVars>>

-----------------------------------------------------------------------------
(* build_singlesig_descriptor *)

NetworkKind(network) == IF network = "Bitcoin" THEN "main" ELSE "test"

Wrapper(format) ==
  CASE format = "Legacy" -> "pkh" [] format = "NestedSegwit" -> "sh(wpkh)"
    [] format = "NativeSegwit" -> "wpkh" [] format = "Taproot" -> "tr"

Built(xpub, origin, format) ==
  [wrapper |-> Wrapper(format),
   keys |-> <<[form |-> "multi", suffix |-> "branches", net |-> xpub.net, depth |-> xpub.depth,
               child |-> xpub.child, compressed |-> TRUE, origin |-> origin]>>]

(* Mutant of Buildable: the network of the xpub is not looked at. *)
BuildableAnywhere(c) == c.xpub # Bad /\ c.fingerprint # Bad /\ c.origin # Bad

Buildable(c) ==
  /\ c.xpub # Bad
  /\ c.xpub.net = NetworkKind(c.network)
  /\ c.fingerprint # Bad
  /\ c.origin # Bad

BuildDescriptor ==
  /\ phase = "called" /\ call.op = "build"
  /\ built' = IF Buildable(call) THEN Built(call.xpub, call.origin, call.format) ELSE None
  /\ Finish(IF Buildable(call) THEN "ok" ELSE "invalid")
  /\ UNCHANGED <<at, entries, totalIn, totalOut, exactIn, exactOut, fee>>

-----------------------------------------------------------------------------
(* derive_addresses *)

Branches(d) == IF \E i \in DOMAIN d.keys : d.keys[i].form = "multi" THEN 2 ELSE 1
Ranged(d)   == \E i \in DOMAIN d.keys : d.keys[i].suffix \in {"branches", "others", "receive"}

DerivesAt(d, index) ==
  /\ d.wrapper # "bare"
  /\ \A i \in DOMAIN d.keys : d.keys[i].suffix \notin {"hardened", "hardwild"}
  /\ Ranged(d) => index < Hardened

(* Mutant of RangeEnd: the addition wraps. *)
RangeEndWrapped(c) == (c.start + c.count) % Top

(* start.checked_add(count), None when it overflows. *)
RangeEnd(c) == IF c.start + c.count < Top THEN c.start + c.count ELSE None

DeriveStarts ==
  /\ phase = "called" /\ call.op = "derive"
  /\ IF /\ call.count <= MaxDerive
        /\ RangeEnd(call) # None
        /\ call.descriptor # Bad
        /\ call.change => Branches(call.descriptor) > 1
     THEN Finish("deriving") /\ at' = call.start
     ELSE Finish("invalid") /\ UNCHANGED at
  /\ UNCHANGED <<entries, totalIn, totalOut, exactIn, exactOut, fee, built>>

(* One turn of `for index in start..end`; an error drops the entries. *)
DeriveNext ==
  /\ phase = "deriving"
  /\ IF at < RangeEnd(call)
     THEN IF DerivesAt(call.descriptor, at)
          THEN /\ entries' = Append(entries, [index |-> at, change |-> call.change])
               /\ at' = at + 1
               /\ UNCHANGED <<call, phase, planVars>>
          ELSE Finish("invalid") /\ entries' = << >> /\ UNCHANGED at
     ELSE Finish("ok") /\ UNCHANGED <<entries, at>>
  /\ UNCHANGED <<totalIn, totalOut, exactIn, exactOut, fee, built>>

-----------------------------------------------------------------------------
(* psbt_summary *)

(* Mutant of CheckedAdd: it saturates. *)
CheckedAddSaturating(a, b) == IF a + b <= MaxAmount THEN a + b ELSE MaxAmount

CheckedAdd(a, b) == IF a + b <= MaxAmount THEN a + b ELSE None

(* The output an input spends, as far as the PSBT carries it. *)
Utxo(x) ==
  IF x.witness # None THEN x.witness
  ELSE IF x.previous # None /\ x.vout < Len(x.previous) THEN x.previous[x.vout + 1]
  ELSE None

SummaryStarts ==
  /\ phase = "called" /\ call.op = "summary"
  /\ IF call.inputs = Bad THEN Finish("invalid") ELSE Finish("inputs")
  /\ at' = 1
  /\ UNCHANGED <<entries, totalIn, totalOut, exactIn, exactOut, fee, built>>

SumInput ==
  /\ phase = "inputs"
  /\ at <= Len(call.inputs)
  /\ LET amount == Utxo(call.inputs[at]) IN
     /\ totalIn' = IF totalIn # None /\ amount # None THEN CheckedAdd(totalIn, amount) ELSE None
     /\ exactIn' = IF exactIn # None /\ amount # None THEN exactIn + amount ELSE None
     /\ entries' = Append(entries, amount)
  /\ at' = at + 1
  /\ UNCHANGED <<call, phase, totalOut, exactOut, fee, built, planVars>>

InputsSummed ==
  /\ phase = "inputs"
  /\ at > Len(call.inputs)
  /\ Finish("outputs") /\ at' = 1
  /\ UNCHANGED <<entries, totalIn, totalOut, exactIn, exactOut, fee, built>>

SumOutput ==
  /\ phase = "outputs"
  /\ at <= Len(call.outputs)
  /\ totalOut' = IF totalOut # None THEN CheckedAdd(totalOut, call.outputs[at]) ELSE None
  /\ exactOut' = exactOut + call.outputs[at]
  /\ at' = at + 1
  /\ UNCHANGED <<call, phase, entries, totalIn, exactIn, fee, built, planVars>>

Fee(in, out) == IF in # None /\ out # None /\ out <= in THEN in - out ELSE None

SummaryEnds ==
  /\ phase = "outputs"
  /\ at > Len(call.outputs)
  /\ fee' = Fee(totalIn, totalOut)
  /\ Finish("ok")
  /\ UNCHANGED <<at, entries, totalIn, totalOut, exactIn, exactOut, built>>

-----------------------------------------------------------------------------
(* The commands the host asks: any, or after a helper the signing that     *)
(* README.md:368 shows, with the descriptor just built.                    *)

Unnamed(d) == [name |-> [len |-> 0, class |-> "word", edge |-> FALSE],
               descriptor |-> d, hmac |-> None]

(* What the source tells apart by type. *)
ASSUME BuildAssumption ==
  \A c \in Calls : c.op = "build" /\ Buildable(c) =>
    LET d == Built(c.xpub, c.origin, c.format) IN d # Bad /\ Unnamed(d) # None

Asks ==
  /\ stage = "idle"
  /\ UNCHANGED helperVars
  /\ \/ phase = "none" /\ \E c \in Commands : Ask(c)
     \/ built # None /\ Ask([op |-> "SignPsbt", policy |-> Unnamed(built), inputs |-> << >>])

Helps ==
  \/ CallsHelper \/ BuildDescriptor \/ DeriveStarts \/ DeriveNext
  \/ SummaryStarts \/ SumInput \/ InputsSummed \/ SumOutput \/ SummaryEnds

WalletNext == Helps \/ Asks \/ (Answer /\ UNCHANGED helperVars)

WalletInit == Init /\ HelperInit

WalletSpec == WalletInit /\ [][WalletNext]_walletVars

-----------------------------------------------------------------------------
(***************************************************************************)
(* Properties.                                                             *)
(***************************************************************************)

(* The standard accounts, as build_singlesig_descriptor writes them.       *)
StandardPath(format, network, account) ==
  LET purpose == CASE format = "Legacy" -> 44 [] format = "NestedSegwit" -> 49
                   [] format = "NativeSegwit" -> 84 [] format = "Taproot" -> 86
  IN <<Hard(purpose), Hard(IF network = "Bitcoin" THEN 0 ELSE 1), Hard(account)>>

StandardXpub(network, account) ==
  [net |-> NetworkKind(network), depth |-> 3, child |-> Hard(account)]

StandardAccounts ==
  {Built(StandardXpub(s[2], s[3]), StandardPath(s[1], s[2], s[3]), s[1]) :
     s \in Formats \X Networks \X (0 .. 100)}

(* What a Ledger is asked to sign is bound to a policy it can verify: a    *)
(* registered one with its token, or a descriptor the host could have had  *)
(* from build_singlesig_descriptor for one of the accounts whose receive   *)
(* and change addresses the device derives itself (README.md:74).          *)
LedgerBound ==
  stage = "sent" /\ command.op = "SignPsbt" /\ kind = "Ledger" =>
    /\ command.policy # None
    /\ IF command.policy.name.len = 0
       THEN command.policy.hmac = None /\ command.policy.descriptor \in StandardAccounts
       ELSE command.policy.hmac = "set"

(* The helper and the preflight agree, although neither knows of the other: *)
(* the descriptor built from an account's own xpub and path is one a Ledger *)
(* signs for unregistered, as README.md:365-368 does, and one built from a  *)
(* path that is not the xpub's, or not a standard account's, is refused.    *)
BuiltIsSignable ==
  stage = "asked" /\ built # None /\ kind = "Ledger" =>
    (Plans(kind, command) <=>
       \E account \in 0 .. 100 :
         /\ call.origin = StandardPath(call.format, call.network, account)
         /\ call.xpub = StandardXpub(call.network, account))

(* derive_addresses returns the addresses of exactly the indices asked, in *)
(* order, none of them hardened, or nothing; and it refuses a call with a  *)
(* good descriptor only for an index that does not exist or for its size.  *)
DerivedRange ==
  call # None /\ call.op = "derive" =>
    /\ phase = "ok" =>
         /\ entries = [i \in 1 .. call.count |-> [index |-> call.start + i - 1, change |-> call.change]]
         /\ Ranged(call.descriptor) => \A i \in DOMAIN entries : entries[i].index < Hardened
    /\ phase = "invalid" =>
         /\ entries = << >>
         /\ \/ call.count > MaxDerive
            \/ call.start + call.count > Hardened
            \/ call.descriptor = Bad
            \/ call.change /\ Branches(call.descriptor) = 1
            \/ ~DerivesAt(call.descriptor, call.start)

(* The fee on the confirmation screen is the exact difference of what the  *)
(* PSBT says it spends and pays, or it is unknown: because an amount is    *)
(* missing, a sum leaves u64 or the outputs exceed the inputs.             *)
FeeExact ==
  phase = "ok" /\ call.op = "summary" =>
    fee = IF /\ exactIn # None
             /\ exactIn <= MaxAmount /\ exactOut <= MaxAmount /\ exactOut <= exactIn
          THEN exactIn - exactOut ELSE None
=============================================================================
