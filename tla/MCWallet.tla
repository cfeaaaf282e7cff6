------------------------------ MODULE MCWallet ------------------------------
(* Commands and helper calls at and around the boundaries of each check. *)
EXTENDS Wallet

AllKinds == {"Ledger", "Coldcard", "BitBox", "Jade", "Trezor", "KeepKey", "Specter"}

(* The empty name has no characters, and a space is not a word's. *)
Names ==
  {[len |-> 0, class |-> "word", edge |-> FALSE]}
    \cup [len : {1, 2, 16, 17, 20, 21, 30, 31, 64, 65},
          class : {"word", "plain", "ampersand", "text", "control"}, edge : {FALSE}]
    \cup [len : {1, 2, 16, 17, 20, 21, 30, 31, 64, 65},
          class : {"plain", "ampersand", "text", "control"}, edge : {TRUE}]
Plain == [len |-> 4, class |-> "word", edge |-> FALSE]
Empty == [len |-> 0, class |-> "word", edge |-> FALSE]

(* Account keys with at most one field out of the ordinary. *)
Account(p, net, a) ==
  [form |-> "multi", suffix |-> "branches", net |-> net, depth |-> 3, child |-> Hard(a),
   compressed |-> TRUE, origin |-> <<Hard(p), Hard(IF net = "main" THEN 0 ELSE 1), Hard(a)>>]
KeyEdits(x) ==
  {x} \cup {[x EXCEPT !.suffix = t] : t \in {"others", "hardened", "hardwild"}}
      \cup {[x EXCEPT !.form = "xpub", !.suffix = t] :
              t \in {"receive", "concrete", "hardened", "hardwild"}}
      \cup {[x EXCEPT !.net = n] : n \in {"main", "test"}}
      \cup {[x EXCEPT !.depth = 2], [x EXCEPT !.child = Hard(7)],
            [x EXCEPT !.child = [@ EXCEPT !.hard = FALSE]], [x EXCEPT !.origin = None],
            [x EXCEPT !.origin = << >>]}
      \cup {[x EXCEPT !.form = "single", !.suffix = "none", !.compressed = c] : c \in BOOLEAN}
      \cup {[x EXCEPT !.origin = Append(@, Hard(2))]}
      \cup {[x EXCEPT !.origin[i].hard = FALSE] : i \in DOMAIN x.origin}
Keys == UNION {KeyEdits(Account(p, "main", a)) : p \in {44, 49, 84, 86}, a \in {100, 101}}
(* Only "tr" and "wsh" take several keys, only "wsh" and "bare" none. *)
Descriptors == {Bad}
  \cup [wrapper : Wrappers, keys : {<<x>> : x \in Keys}]
  \cup [wrapper : {"tr", "wsh"},
        keys : {<<Account(84, "test", 0), x>> : x \in KeyEdits(Account(84, "test", 1))}]
  \cup [wrapper : {"wsh", "bare"}, keys : {<< >>}]
Good == [wrapper |-> "wpkh", keys |-> <<Account(84, "test", 0)>>]

Policies ==
  [name : Names, descriptor : {Good}, hmac : {None, "short", "zero", "set"}]
    \cup [name : {Plain, Empty}, descriptor : Descriptors, hmac : {None, "set"}]

Spend(s, script, redeem) ==
  {[spend |-> s, witnessScript |-> script, redeem |-> redeem, witnessUtxo |-> u] : u \in BOOLEAN}
InputSpace ==
  Spend("p2pkh", FALSE, None) \cup Spend("p2wpkh", FALSE, None)
    \cup Spend("p2sh-p2wpkh", FALSE, "p2wpkh") \cup Spend("p2tr", FALSE, None)
    \cup Spend("p2wsh", TRUE, None) \cup Spend("p2sh-p2wsh", TRUE, "p2wsh")
    \cup Spend("p2sh", FALSE, "script") \cup Spend("p2tr-script", FALSE, None)

Paths == {Bad} \cup [first : {84, 86}]
Concrete == KeyEdits(Account(48, "test", 0))

CommandsOver(inputs) ==
  {[op |-> o] : o \in {"Unlock", "GetVersion", "PromptPin", "GetMasterFingerprint"}}
    \cup [op : {"SendPin"}, digits : {"empty", "digits", "other"}]
    \cup [op : {"GetXpub", "SignMessage"}, path : Paths]
    \cup [op : {"DisplayAddress"}, path : Paths, format : {None, "Taproot", "NativeSegwit"}]
    \cup [op : {"RegisterWallet"}, name : Names, descriptor : {Good}]
    \cup [op : {"RegisterWallet"}, name : {Plain, Empty}, descriptor : Descriptors]
    \cup [op : {"DisplayDescriptorAddress"}, policy : Policies,
          index : {[n |-> 0, hard |-> FALSE], [n |-> 0, hard |-> TRUE]}]
    \cup [op : {"DisplayMultisigAddress"}, threshold : {0, 1, 2, 15, 16}, sorted : BOOLEAN,
          keys : {[i \in 1 .. n |-> x] : n \in {0, 1, 2, 15, 16}, x \in Concrete}]
    \cup [op : {"SignPsbt"}, policy : Policies \cup {None}, inputs : {Bad, << >>}]
    \cup [op : {"SignPsbt"}, policy : {None, [name |-> Plain, descriptor |-> Good, hmac |-> None]},
          inputs : {<<x, y>> : x, y \in inputs}]

MCCommands == CommandsOver(InputSpace)

-----------------------------------------------------------------------------
(* Every start and count of a u32 of 0 .. Top - 1, over one key of each sort. *)
DeriveCalls ==
  [op : {"derive"}, change : BOOLEAN, start : 0 .. Top - 1, count : 0 .. Top - 1,
   descriptor : {Bad, [wrapper |-> "bare", keys |-> << >>]}
                  \cup [wrapper : {"wpkh"}, keys : {<<x>> : x \in KeyEdits(Account(84, "test", 0))}]]

(* Amounts up to the largest, present, absent or out of reach. *)
SummaryInputs ==
  [witness : {None, 1, 3}, previous : {None, <<2>>, <<1, 3>>}, vout : {0, 1}]
SummaryCalls ==
  [op : {"summary"}, inputs : {Bad} \cup UNION {[1 .. n -> SummaryInputs] : n \in 0 .. 2},
   outputs : UNION {[1 .. n -> {1, 3}] : n \in 0 .. 2}]

(* Account xpubs and paths, standard and one step off. *)
BuildXpubs ==
  [net : {"main", "test"}, depth : {3},
   child : {Hard(0), Hard(100), Hard(101), [n |-> 0, hard |-> FALSE]}]
    \cup [net : {"main", "test"}, depth : {2}, child : {Hard(0)}]
BuildPaths ==
  {<<Hard(p), Hard(c), Hard(a)>> : p \in {44, 49, 84, 86}, c \in {0, 1}, a \in {0, 100, 101}}
    \cup {<< >>, <<Hard(84), Hard(1)>>, <<Hard(84), Hard(1), Hard(0), Hard(2)>>,
          <<Hard(84), Hard(1), [n |-> 0, hard |-> FALSE]>>}
BuildCalls ==
  [op : {"build"}, xpub : BuildXpubs, origin : BuildPaths, fingerprint : {"some"},
   format : Formats, network : {"Bitcoin", "Testnet", "Regtest"}]
    \cup [op : {"build"}, xpub : {Bad, StandardXpub("Signet", 0)}, fingerprint : {"some", Bad},
          origin : {Bad, StandardPath("Taproot", "Signet", 0)},
          format : {"Taproot"}, network : {"Signet"}]

MCCalls == DeriveCalls \cup SummaryCalls \cup BuildCalls
=============================================================================
