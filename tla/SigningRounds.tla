---------------------------- MODULE SigningRounds ----------------------------
(***************************************************************************)
(* The result gate of Interp::end (interp.rs) for SignPsbt, over a PSBT    *)
(* that goes from one signing device to the next, as a multisig spend      *)
(* does.  Session::start keeps a snapshot of the request; the device may   *)
(* return any PSBT; the wallet adopts what passes the gate and sends that  *)
(* to the next device.                                                     *)
(*                                                                         *)
(* partial_sigs, tap_script_sigs and tap_key_sig are one function from     *)
(* places to signatures: the gate treats the three alike but for the       *)
(* sighash a request without one stands for.  A scriptSig or a witness is  *)
(* the set of the data it pushes.  A signature is a value with a mode.     *)
(***************************************************************************)
EXTENDS Naturals, Sequences

CONSTANTS Places,     \* public keys, script-path keys and the key path
          Taproot,    \* the places that are Taproot's
          Signatures, \* distinct signatures
          ModeOf,     \* the sighash mode each of them carries
          Pushes,     \* the sets of data a final script or witness may hold
          MaxInputs,  \* bound on the inputs of a PSBT
          Absent, Unparsable

ASSUME SigningAssumption ==
  /\ Taproot \subseteq Places
  /\ ModeOf \in [Signatures -> {"all", "single", "default"}]
  /\ Pushes \subseteq SUBSET Signatures
  /\ MaxInputs \in Nat \ {0}
  /\ Absent \notin Signatures \cup Pushes /\ Unparsable \notin Pushes
  /\ \A data \in SUBSET Signatures : data # Absent

VARIABLES psbt,    \* the PSBT the wallet holds
          signed   \* history: <<input, place, signature>> ever adopted

vars == <<psbt, signed>>

(* sighash_type: absent, one of the standard ones or something else. *)
Requests == {"none", "all", "single", "default", "nonstandard"}

Scripts   == Pushes \cup {Absent, Unparsable}
Witnesses == Pushes \cup {Absent}
Inputs == [sigs : [Places -> Signatures \cup {Absent}],
           script : Scripts, witness : Witnesses, sighash : Requests]

Psbts == [tx : {"asked", "another"}, inputs : Seq(Inputs)]

TypeOK ==
  /\ psbt \in Psbts
  /\ Len(psbt.inputs) <= MaxInputs
  /\ signed \subseteq (1 .. MaxInputs) \X Places \X Signatures

SignedIn(p) ==
  {e \in (DOMAIN p.inputs) \X Places \X Signatures : p.inputs[e[1]].sigs[e[2]] = e[3]}

(* A request: no final fields yet, at most one signature of somebody else. *)
FreshInputs == {x \in Inputs :
  /\ x.script = Absent /\ x.witness = Absent
  /\ \A k, l \in Places : x.sigs[k] # Absent /\ x.sigs[l] # Absent => k = l}

Init ==
  /\ psbt \in [tx : {"asked"}, inputs : UNION {[1 .. n -> FreshInputs] : n \in 1 .. MaxInputs}]
  /\ signed = SignedIn(psbt)

-----------------------------------------------------------------------------
(* The gate. *)

(* The bytes of the signature are an item of the returned witness or a     *)
(* push of the returned scriptSig; a script that does not parse to its end *)
(* contains nothing.                                                       *)
FinalContains(returned, s) ==
  \/ returned.witness # Absent /\ s \in returned.witness
  \/ returned.script \notin {Absent, Unparsable} /\ s \in returned.script

(* Mutant of PreservedSignatures: finalised inputs are not provided for. *)
PreservedInPlace(original, returned) ==
  \A k \in Places : original.sigs[k] # Absent => returned.sigs[k] = original.sigs[k]

(* Every signature of the request is still in its place or has moved into  *)
(* a final field; final fields are what they were.                         *)
PreservedSignatures(original, returned) ==
  \A k \in Places : original.sigs[k] # Absent =>
    IF returned.sigs[k] = Absent THEN FinalContains(returned, original.sigs[k])
                                 ELSE returned.sigs[k] = original.sigs[k]

(* Mutant of PreservedFinal: the witness is forgotten. *)
PreservedScript(original, returned) ==
  original.script # Absent => returned.script = original.script

PreservedFinal(original, returned) ==
  /\ original.script # Absent => returned.script = original.script
  /\ original.witness # Absent => returned.witness = original.witness

Preserved(original, returned) ==
  PreservedSignatures(original, returned) /\ PreservedFinal(original, returned)

(* ecdsa_hash_ty and taproot_hash_ty of a request; an error is no mode. *)
Requested(original, k) ==
  CASE original.sighash = "none" -> IF k \in Taproot THEN "default" ELSE "all"
    [] original.sighash = "default" -> IF k \in Taproot THEN "default" ELSE "error"
    [] original.sighash = "nonstandard" -> "error"
    [] OTHER -> original.sighash

(* Mutant of ModesMatch: the returned sighash field is trusted. *)
ModesMatchReturned(original, returned) ==
  \A k \in Places : original.sigs[k] = Absent /\ returned.sigs[k] # Absent
                      => ModeOf[returned.sigs[k]] = Requested(returned, k)

(* Only signatures in places that were empty are compared, with the        *)
(* original request.                                                       *)
ModesMatch(original, returned) ==
  \A k \in Places : original.sigs[k] = Absent /\ returned.sigs[k] # Absent
                      => ModeOf[returned.sigs[k]] = Requested(original, k)

Accepts(original, returned) ==
  /\ returned.tx = original.tx
  /\ Len(returned.inputs) = Len(original.inputs)
  /\ \A i \in DOMAIN original.inputs :
       /\ Preserved(original.inputs[i], returned.inputs[i])
       /\ ModesMatch(original.inputs[i], returned.inputs[i])

-----------------------------------------------------------------------------
(* The device: what it returns differs from the request in at most two     *)
(* respects, each of them arbitrary.                                       *)

InputEdits(x) ==
  {[x EXCEPT !.sigs[k] = s] : k \in Places, s \in Signatures \cup {Absent}}
    \cup {[x EXCEPT !.script = s] : s \in Scripts}
    \cup {[x EXCEPT !.witness = s] : s \in Witnesses}
    \cup {[x EXCEPT !.sighash = s] : s \in Requests}

Edits(p) ==
  {[p EXCEPT !.tx = "another"]}
    \cup {[p EXCEPT !.inputs = SubSeq(@, 1, n)] : n \in 0 .. Len(p.inputs)}
    \cup UNION {{[p EXCEPT !.inputs[i] = x] : x \in InputEdits(p.inputs[i])} : i \in DOMAIN p.inputs}

(* The wallet adopts a result that end() returns. *)
Signs(returned) ==
  /\ Accepts(psbt, returned)
  /\ psbt' = returned
  /\ signed' = signed \cup SignedIn(returned)

Next == \E once \in Edits(psbt) : \E returned \in Edits(once) : Signs(returned)

Spec == Init /\ [][Next]_vars

-----------------------------------------------------------------------------
(***************************************************************************)
(* Properties.                                                             *)
(***************************************************************************)

(* However many devices signed, in whatever order they finalised inputs or *)
(* rewrote fields, every signature the wallet ever adopted is still there: *)
(* in its place or among the final data, and still signs the transaction   *)
(* that was asked for (README.md:88).                                      *)
NothingLost ==
  /\ psbt.tx = "asked"
  /\ \A e \in signed :
       LET x == psbt.inputs[e[1]]
       IN x.sigs[e[2]] = e[3] \/ FinalContains(x, e[3])

(* The modes a signer may use in a place: what the request names, and if   *)
(* it names none ALL for ECDSA and DEFAULT for Taproot, which alone has a  *)
(* DEFAULT to ask for.                                                     *)
Asked(x, k) ==
  {m \in {"all", "single", "default"} :
     /\ x.sighash \in {m, "none"}
     /\ x.sighash = "none" => m = (IF k \in Taproot THEN "default" ELSE "all")
     /\ m = "default" => k \in Taproot}

(* A signature that a round adds carries the mode the request of that      *)
(* round asked for, whatever the device wrote into the returned sighash    *)
(* field (README.md:91).                                                   *)
AddedAsRequested ==
  [][\A i \in DOMAIN psbt.inputs, k \in Places :
       psbt'.inputs[i].sigs[k] \notin {psbt.inputs[i].sigs[k], Absent} =>
         ModeOf[psbt'.inputs[i].sigs[k]] \in Asked(psbt.inputs[i], k)]_vars

(* The gate is not a blanket refusal: a device that changes nothing, adds  *)
(* one signature as requested to an empty place, or moves the signatures   *)
(* of an input into its first final witness, is always accepted, with      *)
(* foreign requests and signatures in the PSBT as well (README.md:87, :95).*)
Placed(x) == {x.sigs[k] : k \in Places} \ {Absent}

HonestInputs(x) ==
  {x}
    \cup {[x EXCEPT !.sigs[e[1]] = e[2]] :
             e \in {a \in Places \X Signatures :
                     x.sigs[a[1]] = Absent /\ ModeOf[a[2]] \in Asked(x, a[1])}}
    \cup {[x EXCEPT !.sigs = [k \in Places |-> Absent], !.witness = w] :
             w \in IF x.witness = Absent THEN {Placed(x)} ELSE {}}

HonestAccepted ==
  \A i \in DOMAIN psbt.inputs : \A x \in HonestInputs(psbt.inputs[i]) :
    Accepts(psbt, [psbt EXCEPT !.inputs[i] = x])
=============================================================================
