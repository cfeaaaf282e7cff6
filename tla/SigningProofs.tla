--------------------------- MODULE SigningProofs ---------------------------
(***************************************************************************)
(* Proofs about SigningRounds for any number of inputs, places, signatures *)
(* and rounds: whatever the devices return, the gate keeps every signature *)
(* and the spend, and admits only signatures in the requested mode.        *)
(***************************************************************************)
EXTENDS SigningRounds, SequenceTheorems, TLAPS

USE SigningAssumption

(* NothingLost speaks about psbt.inputs[e[1]]: it is preserved because no  *)
(* round shortens the list of inputs.                                      *)
SignedInputs == \A e \in signed : e[1] \in DOMAIN psbt.inputs

IInv == TypeOK /\ SignedInputs /\ NothingLost

-----------------------------------------------------------------------------
(* What the device may return is a PSBT. *)

LEMMA InputEditsTyped ==
  ASSUME NEW x \in Inputs
  PROVE  InputEdits(x) \subseteq Inputs
BY DEF Inputs, InputEdits, Scripts, Witnesses, Requests

LEMMA EditsTyped ==
  ASSUME NEW p \in Psbts
  PROVE  Edits(p) \subseteq Psbts
<1> SUFFICES ASSUME NEW q \in Edits(p) PROVE q \in Psbts
  OBVIOUS
<1>0. p.inputs \in Seq(Inputs)
  BY DEF Psbts
<1>1. CASE q = [p EXCEPT !.tx = "another"]
  BY <1>1 DEF Psbts
<1>2. CASE \E n \in 0 .. Len(p.inputs) : q = [p EXCEPT !.inputs = SubSeq(@, 1, n)]
  <2>1. PICK n \in 0 .. Len(p.inputs) : q = [p EXCEPT !.inputs = SubSeq(p.inputs, 1, n)]
    BY <1>2 DEF Psbts
  <2>2. \A i \in 1 .. n : p.inputs[i] \in Inputs
    BY <1>0, ElementOfSeq
  <2>3. SubSeq(p.inputs, 1, n) \in Seq(Inputs)
    BY <2>2, SubSeqProperties
  <2> QED
    BY <2>1, <2>3 DEF Psbts
<1>3. CASE \E i \in DOMAIN p.inputs : \E x \in InputEdits(p.inputs[i]) :
             q = [p EXCEPT !.inputs[i] = x]
  <2>1. PICK i \in DOMAIN p.inputs : \E x \in InputEdits(p.inputs[i]) :
                                        q = [p EXCEPT !.inputs[i] = x]
    BY <1>3
  <2>x. PICK x \in InputEdits(p.inputs[i]) : q = [p EXCEPT !.inputs[i] = x]
    BY <2>1
  <2>2. i \in 1 .. Len(p.inputs)
    BY <1>0
  <2>3. x \in Inputs
    BY <1>0, <2>2, ElementOfSeq, InputEditsTyped
  <2>4. [p.inputs EXCEPT ![i] = x] \in Seq(Inputs)
    BY <1>0, <2>2, <2>3, ExceptSeq
  <2>5. q = [p EXCEPT !.inputs = [p.inputs EXCEPT ![i] = x]]
    BY <2>x DEF Psbts
  <2> QED
    BY <2>4, <2>5 DEF Psbts
<1>4. CASE q \in UNION {{[p EXCEPT !.inputs[i] = x] : x \in InputEdits(p.inputs[i])} :
                          i \in DOMAIN p.inputs}
  <2>1. PICK i \in DOMAIN p.inputs :
          q \in {[p EXCEPT !.inputs[i] = x] : x \in InputEdits(p.inputs[i])}
    BY <1>4
  <2> QED
    BY <2>1, <1>3
<1> QED
  BY <1>1, <1>2, <1>4 DEF Edits

-----------------------------------------------------------------------------
(* The gate. *)

(* An accepted result has the same inputs, by number. *)
LEMMA AcceptedDomain ==
  ASSUME NEW p \in Psbts, NEW q \in Psbts, Accepts(p, q)
  PROVE  DOMAIN q.inputs = DOMAIN p.inputs /\ Len(q.inputs) = Len(p.inputs) /\ q.tx = p.tx
<1>1. p.inputs \in Seq(Inputs) /\ q.inputs \in Seq(Inputs)
  BY DEF Psbts
<1> QED
  BY <1>1 DEF Accepts

(* A signature that is in its place or among the final data of an input is *)
(* so after any round that the gate accepts.                               *)
LEMMA KeptByGate ==
  ASSUME NEW x \in Inputs, NEW y \in Inputs, Preserved(x, y),
         NEW k \in Places, NEW s \in Signatures,
         x.sigs[k] = s \/ FinalContains(x, s)
  PROVE  y.sigs[k] = s \/ FinalContains(y, s)
<1>1. CASE x.sigs[k] = s
  <2>1. s # Absent
    OBVIOUS
  <2> QED
    BY <1>1, <2>1 DEF Preserved, PreservedSignatures
<1>2. CASE FinalContains(x, s)
  BY <1>2 DEF FinalContains, Preserved, PreservedFinal
<1> QED
  BY <1>1, <1>2

LEMMA SignedInPlace ==
  ASSUME NEW p, NEW e \in SignedIn(p)
  PROVE  /\ e[1] \in DOMAIN p.inputs /\ e[2] \in Places /\ e[3] \in Signatures
         /\ p.inputs[e[1]].sigs[e[2]] = e[3]
BY DEF SignedIn

(* A mode that equals the requested one is one the request asks for. *)
LEMMA RequestedIsAsked ==
  ASSUME NEW x \in Inputs, NEW k \in Places, NEW s \in Signatures,
         ModeOf[s] = Requested(x, k)
  PROVE  ModeOf[s] \in Asked(x, k)
<1>1. ModeOf[s] \in {"all", "single", "default"}
  OBVIOUS
<1>2. x.sighash \in Requests
  BY DEF Inputs
<1> QED
  BY <1>1, <1>2 DEF Requested, Asked, Requests

-----------------------------------------------------------------------------
(* The invariant. *)

LEMMA InitIInv == Init => IInv
<1> SUFFICES ASSUME Init PROVE IInv
  OBVIOUS
<1>1. PICK n \in 1 .. MaxInputs : psbt.inputs \in [1 .. n -> FreshInputs]
  BY DEF Init
<1>2. psbt.tx = "asked" /\ psbt = [tx |-> psbt.tx, inputs |-> psbt.inputs]
  BY DEF Init
<1>3. psbt.inputs \in [1 .. n -> Inputs] /\ n \in Nat \ {0} /\ n <= MaxInputs
  BY <1>1 DEF FreshInputs
<1>4. psbt.inputs \in Seq(Inputs) /\ Len(psbt.inputs) = n
  BY <1>3, SeqDef
<1>5. \A e \in signed : /\ e[1] \in DOMAIN psbt.inputs /\ e[2] \in Places
                        /\ e[3] \in Signatures /\ psbt.inputs[e[1]].sigs[e[2]] = e[3]
  BY SignedInPlace DEF Init
<1>6. signed \subseteq (1 .. MaxInputs) \X Places \X Signatures
  BY <1>3 DEF Init, SignedIn
<1> QED
  BY <1>2, <1>3, <1>4, <1>5, <1>6 DEF IInv, TypeOK, Psbts, SignedInputs, NothingLost

LEMMA NextReturns ==
  ASSUME TypeOK, Next
  PROVE  \E returned \in Psbts : Signs(returned)
<1>1. PICK once \in Edits(psbt) : \E returned \in Edits(once) : Signs(returned)
  BY DEF Next
<1>2. once \in Psbts
  BY <1>1, EditsTyped DEF TypeOK
<1> QED
  BY <1>1, <1>2, EditsTyped

LEMMA SignsIInv ==
  ASSUME IInv, NEW returned \in Psbts, Signs(returned)
  PROVE  IInv'
<1> USE DEF IInv
<1>0. /\ psbt \in Psbts /\ psbt' = returned /\ Accepts(psbt, returned)
      /\ signed' = signed \cup SignedIn(returned)
  BY DEF TypeOK, Signs
<1>1. /\ DOMAIN returned.inputs = DOMAIN psbt.inputs
      /\ Len(returned.inputs) = Len(psbt.inputs) /\ returned.tx = psbt.tx
  BY <1>0, AcceptedDomain
<1>2. /\ psbt.inputs \in Seq(Inputs) /\ returned.inputs \in Seq(Inputs)
      /\ DOMAIN psbt.inputs = 1 .. Len(psbt.inputs) /\ Len(psbt.inputs) \in Nat
  BY <1>0 DEF Psbts
<1>3. TypeOK'
  <2>1. DOMAIN returned.inputs \subseteq 1 .. MaxInputs
    BY <1>1, <1>2 DEF TypeOK
  <2>2. SignedIn(returned) \subseteq (1 .. MaxInputs) \X Places \X Signatures
    BY <2>1 DEF SignedIn
  <2> QED
    BY <1>0, <1>1, <2>2 DEF TypeOK
<1>5. SignedInputs'
  BY <1>0, <1>1, SignedInPlace DEF SignedInputs
<1>6. NothingLost'
  <2>0. psbt'.tx = "asked"
    BY <1>0, <1>1 DEF NothingLost
  <2> SUFFICES ASSUME NEW e \in signed'
               PROVE  LET x == returned.inputs[e[1]]
                      IN x.sigs[e[2]] = e[3] \/ FinalContains(x, e[3])
    BY <1>0, <2>0 DEF NothingLost
  <2>1. CASE e \in SignedIn(returned)
    BY <2>1, SignedInPlace
  <2>2. CASE e \in signed
    <3>1. e[1] \in DOMAIN psbt.inputs /\ e[2] \in Places /\ e[3] \in Signatures
      BY <2>2 DEF SignedInputs, TypeOK
    <3>2. psbt.inputs[e[1]] \in Inputs /\ returned.inputs[e[1]] \in Inputs
      BY <3>1, <1>1, <1>2, ElementOfSeq
    <3>3. Preserved(psbt.inputs[e[1]], returned.inputs[e[1]])
      BY <3>1, <1>0 DEF Accepts
    <3>4. \/ psbt.inputs[e[1]].sigs[e[2]] = e[3]
          \/ FinalContains(psbt.inputs[e[1]], e[3])
      BY <2>2 DEF NothingLost
    <3> QED
      BY <3>1, <3>2, <3>3, <3>4, KeptByGate
  <2> QED
    BY <2>1, <2>2, <1>0
<1> QED
  BY <1>3, <1>5, <1>6

(* The inductive invariant of the rounds. *)
THEOREM SigningInvariance == Spec => []IInv
<1>1. IInv /\ [Next]_vars => IInv'
  <2> SUFFICES ASSUME IInv, [Next]_vars PROVE IInv'
    OBVIOUS
  <2>1. CASE Next
    BY <2>1, NextReturns, SignsIInv DEF IInv
  <2>2. CASE UNCHANGED vars
    BY <2>2 DEF vars, IInv, TypeOK, SignedInputs, NothingLost
  <2> QED
    BY <2>1, <2>2
<1> QED
  BY InitIInv, <1>1, PTL DEF Spec

(* The PSBT of the wallet stays well formed, whatever a device returns. *)
THEOREM SigningTypeCorrect == Spec => []TypeOK
BY SigningInvariance, PTL DEF IInv

(* No signature the wallet ever adopted is lost in a later round, nor the  *)
(* transaction it signs: the promise of the comparison of the unsigned     *)
(* transaction and of the `preserved` check in Interp::end.                *)
THEOREM NothingLostForever == Spec => []NothingLost
BY SigningInvariance, PTL DEF IInv

(* A signature added by a round carries the mode its request asked for:    *)
(* the promise of the `modes_match` check of Interp::end.                  *)
THEOREM ModesKept == Spec => AddedAsRequested
<1> DEFINE Added ==
      \A i \in DOMAIN psbt.inputs, k \in Places :
        psbt'.inputs[i].sigs[k] \notin {psbt.inputs[i].sigs[k], Absent} =>
          ModeOf[psbt'.inputs[i].sigs[k]] \in Asked(psbt.inputs[i], k)
<1>1. IInv /\ [Next]_vars => [Added]_vars
  <2> SUFFICES ASSUME IInv, Next PROVE Added
    OBVIOUS
  <2>1. PICK returned \in Psbts : Signs(returned)
    BY NextReturns DEF IInv
  <2>2. psbt \in Psbts /\ psbt' = returned /\ Accepts(psbt, returned)
    BY <2>1 DEF IInv, TypeOK, Signs
  <2> SUFFICES ASSUME NEW i \in DOMAIN psbt.inputs, NEW k \in Places,
                      returned.inputs[i].sigs[k] \notin {psbt.inputs[i].sigs[k], Absent}
               PROVE  ModeOf[returned.inputs[i].sigs[k]] \in Asked(psbt.inputs[i], k)
    BY <2>2
  <2>3. psbt.inputs[i] \in Inputs /\ returned.inputs[i] \in Inputs
    <3>1. psbt.inputs \in Seq(Inputs) /\ returned.inputs \in Seq(Inputs)
      BY <2>2 DEF Psbts
    <3>2. DOMAIN returned.inputs = DOMAIN psbt.inputs
      BY <2>2, AcceptedDomain
    <3> QED
      BY <3>1, <3>2, ElementOfSeq
  <2>4. returned.inputs[i].sigs[k] \in Signatures
    BY <2>3 DEF Inputs
  <2>5. Preserved(psbt.inputs[i], returned.inputs[i]) /\ ModesMatch(psbt.inputs[i], returned.inputs[i])
    BY <2>2 DEF Accepts
  <2>6. psbt.inputs[i].sigs[k] = Absent
    BY <2>4, <2>5 DEF Preserved, PreservedSignatures
  <2>7. ModeOf[returned.inputs[i].sigs[k]] = Requested(psbt.inputs[i], k)
    BY <2>4, <2>5, <2>6 DEF ModesMatch
  <2> QED
    BY <2>3, <2>4, <2>7, RequestedIsAsked
<1> QED
  BY SigningInvariance, <1>1, PTL DEF Spec, AddedAsRequested

-----------------------------------------------------------------------------
(* The gate admits what an honest device does to one input, *)

LEMMA HonestInput ==
  ASSUME NEW y \in Inputs, NEW x \in HonestInputs(y)
  PROVE  Preserved(y, x) /\ ModesMatch(y, x)
<1> USE DEF Preserved, PreservedSignatures, PreservedFinal, ModesMatch
<1>1. CASE x = y
  BY <1>1
<1>2. CASE \E e \in Places \X Signatures :
             /\ y.sigs[e[1]] = Absent /\ ModeOf[e[2]] \in Asked(y, e[1])
             /\ x = [y EXCEPT !.sigs[e[1]] = e[2]]
  <2>1. PICK k \in Places, s \in Signatures :
          /\ y.sigs[k] = Absent /\ ModeOf[s] \in Asked(y, k)
          /\ x = [y EXCEPT !.sigs[k] = s]
    BY <1>2
  <2>2. /\ x.sigs[k] = s /\ \A l \in Places : l # k => x.sigs[l] = y.sigs[l]
        /\ x.script = y.script /\ x.witness = y.witness
    BY <2>1 DEF Inputs
  <2>3. ModeOf[s] = Requested(y, k)
    BY <2>1 DEF Asked, Requested, Inputs, Requests
  <2> QED
    BY <2>1, <2>2, <2>3
<1>3. CASE /\ y.witness = Absent
           /\ x = [y EXCEPT !.sigs = [k \in Places |-> Absent], !.witness = Placed(y)]
  <2>1. /\ x.witness = Placed(y) /\ x.script = y.script
        /\ \A k \in Places : x.sigs[k] = Absent
    BY <1>3 DEF Inputs
  <2>2. Placed(y) \in SUBSET Signatures
    BY DEF Placed, Inputs
  <2>3. Placed(y) # Absent
    BY <2>2
  <2>4. \A k \in Places : y.sigs[k] # Absent => FinalContains(x, y.sigs[k])
    BY <2>1, <2>3 DEF FinalContains, Placed
  <2> QED
    BY <1>3, <2>1, <2>4
<1> QED
  BY <1>1, <1>2, <1>3 DEF HonestInputs

(* and one that it leaves alone. *)
LEMMA UntouchedInput ==
  ASSUME NEW y PROVE Preserved(y, y) /\ ModesMatch(y, y)
BY DEF Preserved, PreservedSignatures, PreservedFinal, ModesMatch

(* A round with an honest device always succeeds, whatever earlier ones    *)
(* signed or finalised: the gate of Interp::end refuses no such result.    *)
THEOREM HonestNeverRefused == Spec => []HonestAccepted
<1>1. TypeOK => HonestAccepted
  <2> SUFFICES ASSUME TypeOK, NEW i \in DOMAIN psbt.inputs,
                      NEW x \in HonestInputs(psbt.inputs[i])
               PROVE  Accepts(psbt, [psbt EXCEPT !.inputs[i] = x])
    BY DEF HonestAccepted
  <2>1. /\ psbt \in Psbts /\ psbt.inputs \in Seq(Inputs) /\ i \in 1 .. Len(psbt.inputs)
        /\ DOMAIN psbt.inputs = 1 .. Len(psbt.inputs)
    BY DEF TypeOK, Psbts
  <2>2. psbt.inputs[i] \in Inputs
    BY <2>1, ElementOfSeq
  <2> DEFINE returned == [psbt EXCEPT !.inputs[i] = x]
  <2>3. returned.tx = psbt.tx /\ returned.inputs = [psbt.inputs EXCEPT ![i] = x]
    BY <2>1 DEF Psbts
  <2> HIDE DEF returned
  <2>4. /\ Len(returned.inputs) = Len(psbt.inputs) /\ returned.inputs[i] = x
        /\ \A j \in DOMAIN psbt.inputs : j # i => returned.inputs[j] = psbt.inputs[j]
    BY <2>1, <2>3
  <2>5. \A j \in DOMAIN psbt.inputs :
          /\ Preserved(psbt.inputs[j], returned.inputs[j])
          /\ ModesMatch(psbt.inputs[j], returned.inputs[j])
    BY <2>2, <2>4, HonestInput, UntouchedInput
  <2> QED
    BY <2>3, <2>4, <2>5 DEF Accepts, returned
<1> QED
  BY <1>1, SigningTypeCorrect, PTL
=============================================================================
