---- MODULE MCPlainLinks ----
(* The sizes around each framing's boundaries: one frame and two, the byte   *)
(* that no longer fits, and for U2F the longest message and one beyond it; *)
(* and the streams that cut a Jade's answer short or make it another's.    *)
EXTENDS PlainLinks, WalkCuts

Framing == INSTANCE Cbor
MCWalk(buf)    == Framing!EndOfValue(buf)
MCWellFormed(buf) == Framing!IsValue(buf)

MCLinks == {"ledger", "ble", "coldcard", "bitbox"}
MCRequestSizes == [ledger |-> {57, 58}, ble |-> {0, 15, 16}, coldcard |-> {63, 64},
                   bitbox |-> {56, 57, 7549, 7550}]
MCAnswerSizes == [ledger |-> {0, 57, 117}, ble |-> {2, 40}, coldcard |-> {4, 127},
                  bitbox |-> {0, 57, 116}]

(* An integer, a map of an indefinite string to a tagged integer, and an *)
(* array whose length takes eight bytes.                                   *)
MCMessages == { <<0>>, <<161, 95, 65, 0, 255, 193, 0>>,
                <<155, 0, 0, 0, 0, 0, 0, 0, 1, 0>> }

(* Integers, strings, arrays, maps and tags of definite and indefinite     *)
(* length, lengths of two bytes that need not fit, and the break.          *)
MCAlphabet == {0, 1, 24, 28, 65, 89, 95, 129, 159, 161, 185, 191, 193, 255}

(* All short streams over those, and longer headers, with all the bytes    *)
(* they announce and some more.                                            *)
Longer == { <<161, 95, 65, 0, 255, 193, 65, 0, 0>>,
            <<91, 0, 0, 0, 0, 0, 0, 0, 1, 0, 0>>,
            <<155, 0, 0, 0, 0, 0, 0, 0, 2, 0, 0, 0>>,
            <<187, 0, 0, 0, 0, 0, 0, 0, 2, 0, 0, 0, 0, 0>>,
            <<187, 128, 0, 0, 0, 0, 0, 0, 1, 0, 0>>,
            <<122, 0, 0, 0, 2, 0, 0>>, <<154, 255, 255, 255, 255, 0>>,
            <<130, 162, 0, 129, 0, 0, 1, 191, 0, 159, 255, 255, 0>> }

MCStreams == Longer \cup UNION {[1 .. n -> Alphabet] : n \in 0 .. MaxBytes}

-----------------------------------------------------------------------------
(* The exchanges over a link, and the walks over a stream: a behaviour is  *)
(* one of PlainSpec while the walks rest on the empty stream, or one of    *)
(* WalksSpec beside a link that is not used.                               *)
MCInit == PlainInit /\ WalksInit /\ (bytes # << >> => serial /\ ~alien)

MCNext ==
  \/ bytes = << >> /\ PlainNext /\ UNCHANGED walkVars
  \/ bytes # << >> /\ WalksNext /\ UNCHANGED plainVars

MCSpec ==
  MCInit /\ [][MCNext]_<<plainVars, walkVars>> /\ Fairness /\ Jade!JadeFairness
====
