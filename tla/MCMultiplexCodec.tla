-------------------------- MODULE MCMultiplexCodec --------------------------
(* MultiplexCodec for TLC: one boot with all that may be in the stream, and *)
(* two boots with less.                                                     *)
EXTENDS MultiplexCodec

Sig == MULLVAD_SIGNATURE

(* No payload, one that begins with a caret, and the signature itself. *)
StreamPayloads == {<<>>, <<Caret, 0>>, Sig}

(* Nothing, control pairs, a caret that is not first, the beginning of a    *)
(* signature, and zeros that look like a header.                            *)
StreamGarbage ==
  {<<>>, ControlPair \o ControlPair, <<10, Caret>>, SubSeq(Sig, 1, 5), <<0, 0, 0, 9>>}

Stream == [payloads |-> StreamPayloads, garbage |-> StreamGarbage, frames |-> 2]

(* A boot that is cut off by a reboot, and the one after it. *)
Short == [payloads |-> {<<Caret, 7>>}, garbage |-> {<<>>, ControlPair, <<27, 91>>}, frames |-> 1]

MCPlans == {<<Stream>>, <<Short, Short>>}
=============================================================================
