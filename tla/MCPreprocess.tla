---------------------------- MODULE MCPreprocess ----------------------------
(* Preprocessing with MT_CONF unset (four threads), one, two and three     *)
(* CPUs, or a setting with an empty field; XFORM_CONF and ENCODE_DELTAS    *)
(* unset or set to lists that fit XFORM_MAX = 3 and DELTAS_MAX = 3; the   *)
(* race and overrun runs use the settings defined for them below.         *)
EXTENDS Preprocess

MCConfs == {Unset, <<0>>, <<1, 0>>, <<0, 1, 2>>}

MCConfsEmpty == {<<0, Empty, 1>>}

MCConfsTwo == {<<0, 1>>}

(* XFORM_CONF=6: BLOCK_ROW_2, an order EncodeAll encodes in. *)
MCXformRace == {<<BLOCK_ROW(2)>>}

(* XFORM_CONF=1,5,13: three orders, whose -1 goes past XFORM_MAX = 3. *)
MCXformThree == {<<HORIZONTAL, BLOCK_ROW(1), BLOCK_COL(1)>>}

(* ENCODE_DELTAS=<1><2>: two groups, the second into a short temp. *)
MCDeltasTwo == {<<<<1>>, <<2>>>>}

MCXformEnvs == {Unset, <<1, 5>>}

MCDeltaEnvs == {Unset, <<<<1, 2>>>>}
=============================================================================
