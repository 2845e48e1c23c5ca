----------------------------- MODULE MCDrleRow -----------------------------
EXTENDS DrleRow

MCKinds == {HORIZONTAL, BLOCK_ROW(2)}

MCKindsBlock3 == {BLOCK_ROW(3)}

MCKindsBlock2 == {BLOCK_ROW(2)}
=============================================================================
