---------------------------- MODULE MCDialogForm ----------------------------
\* A list of two rows, of which neither is special.
EXTENDS DialogForm, TLC

RowSymmetry == Permutations(Rows)
=============================================================================
