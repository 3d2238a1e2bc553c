---------------------------- MODULE MCAsyncRead ----------------------------
(* Model-checking instance of AsyncRead, with the call slots of MCWriteBack. *)
EXTENDS AsyncRead

MCReadCallSlots == 1 .. (2 * MaxWrites + MaxFlushes + 1)

=============================================================================
