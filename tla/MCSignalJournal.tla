-------------------------- MODULE MCSignalJournal --------------------------
(* A message that reduces a trade and its edit, and a message that opens a *)
(* trade and reduces another.                                              *)
EXTENDS SignalJournal

CONSTANTS open, reduce

MCInstructions == {open, reduce}
MCEntry        == {open}
MCEdit         == << <<reduce>>, <<reduce>> >>
MCOne          == << <<open, reduce>> >>
=============================================================================
