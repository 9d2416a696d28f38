--------------------------- MODULE MCEntryJournal ---------------------------
(***************************************************************************)
(* The entry in two legs and the signal journal, which share no state, in  *)
(* one run without fairness: a behaviour is one of a single part, and part *)
(* says of which.  The entry is extended and keeps its variables; the      *)
(* journal of a message that reduces a trade, and of its edit, is an       *)
(* instance over x1, x2, ... in the order in which its module declares its *)
(* variables.                                                              *)
(***************************************************************************)
EXTENDS MCManagedEntry, Sequences

CONSTANTS open, reduce, Known, Chroma, MaxStops, MaxFaults

VARIABLES part, x1, x2, x3, x4, x5, x6, x7, x8, x9, x10

xs  == <<x1, x2, x3, x4, x5, x6, x7, x8, x9, x10>>
all == <<part, xs, vars>>

Journal == INSTANCE SignalJournal_proofs WITH
    Instructions <- {open, reduce}, Entry <- {open}, Text <- << <<reduce>>, <<reduce>> >>,
    run <- x1, delivery <- x2, signal <- x3, interp <- x4, tries <- x5, action <- x6,
    hand <- x7, late <- x8, stops <- x9, faults <- x10

ASSUME JournalAssumption == Journal!SignalAssumption

Unused ==
    /\ x1 = 0 /\ x2 = 0 /\ x3 = 0 /\ x4 = 0 /\ x5 = 0
    /\ x6 = 0 /\ x7 = 0 /\ x8 = 0 /\ x9 = 0 /\ x10 = 0

PartsInit ==
    /\ Init
    /\ \/ part = "entry" /\ Unused
       \/ part = "journal" /\ Journal!Init

OfEntry(A)   == part = "entry" /\ A /\ UNCHANGED <<part, xs>>
OfJournal(A) == part = "journal" /\ A /\ UNCHANGED <<part, vars>>

PartsNext == OfEntry(Next) \/ OfJournal(Journal!Next)

PartsSpec == PartsInit /\ [][PartsNext]_all

-----------------------------------------------------------------------------
(* Properties of the parts; each is stated, with the code behaviour it is  *)
(* about, where it is defined.  CancelledIsOver, WorkingIsTrue,           *)
(* LatchIsOneWay and SecondLegProtected are the entry's own.               *)

\* Both parts are type correct.
PartsTypeOK == TypeOK /\ (part = "journal" => Journal!TypeOK)
\* SignalJournal: an instruction is submitted once, unless its action was abandoned.
ExecutedOnce == part = "journal" => Journal!ExecutedOnce
\* SignalJournal: a signal reported executed has an action that was done.
ExecutedIsReal == part = "journal" => Journal!ExecutedIsReal
=============================================================================
