--------------------------- MODULE MCJournalLadder ---------------------------
(***************************************************************************)
(* The take-profit ladder and the signal journal, which share no state, in *)
(* one run with the fairness of both: a behaviour is one of a single part, *)
(* and part says of which.  The ladder is extended and keeps its           *)
(* variables; the journal is two instances over x1, x2, ... in the order   *)
(* in which its module declares its variables: of a message that opens a   *)
(* trade and reduces another, in a format that needs no model, and of one  *)
(* with an entry alone, which the model reads.                             *)
(***************************************************************************)
EXTENDS MCTakeProfitLadder

CONSTANTS open, reduce, Chroma, MaxStops

VARIABLES part, x1, x2, x3, x4, x5, x6, x7, x8, x9, x10

xs  == <<x1, x2, x3, x4, x5, x6, x7, x8, x9, x10>>
all == <<part, xs, vars>>

Journal == INSTANCE SignalJournal_proofs WITH
    Instructions <- {open, reduce}, Entry <- {open}, Text <- << <<open, reduce>> >>,
    Known <- {1}, MaxFaults <- 0,
    run <- x1, delivery <- x2, signal <- x3, interp <- x4, tries <- x5, action <- x6,
    hand <- x7, late <- x8, stops <- x9, faults <- x10

Asked == INSTANCE SignalJournal_proofs WITH
    Instructions <- {open}, Entry <- {open}, Text <- << <<open>> >>,
    Known <- {}, MaxFaults <- 0,
    run <- x1, delivery <- x2, signal <- x3, interp <- x4, tries <- x5, action <- x6,
    hand <- x7, late <- x8, stops <- x9, faults <- x10

ASSUME JournalAssumption == Journal!SignalAssumption /\ Asked!SignalAssumption

Unused ==
    /\ x1 = 0 /\ x2 = 0 /\ x3 = 0 /\ x4 = 0 /\ x5 = 0
    /\ x6 = 0 /\ x7 = 0 /\ x8 = 0 /\ x9 = 0 /\ x10 = 0

PartsInit ==
    /\ Init
    /\ \/ part = "ladder" /\ Unused
       \/ part = "journal" /\ Journal!Init
       \/ part = "asked" /\ Asked!Init

OfLadder(A)  == part = "ladder" /\ A /\ UNCHANGED <<part, xs>>
OfJournal(A) == part = "journal" /\ A /\ UNCHANGED <<part, vars>>
OfAsked(A)   == part = "asked" /\ A /\ UNCHANGED <<part, vars>>

PartsNext == OfLadder(Next) \/ OfJournal(Journal!Next) \/ OfAsked(Asked!Next)

\* FairSpec of each.  A behaviour never changes its part, so that one conjunct
\* states the fairness of one action of each.
PartsSpec ==
    /\ PartsInit /\ [][PartsNext]_all
    /\ WF_all(OfJournal(Journal!Handling) \/ OfAsked(Asked!Handling) \/ OfLadder(Handler))
    /\ WF_all(OfJournal(Journal!Stopped) \/ OfAsked(Asked!Stopped) \/ OfLadder(Arrivals))
    /\ WF_all(OfJournal(Journal!Start) \/ OfAsked(Asked!Start) \/ OfLadder(ExitRuns))
    /\ SF_all(OfJournal(Journal!Retry(1)) \/ OfAsked(Asked!Retry(1)) \/ OfLadder(RowAged))
    /\ SF_all(OfJournal(Journal!Dispatch(1)) \/ OfAsked(Asked!Dispatch(1)))
    /\ WF_all(OfJournal(Journal!Expire(Journal!Post)) \/ OfAsked(Asked!Expire(Asked!Post)))
    /\ WF_all(OfJournal(Journal!Expire(1)) \/ OfAsked(Asked!Expire(1)))

-----------------------------------------------------------------------------
(* Properties of the parts; each is stated, with the code behaviour it is  *)
(* about, where it is defined.  NeverOversold and FillsKept are the        *)
(* ladder's own.                                                           *)

\* Every part is type correct.
PartsTypeOK ==
    TypeOK /\ (part = "journal" => Journal!TypeOK) /\ (part = "asked" => Asked!TypeOK)
\* SignalJournal: what the journal calls never submitted was not.
RejectedNeverSent ==
    /\ part = "journal" => Journal!RejectedNeverSent
    /\ part = "asked" => Asked!RejectedNeverSent
\* SignalJournal, TakeProfitLadder: every revision gets an outcome; again and again
\* every take profit stands as it should.
SignalsAndLadderSettle ==
    \/ part = "journal" /\ Journal!Received(1)
    \/ part = "asked" /\ Asked!Received(1)
    \/ part = "ladder"
        ~> /\ part = "journal" => Journal!HasOutcome(1)
           /\ part = "asked" => Asked!HasOutcome(1)
           /\ part = "ladder" => LadderStands
=============================================================================
