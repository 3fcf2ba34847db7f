--------------------------- MODULE StatelessParts ---------------------------
(***************************************************************************)
(* The parts of the server that keep nothing from one call to the next:    *)
(* the GPU parser, the challenge decoding, the TDREPORT decoding, the      *)
(* timestamps and the timing record.  A behaviour is that of one of them,  *)
(* while the others have not been called.                                  *)
(***************************************************************************)
EXTENDS Integers, Sequences

CONSTANTS
    Indices, Chains, Fields, Values, Worded, MaxLines,  \* see GpuParser
    Width, MaxTyped,                                \* see Challenge
    Lengths, MaxChanged,                            \* see Tdreport
    LastYear, SecondsOfDay,                         \* see Calendar
    Routes, MaxTicks,                               \* see TimingRecord
    None

VARIABLES
    part,                                           \* the part that is called
    script, text, devices, current, current_chain, summary, reply,
    nonce, challenge, outcome,
    report, answer,
    days, sod, date,
    clock, program, locals, returning, stages, units, staged, route, record

Gpu == INSTANCE GpuParser
Ch == INSTANCE Challenge
Td == INSTANCE Tdreport
Cal == INSTANCE Calendar
Tim == INSTANCE TimingRecord

ASSUME BoundsAssumption ==
    /\ {MaxLines, MaxTyped, MaxChanged, LastYear, MaxTicks} \subseteq Nat
    /\ Width \in Nat \ {0}
ASSUME SetsAssumption ==
    /\ Indices \cup Lengths \subseteq Nat
    /\ Worded \subseteq Values
    /\ 0 \in SecondsOfDay /\ \A s \in SecondsOfDay : s \in Nat /\ s < 86400
    /\ None \notin Nat \cup Chains \cup Values
    /\ None \notin Seq(Nat) \cup Seq(Ch!Chars) \cup Gpu!Device \cup Gpu!Lines
    /\ None \notin [len : Lengths, nonzero : SUBSET Nat] \cup Td!Decoded
    /\ Routes \subseteq {"information_tpm", "quote_tpm", "attestation_all", "verify_all",
                         "attestation_with_random_number", "verify_report", "parse_report",
                         "gpu_attestation"}

gpuVars == <<script, text, devices, current, current_chain, summary, reply>>
challengeVars == <<nonce, challenge, outcome>>
reportVars == <<report, answer>>
clockVars == <<days, sod, date>>
recordVars ==
    <<clock, program, locals, returning, stages, units, staged, route, record>>
vars == <<part, gpuVars, challengeVars, reportVars, clockVars, recordVars>>

Parts == {"gpu", "challenge", "report", "timestamp", "record"}

\* The initial states of a part that is not called differ in nothing that
\* matters; one of them is taken.
Init ==
    /\ part \in Parts
    /\ Gpu!Init
    /\ Ch!Init /\ (part # "challenge" => nonce = None /\ challenge = None)
    /\ Td!Init
    /\ Cal!Init /\ (part # "timestamp" => days = 0)
    /\ Tim!Init /\ (part # "record" => route = CHOOSE r \in Routes : TRUE)

ParseGpu ==
    /\ part = "gpu" /\ Gpu!Next
    /\ UNCHANGED <<part, challengeVars, reportVars, clockVars, recordVars>>

DecodeChallenge ==
    /\ part = "challenge" /\ Ch!Next
    /\ UNCHANGED <<part, gpuVars, reportVars, clockVars, recordVars>>

DecodeReport ==
    /\ part = "report" /\ Td!Next
    /\ UNCHANGED <<part, gpuVars, challengeVars, clockVars, recordVars>>

ReadClock ==
    /\ part = "timestamp" /\ Cal!Next
    /\ UNCHANGED <<part, gpuVars, challengeVars, reportVars, recordVars>>

RecordRequest ==
    /\ part = "record" /\ Tim!Next
    /\ UNCHANGED <<part, gpuVars, challengeVars, reportVars, clockVars>>

Next == ParseGpu \/ DecodeChallenge \/ DecodeReport \/ ReadClock \/ RecordRequest

Spec == Init /\ [][Next]_vars

-----------------------------------------------------------------------------
(* Properties: those of the parts, where they are stated in full *)

\* The types of each part's variables.
TypeOK ==
    CASE part = "gpu" -> Gpu!TypeOK
      [] part = "challenge" -> Ch!TypeOK
      [] part = "report" -> Td!TypeOK
      [] part = "timestamp" -> Cal!TypeOK
      [] part = "record" -> Tim!TypeOK

\* GPU: the result of reading line by line is what the whole text says.
ResultMatchesText == Gpu!ResultMatchesText

\* Challenge: what denotes one challenge is accepted, and nothing else.
AcceptedIffMeant == Ch!AcceptedIffMeant

\* Challenge: quote, TDX report and evidence carry the bytes the caller meant.
BoundToOneChallenge == Ch!BoundToOneChallenge

\* Challenge: the routes with and without a quote put the same bytes in the report.
RoutesAgree == Ch!RoutesAgree

\* TDREPORT: a byte shows in at most one decoded field.
OneByteOneField == Td!OneByteOneField

\* TDREPORT: a byte shows in the structure that the layout puts it in.
LayoutRespected == Td!LayoutRespected

\* Timestamps: the date and the time of day are those of the calendar.
StampCorrect == Cal!StampCorrect

\* Timestamps: later ones sort later.
StampsIncrease == Cal!StampsIncrease

\* Timing record: the stages add up to the time spent in them, on every path.
StagesAddUp == Tim!StagesAddUp

\* Timing record: the pairs that checksum_ok compares are nested in time.
PairsNested == Tim!PairsNested
=============================================================================
