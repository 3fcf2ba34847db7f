---------------------------- MODULE TimingRecord ----------------------------
(***************************************************************************)
(* One timing sample of src/metrics.rs: the spans that a request opens and *)
(* closes on its way through its handler, also when a `?` returns early,   *)
(* and the record made of them when the response leaves.  Which recorder a *)
(* span finds is the subject of module Metrics.                            *)
(*                                                                         *)
(* Time passes in ticks of the smallest tolerance, 1000 microseconds.      *)
(* What a handler does is the sequence of its measurement points;          *)
(* consecutive tpm2 commands are one unit, tpm2_us.                        *)
(***************************************************************************)
EXTENDS Integers, Sequences, FiniteSets, FiniteSetsExt

CONSTANTS
    Routes,             \* the routes that requests use
    MaxTicks            \* ticks from the arrival to the response (a bound)

VARIABLES
    clock,              \* ticks since the arrival
    program,            \* measurement points still ahead
    locals,             \* spans and scratch directories in scope, innermost last
    returning,          \* an error is on its way out: locals are being dropped
    stages, units,      \* the Buckets of the recorder
    staged,             \* history: ticks in which a stage was open
    route,              \* the route of the request
    record              \* what render writes, or Unwritten

buckets == <<stages, units>>
vars == <<clock, program, locals, returning, buckets, staged, route, record>>

-----------------------------------------------------------------------------
(* The measurement points of the handlers *)

Open(kind, name) == [op |-> "open", kind |-> kind, name |-> name]
End == [op |-> "end", kind |-> "none", name |-> "none"]
Try == [op |-> "try", kind |-> "none", name |-> "none"]
NewScratch == [op |-> "scratch", kind |-> "scratch", name |-> "none"]
DropScratch == [op |-> "drop", kind |-> "stage", name |-> "scratch_drop_us"]

Stage(name, body) == <<Open("stage", name)>> \o body \o <<End>>
Unit(name, body) == <<Open("unit", name)>> \o body \o <<End>>
Nothing == <<>>
Fallible == <<Try>>

\* enter_handler books the time since the arrival: it ends the stage that Init
\* opens.
enter_handler == <<End>>
Deserialize == Fallible \o Stage("json_deserialize_us", Fallible)
NonceValidate == Stage("nonce_validate_us", Fallible)
ReportDecode == Stage("report_decode_us", Fallible)
measure_json == Stage("serialize_us", Nothing)
Tpm2 == Unit("tpm2_us", Fallible)
Tpm2Tolerated == Unit("tpm2_us", Nothing)

\* Faulty variant: the span of the walk is not ended before the files are read.
MeasureFolderOpenWalk ==
    Unit("measure_folder_us",
        Fallible \o Unit("collect_regular_files_us",
                        Fallible \o Unit("read_and_hash_loop_us", Fallible)))

measure_folder ==
    Unit("measure_folder_us",
        Fallible \o Unit("collect_regular_files_us", Fallible)
                 \o Unit("read_and_hash_loop_us", Fallible))

measure_and_extend == Stage("measure_and_extend_us", measure_folder \o Tpm2)

\* The lock, the scratch directory, and its removal when the function returns.
Transaction(body) ==
    Stage("lock_wait_us", Nothing) \o Stage("scratch_new_us", Fallible)
        \o <<NewScratch>> \o body \o <<DropScratch, End>>

generate_tdx_report == Fallible \o Unit("ioctl_get_report_us", Fallible)
verify_tdx_report == Fallible \o Unit("ioctl_verify_report_us", Fallible)

\* The scratch directory of verify_quote goes when verify_quote returns.
verify_quote ==
    Fallible \o <<NewScratch>> \o Unit("decode_blob_us", Fallible)
        \o Unit("verify_write_us", Fallible) \o Unit("tpm2_checkquote_us", Fallible)
        \o <<DropScratch, End>>

information_tpm ==
    enter_handler
        \o Transaction(measure_and_extend \o Stage("ensure_ak_us", Tpm2Tolerated))
        \o measure_json

quote_tpm ==
    enter_handler \o Deserialize \o NonceValidate \o NonceValidate
        \o Transaction(measure_and_extend \o Stage("ensure_ak_us", Tpm2)
                           \o Stage("create_quote_us", Tpm2)
                           \o Stage("ak_pubkey_us", Tpm2Tolerated))
        \o measure_json

attestation_all ==
    enter_handler \o Deserialize \o NonceValidate \o NonceValidate
        \o Transaction(measure_and_extend \o Stage("ensure_ak_us", Tpm2)
                           \o Stage("create_quote_us", Tpm2)
                           \o Stage("tdx_report_us", generate_tdx_report)
                           \o Stage("ak_pubkey_us", Tpm2Tolerated))
        \o measure_json

verify_all ==
    enter_handler \o Deserialize \o Fallible \o ReportDecode
        \o Stage("tdx_verify_us", verify_tdx_report)
        \o Stage("tpm_verify_us", verify_quote) \o measure_json

attestation_with_random_number ==
    enter_handler \o Fallible \o NonceValidate \o generate_tdx_report \o measure_json

verify_report == enter_handler \o Deserialize \o ReportDecode \o verify_tdx_report \o measure_json
parse_report == enter_handler \o Deserialize \o ReportDecode \o Fallible \o measure_json
gpu_attestation == enter_handler \o Fallible \o measure_json

Program(r) ==
    CASE r = "information_tpm" -> information_tpm
      [] r = "quote_tpm" -> quote_tpm
      [] r = "attestation_all" -> attestation_all
      [] r = "verify_all" -> verify_all
      [] r = "attestation_with_random_number" -> attestation_with_random_number
      [] r = "verify_report" -> verify_report
      [] r = "parse_report" -> parse_report
      [] r = "gpu_attestation" -> gpu_attestation

-----------------------------------------------------------------------------
(* Buckets *)

Add(b, name, us) ==
    [n \in DOMAIN b \cup {name} |->
        (IF n \in DOMAIN b THEN b[n] ELSE 0) + (IF n = name THEN us ELSE 0)]
Get(b, name) == IF name \in DOMAIN b THEN b[name] ELSE 0
Total(b) == MapThenSumSet(LAMBDA n : b[n], DOMAIN b)
Has(b, names) == names \subseteq DOMAIN b

-----------------------------------------------------------------------------
(* The request *)

Unwritten == [e2e |-> 0, unattributed |-> 0, checksum_ok |-> FALSE, written |-> FALSE]

Init ==
    /\ clock = 0
    /\ route \in Routes
    /\ program = Program(route)
    /\ locals = <<[kind |-> "stage", name |-> "http_body_read_us", started |-> 0]>>
    /\ returning = FALSE
    /\ stages = <<>>
    /\ units = <<>>
    /\ staged = 0
    /\ record = Unwritten

Innermost == locals[Len(locals)]
Outer == SubSeq(locals, 1, Len(locals) - 1)
InStage == \E i \in 1..Len(locals) : locals[i].kind = "stage"

\* Time passes, wherever the request is.
Tick ==
    /\ ~record.written
    /\ clock < MaxTicks
    /\ clock' = clock + 1
    /\ staged' = IF InStage THEN staged + 1 ELSE staged
    /\ UNCHANGED <<program, locals, returning, buckets, route, record>>

\* start(name, kind), and Scratch::new.
Start(point) ==
    locals' = Append(locals, [kind |-> point.kind, name |-> point.name, started |-> clock])

\* Span::finish, which takes `started` so that a span is booked only once.
Finish ==
    /\ LET us == clock - Innermost.started
       IN  IF Innermost.kind = "stage"
           THEN stages' = Add(stages, Innermost.name, us) /\ UNCHANGED units
           ELSE units' = Add(units, Innermost.name, us) /\ UNCHANGED stages
    /\ locals' = Outer

\* Scratch::drop measures the removal of the directory.
StartDrop ==
    locals' = Append(Outer, [kind |-> DropScratch.kind, name |-> DropScratch.name, started |-> clock])

\* The handler reaches its next measurement point.
Step ==
    /\ ~returning
    /\ program # <<>>
    /\ LET point == Head(program)
       IN  \/ point.op \in {"open", "scratch"} /\ Start(point) /\ UNCHANGED buckets
           \/ point.op = "drop" /\ StartDrop /\ UNCHANGED buckets
           \/ point.op = "end" /\ Finish
           \/ point.op = "try" /\ UNCHANGED <<locals, buckets>>
    /\ program' = Tail(program)
    /\ UNCHANGED <<clock, returning, staged, route, record>>

\* A `?` returns: what is in scope is dropped, innermost first.
EarlyReturn ==
    /\ ~returning
    /\ program # <<>> /\ Head(program).op = "try"
    /\ returning' = TRUE
    /\ program' = <<>>
    /\ UNCHANGED <<clock, locals, buckets, staged, route, record>>

\* Faulty variant: a span that is dropped without end() is not booked.
UnwindForgets ==
    /\ returning
    /\ locals # <<>>
    /\ locals' = Outer
    /\ UNCHANGED <<clock, program, returning, buckets, staged, route, record>>

Unwind ==
    /\ returning
    /\ locals # <<>>
    /\ \/ Innermost.kind = "scratch" /\ StartDrop /\ UNCHANGED buckets
       \/ Innermost.kind # "scratch" /\ Finish
    /\ UNCHANGED <<clock, program, returning, staged, route, record>>

\* max(1000, e2e / 20) microseconds.
Tolerance(e2e) == IF e2e \div 20 > 1 THEN e2e \div 20 ELSE 1

Abs(n) == IF n < 0 THEN -n ELSE n
TpmUnits == Get(units, "tpm2_us") + Get(units, "tpm2_checkquote_us")

\* The rules of checksum_ok that the field guide gives: the residual, the two
\* pairs of parent and children, and the commands against the whole.  The slack
\* of a pair, tolerance.max(parent / 20), is the tolerance: no parent is longer
\* than the request.
ResidualSmall(e2e, unattributed) == Abs(unattributed) <= Tolerance(e2e)
ParentsCover(slack) ==
    /\ Has(units, {"measure_folder_us", "collect_regular_files_us", "read_and_hash_loop_us"}) =>
         units["measure_folder_us"] + slack
            >= units["collect_regular_files_us"] + units["read_and_hash_loop_us"]
    /\ Has(stages, {"tdx_report_us"}) /\ Has(units, {"ioctl_get_report_us"}) =>
         stages["tdx_report_us"] + slack >= units["ioctl_get_report_us"]
CommandsWithin(e2e, slack) == TpmUnits <= e2e + slack

checksum_ok(e2e, unattributed) ==
    /\ ResidualSmall(e2e, unattributed)
    /\ ParentsCover(Tolerance(e2e))
    /\ CommandsWithin(e2e, Tolerance(e2e))
    /\ Total(units) <= e2e + Tolerance(e2e)

\* record_response: the residual and the verdict are computed from the
\* buckets as they are when the response leaves.
record_response ==
    /\ program = <<>>
    /\ locals = <<>>
    /\ ~record.written
    /\ record' = [e2e |-> clock,
                  unattributed |-> clock - Total(stages),
                  checksum_ok |-> checksum_ok(clock, clock - Total(stages)),
                  written |-> TRUE]
    /\ UNCHANGED <<clock, program, locals, returning, buckets, staged, route>>

Next == Tick \/ Step \/ EarlyReturn \/ Unwind \/ record_response

Spec == Init /\ [][Next]_vars

-----------------------------------------------------------------------------
(* Properties *)

\* The types of the recorder; durations are unsigned, only the residual may be
\* negative.
TypeOK ==
    /\ clock \in 0..MaxTicks
    /\ \A i \in 1..Len(locals) : locals[i].started \in 0..clock
    /\ \A n \in DOMAIN stages : stages[n] \in Nat
    /\ \A n \in DOMAIN units : units[n] \in Nat
    /\ record.e2e \in Nat /\ record.unattributed \in Int
    /\ {returning, record.written, record.checksum_ok} \subseteq BOOLEAN

\* The stages add up: the sum in the record is the time that the request spent
\* in some stage, none lost, also when the handler returned early and its spans
\* were dropped.  No moment is counted twice, but for the one nesting there is:
\* verify_quote removes its scratch directory inside tpm_verify_us.
CountedTwice == IF route = "verify_all" THEN Get(stages, "scratch_drop_us") ELSE 0
StagesAddUp == record.written => Total(stages) = staged + CountedTwice

\* The parent and child pairs that checksum_ok compares are nested in time, so
\* the comparison holds exactly and on every path; and the commands fit into
\* the request.  A sample is never rejected for one of these rules.
PairsNested == record.written => ParentsCover(0) /\ CommandsWithin(record.e2e, 0)
=============================================================================
